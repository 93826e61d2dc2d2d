----------------------------- MODULE AstDecoder ------------------------------
(***************************************************************************)
(* TsgoDecoder of tsgo-decoder/src/decoder.rs: a buffer with a header, a   *)
(* table of string bounds, the strings, extended data and fixed-size nodes *)
(* is read front to back, once, and either every part of it is accepted or *)
(* none.  The buffer is what the child answered, so it may be cut short or *)
(* have words in it that no encoder wrote.                                 *)
(*                                                                         *)
(* The buffer is counted in words of four bytes: offsets, sizes and string *)
(* bounds are those of the code divided by four, and those not divisible   *)
(* are left out.  A node's data word has the same three fields as in the   *)
(* code, with IndexSize in the place of 2^24.                              *)
(***************************************************************************)
EXTENDS Integers, FiniteSets, SequencesExt, FiniteSetsExt

CONSTANTS
  IndexSize,   \* bound: values of the index field of a node's data
  SyntaxKinds, \* kind words that SyntaxKind::from_repr knows
  SourceFile, Template, VariableDeclarationList, ImportAttributes, NodeList,
               \* those that the decoder treats specially
  TokenFlags,  \* words that TokenFlags::from_bits accepts
  Trees,       \* bound: the trees that are encoded, sequences of nodes
  Values       \* bound: the words that replace one of an encoding

HeaderSize == 5
NodeSize == 6
Version == 1

\* Option<T>: a sequence of at most one.
None == <<>>
Some(x) == <<x>>
Option(T) == {o \in Seq(T) : Len(o) <= 1}

\* Node of decoder.rs.
Node ==
  [kind : SyntaxKinds \cup {NodeList}, pos : Nat, end : Nat, nextSibling : Nat,
   parent : Nat, text : Option(Seq(Nat)), flags : Option(0 .. 3),
   token : Option({"Assert", "With"}), templateFlags : Option(TokenFlags),
   rawText : Option(Seq(Nat)), fileName : Option(Seq(Nat))]

ASSUME DecoderAssumption ==
  /\ IndexSize \in Nat \ {0} /\ SyntaxKinds \subseteq Nat
  /\ {SourceFile, Template, VariableDeclarationList, ImportAttributes}
       \subseteq SyntaxKinds
  /\ NodeList \in Nat \ SyntaxKinds /\ TokenFlags \subseteq Nat
  /\ Trees \subseteq Seq(Node) /\ Values \subseteq Nat

-----------------------------------------------------------------------------
(* The encoder of the compiler (external).                                 *)

\* Parts written one behind the other: where the first i of them end.
Ends(parts, i) == Len(FlattenSeq(SubSeq(parts, 1, i)))

\* The strings a node refers to, those of a tree, and the number of them that
\* precede a node's.
Uses(n) == n.text \o n.rawText \o n.fileName
UsesOf(tree) == [i \in DOMAIN tree |-> Uses(tree[i])]
Strings(tree) == FlattenSeq(UsesOf(tree))
FirstUse(tree, i) == Ends(UsesOf(tree), i - 1)

\* A node's entry in the extended data.
Extended(n) == n.kind \in {SourceFile, Template}
Entry(tree, i) ==
  IF Extended(tree[i])
  THEN <<2 * FirstUse(tree, i), 2 * FirstUse(tree, i) + 2>> \o tree[i].templateFlags
  ELSE <<>>
EntriesOf(tree) == [i \in DOMAIN tree |-> Entry(tree, i)]

Data(tree, i) ==
  LET n == tree[i] IN
  IF Extended(n) THEN 8 * IndexSize + Ends(EntriesOf(tree), i - 1)
  ELSE IF n.text # None THEN 4 * IndexSize + 2 * FirstUse(tree, i)
  ELSE IF n.flags # None THEN n.flags[1] * IndexSize
  ELSE IF n.token = Some("Assert") THEN 2 * IndexSize ELSE 0

BoundsOf(strings) ==
  [i \in DOMAIN strings |-> <<Ends(strings, i - 1), Ends(strings, i)>>]

NodesOf(tree) ==
  [i \in DOMAIN tree |->
     <<tree[i].kind, tree[i].pos, tree[i].end, tree[i].nextSibling, tree[i].parent,
       Data(tree, i)>>]

\* Where the strings, the extended data and the nodes begin.
StringData(tree) == HeaderSize + Len(FlattenSeq(BoundsOf(Strings(tree))))
ExtendedData(tree) == StringData(tree) + Len(FlattenSeq(Strings(tree)))
NodeData(tree) == ExtendedData(tree) + Len(FlattenSeq(EntriesOf(tree)))

Encode(tree) ==
  <<Version, HeaderSize, StringData(tree), ExtendedData(tree), NodeData(tree)>>
    \o FlattenSeq(BoundsOf(Strings(tree))) \o FlattenSeq(Strings(tree))
    \o FlattenSeq(EntriesOf(tree)) \o FlattenSeq(NodesOf(tree))

\* What the encoder is asked to encode: each kind of node has the fields that it
\* is encoded with, and the indices fit into theirs.
Encodable(tree) ==
  /\ tree # <<>>
  /\ \A i \in DOMAIN tree :
       LET n == tree[i] IN
       /\ n.flags # None <=> n.kind = VariableDeclarationList
       /\ n.token # None <=> n.kind = ImportAttributes
       /\ n.templateFlags # None <=> n.kind = Template
       /\ n.rawText # None <=> n.kind = Template
       /\ n.fileName # None <=> n.kind = SourceFile
       /\ Extended(n) => n.text # None /\ Ends(EntriesOf(tree), i - 1) < IndexSize
       /\ n.text # None => /\ n.kind \notin {VariableDeclarationList, ImportAttributes}
                           /\ 2 * FirstUse(tree, i) < IndexSize

ASSUME EncoderAssumption ==
  /\ Cardinality({SourceFile, Template, VariableDeclarationList, ImportAttributes}) = 4
  /\ \A tree \in Trees : Encodable(tree)

VARIABLES
  data,    \* the buffer
  origin,  \* how it came about
  at,      \* what is decoded next, or how decoding has ended
  header, table, nodes

vars == <<data, origin, at, header, table, nodes>>

NoHeader == [stringOffsets |-> 0, stringData |-> 0, extendedData |-> 0, nodes |-> 0]

Init ==
  /\ \E tree \in Trees :
       LET whole == Encode(tree) IN
       \/ data = whole /\ origin = [tree |-> tree, change |-> "none"]
       \/ \E n \in 0 .. Len(whole) - 1 :
            /\ data = SubSeq(whole, 1, n)
            /\ origin = [tree |-> tree, change |-> "cut"]
       \/ \E i \in DOMAIN whole, v \in Values :
            /\ data = [whole EXCEPT ![i] = v]
            /\ origin = [tree |-> tree, change |-> "word"]
  /\ at = "header" /\ header = NoHeader /\ table = <<>> /\ nodes = <<>>

Word(offset) == data[offset + 1]
Rest(offset) == SubSeq(data, offset + 1, Len(data))

\* Changed: what was decoded before the error is handed out.
FailKeeping(how) == at' = how /\ UNCHANGED <<header, table, nodes>>

\* An error, or a panic, and nothing is decoded.
Fail(how) == at' = how /\ table' = <<>> /\ nodes' = <<>> /\ UNCHANGED header

-----------------------------------------------------------------------------
(* The three stages of TsgoDecoder::new.                                   *)

\* The code compares the top byte of the first word and reads nothing else of
\* it: Version stands for every word with that byte.
DecodeHeader ==
  /\ at = "header"
  /\ IF Len(data) < HeaderSize THEN Fail("BufferTooSmall")
     ELSE IF data[1] # Version THEN Fail("UnsupportedProtocolVersion")
     ELSE /\ header' = [stringOffsets |-> data[2], stringData |-> data[3],
                        extendedData |-> data[4], nodes |-> data[5]]
          /\ at' = "strings" /\ UNCHANGED <<table, nodes>>
  /\ UNCHANGED <<data, origin>>

\* Changed: only the start of the string data is compared with its size.
TooLongUnchecked(pair, size) == pair[1] > size

TooLong(pair, size) == pair[2] > size
Reversed(pair) == pair[1] > pair[2]

\* Changed: the offsets are not compared with the size of the buffer.
OutsideUnchecked(offset) == FALSE

Outside(offset) == offset >= Len(data)

\* The pairs of words between two offsets.
Pairs(start, end) ==
  [i \in 1 .. (end - start) \div 2 |->
     <<Word(start + 2 * i - 2), Word(start + 2 * i - 1)>>]

\* The slice between the offsets panics if they are reversed or too large.
DecodeStringTable ==
  LET start == header.stringOffsets
      end == header.stringData
      bytes == Rest(end)
      pairs == Pairs(start, end)
      bad == {i \in DOMAIN pairs : TooLong(pairs[i], Len(bytes)) \/ Reversed(pairs[i])}
  IN
  /\ at = "strings"
  /\ IF Outside(start) \/ Outside(end) THEN Fail("InvalidDataOffset")
     ELSE IF start > end \/ end > Len(data) THEN Fail("panic")
     ELSE IF bad # {}
     THEN Fail(IF TooLong(pairs[Min(bad)], Len(bytes))
               THEN "StringBoundsOutOfRange" ELSE "StringBoundsInvalid")
     ELSE table' = pairs /\ at' = "nodes" /\ UNCHANGED <<header, nodes>>
  /\ UNCHANGED <<data, origin>>

\* StringTable::get, on an index that counts offsets.
String(index) ==
  LET i == index \div 2 + 1 IN
  IF i \in DOMAIN table
  THEN Some(SubSeq(Rest(header.stringData), table[i][1] + 1, table[i][2]))
  ELSE None

Type(word) == (word \div (4 * IndexSize)) % 4
Index(word) == word % IndexSize
ExtendedOffset(word) == header.extendedData + Index(word)

\* Changed: the string index is not halved.
TextUnhalved(kind, word) ==
  CASE Type(word) = 1 -> String(2 * Index(word))
    [] Type(word) = 2 /\ kind \in {SourceFile, Template}
         /\ ExtendedOffset(word) + 1 <= Len(data) ->
       String(2 * Word(ExtendedOffset(word)))
    [] OTHER -> None

DecodeText(kind, word) ==
  CASE Type(word) = 1 -> String(Index(word))
    [] Type(word) = 2 /\ kind \in {SourceFile, Template}
         /\ ExtendedOffset(word) + 1 <= Len(data) ->
       String(Word(ExtendedOffset(word)))
    [] OTHER -> None

DecodeExtendedData(kind, word) ==
  LET offset == ExtendedOffset(word)
      Has(k, size) == Type(word) = 2 /\ kind = k /\ offset + size <= Len(data)
      raw == Word(offset + 2)
  IN
  [flags |-> IF kind = VariableDeclarationList
             THEN Some((word \div IndexSize) % 4) ELSE None,
   token |-> IF kind = ImportAttributes
             THEN Some(IF (word \div (2 * IndexSize)) % 2 = 1 THEN "Assert" ELSE "With")
             ELSE None,
   templateFlags |-> IF Has(Template, 3) /\ raw \in TokenFlags THEN Some(raw) ELSE None,
   rawText |-> IF Has(Template, 3) THEN String(Word(offset + 1)) ELSE None,
   fileName |-> IF Has(SourceFile, 2) THEN String(Word(offset + 1)) ELSE None]

\* Changed: a node has to be followed by something.
CountFollowed == (Len(data) - header.nodes - 1) \div NodeSize

Count == (Len(data) - header.nodes) \div NodeSize

\* The node whose words begin at the offset.
NodeAt(offset) ==
  LET kind == Word(offset)
      word == Word(offset + 5)
      extended == DecodeExtendedData(kind, word)
  IN
  [kind |-> kind, pos |-> Word(offset + 1), end |-> Word(offset + 2),
   nextSibling |-> Word(offset + 3), parent |-> Word(offset + 4),
   text |-> DecodeText(kind, word), flags |-> extended.flags,
   token |-> extended.token, templateFlags |-> extended.templateFlags,
   rawText |-> extended.rawText, fileName |-> extended.fileName]

DecodeNode ==
  LET offset == header.nodes + NodeSize * Len(nodes)
      kind == Word(offset)
  IN
  /\ at = "nodes" /\ header.nodes <= Len(data) /\ Len(nodes) < Count
  /\ IF kind # NodeList /\ kind \notin SyntaxKinds
     THEN Fail("UnknownSyntaxKind")
     ELSE nodes' = Append(nodes, NodeAt(offset)) /\ UNCHANGED <<at, header, table>>
  /\ UNCHANGED <<data, origin>>

\* Whatever follows the last whole node is ignored.
Finish ==
  /\ at = "nodes"
  /\ IF header.nodes > Len(data) THEN Fail("InvalidDataOffset")
     ELSE /\ Len(nodes) = Count /\ at' = "done"
          /\ UNCHANGED <<header, table, nodes>>
  /\ UNCHANGED <<data, origin>>

Next == DecodeHeader \/ DecodeStringTable \/ DecodeNode \/ Finish

Spec == Init /\ [][Next]_vars

-----------------------------------------------------------------------------
(* Correctness.                                                            *)

Errors == {"BufferTooSmall", "UnsupportedProtocolVersion", "InvalidDataOffset",
           "StringBoundsOutOfRange", "StringBoundsInvalid", "UnknownSyntaxKind"}

\* Every variable has its type, so every read was within the buffer, and a
\* failed decoding keeps nothing.
TypeOK ==
  /\ data \in Seq(Nat) /\ origin.change \in {"none", "cut", "word"}
  /\ at \in {"header", "strings", "nodes", "done", "panic"} \cup Errors
  /\ header \in [DOMAIN NoHeader -> Nat]
  /\ table \in Seq(Nat \X Nat)
  /\ nodes \in Seq(Node)
  /\ at \in {"panic"} \cup Errors => table = <<>> /\ nodes = <<>>

\* An encoded tree decodes to that tree: every string, flag and file name is the
\* one that was encoded.
RoundTrip ==
  /\ origin.change = "none" => at \notin {"panic"} \cup Errors
  /\ origin.change = "none" /\ at = "done" => nodes = origin.tree

\* Whatever the buffer, each entry of an accepted table lies in the string data:
\* what get_unchecked in StringTable::get relies on.
StringsInBounds ==
  \A i \in DOMAIN table :
    table[i][1] <= table[i][2] /\ header.stringData + table[i][2] <= Len(data)

\* What the nodes say without strings and extended data.
Shape(n) == <<n.kind, n.pos, n.end, n.nextSibling, n.parent, n.flags, n.token>>

\* Damage stays where it is.  An encoding that was cut short decodes, if at all,
\* to the nodes that are complete, with all their strings.  A word that was
\* replaced behind the header changes its own node, or strings and what is read
\* through the extended data; and a node loses its text without an error only if
\* the word was the index of that text.
DamageStaysLocal ==
  LET tree == origin.tree
      whole == Encode(tree)
      damaged == {i \in DOMAIN data : data[i] # whole[i]}
      Words(k) == header.nodes + NodeSize * (k - 1) + 1 .. header.nodes + NodeSize * k
  IN
  /\ origin.change = "cut" /\ at = "done" =>
       /\ IsPrefix(nodes, tree)
       /\ Len(data) < header.nodes + NodeSize * (Len(nodes) + 1)
  /\ origin.change = "word" /\ at = "done" /\ damaged \cap 1 .. HeaderSize = {} =>
       /\ Len(nodes) = Len(tree)
       /\ \A k \in DOMAIN tree : damaged \cap Words(k) = {} =>
            /\ Shape(nodes[k]) = Shape(tree[k])
            /\ (\E i \in damaged : i > header.nodes) => nodes[k] = tree[k]
            /\ nodes[k].text = None /\ tree[k].text # None =>
                 Extended(tree[k]) /\ \E i \in damaged : i > header.extendedData

\* Decoding panics only on a buffer whose string data begin before the string
\* offsets; every other defect is an error.
PanicOnlyReversed == at = "panic" => header.stringOffsets > header.stringData
=============================================================================
