---------------------------- MODULE MCAstDecoder -----------------------------
(* Constants of AstDecoder for TLC: kinds 1 to 5, the fifth an identifier. *)
EXTENDS AstDecoder

Plain(kind) ==
  [kind |-> kind, pos |-> 1, end |-> 2, nextSibling |-> 3, parent |-> 4,
   text |-> None, flags |-> None, token |-> None, templateFlags |-> None,
   rawText |-> None, fileName |-> None]

MCNodes ==
  {[Plain(1) EXCEPT !.text = Some(<<7, 8>>), !.fileName = Some(<<9>>)],
   [Plain(2) EXCEPT !.text = Some(<<>>), !.rawText = Some(<<6>>),
                    !.templateFlags = Some(4)],
   [Plain(3) EXCEPT !.flags = Some(3)],
   [Plain(4) EXCEPT !.token = Some("Assert")],
   [Plain(5) EXCEPT !.text = Some(<<5, 5>>)],
   Plain(NodeList)}

\* Trees of one node or two.
MCTrees == {<<n>> : n \in MCNodes} \cup (MCNodes \X MCNodes)

MCValues == {0, 1, 4, 7, 13, 67, 130, 4095}
=============================================================================
