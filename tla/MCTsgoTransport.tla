-------------------------- MODULE MCTsgoTransport ---------------------------
(* Constants of TsgoTransport for TLC.                                     *)
EXTENDS TransportFraming

CONSTANTS m1, m2

MCMethods == {m1, m2}

OneMethod == {m1}

\* Answers that a call of request can decode.
Decodable == [type : {"Response", "Error"}, form : {"json"}]

\* Also a payload that is no JSON, and a message no client expects.
Sound == Decodable \cup {[type |-> "Response", form |-> "text"],
                         [type |-> "Other", form |-> "json"]}

\* Also a payload that is not UTF-8.
AllAnswers == Sound \cup {[type |-> "Response", form |-> "raw"]}

\* Payloads: none, a number, strings with the characters U+24D2 and U+00D3
\* U+0301, whose bytes are markers of MessagePack too, a word that is no JSON, a
\* byte that is not UTF-8, and strings whose lengths are such markers or are the
\* first that need another form.
String(bytes) == <<34>> \o bytes \o <<34>>
Long(len) == String([i \in 1 .. len - 2 |-> 97])
Payloads == {<<>>, <<52, 50>>, String(<<226, 147, 146>>),
             String(<<195, 147, 204, 129>>), <<111, 107>>, <<34, 255, 34>>}
LongPayloads == {Long(147), Long(220), Long(256)}

Sample(type, method, payload) ==
  [type |-> type, method |-> method, payload |-> payload]
Short == {Sample(type, <<101>>, p) : type \in {3, 4, 5}, p \in Payloads}
           \cup {Sample(6, <<114>>, <<52>>)}
MCSamples == (Short \X Short)
  \cup ({Sample(4, <<101>>, p) : p \in LongPayloads} \X {Sample(6, <<114>>, <<52>>)})
=============================================================================
