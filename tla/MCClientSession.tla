--------------------------- MODULE MCClientSession ---------------------------
(* Constants of ClientSession for TLC.                                     *)
EXTENDS ClientSession

CONSTANTS t1, t2

OneThread == {t1}
TwoThreads == {t1, t2}

MCCalled == {"getAccessibleEntries"}

\* A result, an error, a payload that is no JSON, one that is not UTF-8, and a
\* message that no client expects.
MCAnswers == {[type |-> "Response", form |-> "json"],
              [type |-> "Error", form |-> "json"],
              [type |-> "Response", form |-> "text"],
              [type |-> "Response", form |-> "raw"],
              [type |-> "Other", form |-> "json"]}
=============================================================================
