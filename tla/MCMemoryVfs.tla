----------------------------- MODULE MCMemoryVfs -----------------------------
(* Constants of MemoryVfs for TLC.                                         *)
EXTENDS MemoryVfs, TLC

CONSTANTS a, b, w1, w2

MCNames == {a, b}
MCWriters == {w1, w2}
MCRawPaths == BoundedSeq(MCNames \cup {"", ".", ".."}, 4) \ {<<>>}
MCWritable == {<<a>>, <<"", a, ".", b>>, <<"..", b, a, a>>, <<".">>}
MCInitial == {{}, {<<b>>, <<a, b>>}}
MCListed == {<<"">>, <<"", a>>, <<b, ".">>}

\* One write of one file, into an empty file system.
Fresh == {{}}
Nested == {<<a, b, a>>}

Sym == Permutations(MCWriters)
=============================================================================
