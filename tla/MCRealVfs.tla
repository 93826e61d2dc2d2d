----------------------------- MODULE MCRealVfs ------------------------------
(* Constants of RealVfs for TLC.                                           *)
EXTENDS RealVfs

CONSTANTS a, b, w1, w2

MCNames == {a, b}
MCWriters == {w1, w2}
Sym == Permutations(MCWriters)

\* /a is the base directory, with a file b; /b is a link to /a.
MCBase == <<a>>
MCInitial == <<Dir(a :> 2 @@ b :> 4), Dir(a :> NoEntry @@ b :> 3),
               File(Content(0, 2)), Link(<<a>>)>>
MCTargets == {<<a>>, <<a, b>>}

Relative(names) == [absolute |-> FALSE, names |-> names]
Absolute(names) == [absolute |-> TRUE, names |-> names]

MCReadable == {Relative(<<b>>)}
MCListed == {Absolute(<<b>>)}
MCWritable == {Absolute(<<b, b>>), Relative(<<a, b>>)}
=============================================================================
