-------------------------- MODULE MCObjectRegistry --------------------------
(* Constants of ObjectRegistry for TLC.                                    *)
EXTENDS ObjectRegistry, TLC

CONSTANTS t1, t2, project, symbol

MCThreads == {t1, t2}
MCIds == {project, symbol}
OnlyProject == {project}
MCDisposable == {symbol}
Nothing == {}

Sym == Permutations(MCThreads)
=============================================================================
