------------------------- MODULE MCTransportClient --------------------------
(* Constants of TransportClient for TLC.                                   *)
EXTENDS TransportClient

CONSTANTS t1, t2, registry

MCThreads == {t1, t2}
MCObjects == {registry}
=============================================================================
