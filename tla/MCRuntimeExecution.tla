------------------------ MODULE MCRuntimeExecution ------------------------
(* RuntimeExecution on a small set of callers: "c" callers use the plain   *)
(* completion, "s" callers the stream.                                     *)
EXTENDS RuntimeExecution, TLC

CONSTANTS c1, c2, c3, s1, s2

FiveCallers == {c1, c2, c3, s1, s2}
TwoStreams  == {s1, s2}
=============================================================================
