--------------------------- MODULE MCTraceContext ---------------------------
(* Two requests with every combination of headers over three W3C trace ids  *)
(* and one opaque id, each in both cases of its letters.                    *)
EXTENDS TraceContext, TLC

Symmetry == Permutations(Request) \cup Permutations(Hex)
=============================================================================
