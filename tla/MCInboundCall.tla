--------------------------- MODULE MCInboundCall ---------------------------
(* Instances of InboundCall for TLC.                                        *)
EXTENDS InboundCall, TLC

\* BYE requests are interchangeable.
Symmetry == Permutations(Byes)
=============================================================================
