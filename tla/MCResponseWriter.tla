-------------------------- MODULE MCResponseWriter -------------------------
(* Instances of ResponseWriter for TLC.                                    *)
EXTENDS ResponseWriter, TLC

CONSTANTS h1, h2, r1, r2, b1, b2

Symmetry ==
    Permutations(Handlers) \cup Permutations(Responses) \cup Permutations(Buffers)
=============================================================================
