---------------------------- MODULE MCNatsProxy ----------------------------
(* Instances of NatsProxy for TLC.                                         *)
EXTENDS NatsProxy, TLC

CONSTANTS c1, c2, p1, p2

CallSymmetry == Permutations(Calls)
PodSymmetry  == Permutations(Pods)
=============================================================================
