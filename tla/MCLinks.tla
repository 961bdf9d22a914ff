------------------------------- MODULE MCLinks ------------------------------
(* Instances of Links for TLC: two pods of one link, or of two.            *)
EXTENDS Links

CONSTANTS p1, p2, l1, l2

MCInstallations ==
    {[p \in Pods |-> l1], [p \in Pods |-> IF p = p1 THEN l1 ELSE l2]}
=============================================================================
