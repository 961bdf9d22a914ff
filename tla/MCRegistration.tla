---------------------------- MODULE MCRegistration -------------------------
(* Instances of Registration for TLC.                                      *)
EXTENDS Registration, TLC

CONSTANTS p1, p2, k1, k2, l1, l2, local, public

MCClusterOf == (p1 :> k1) @@ (p2 :> k2)

(* A kubeconfig with an address such as kubernetes.default.svc means the   *)
(* API server of whoever dials it; one with a public address does not.     *)
MCAPIServer ==
    (local :> [k \in Clusters |-> k]) @@ (public :> [k \in Clusters |-> k1])
=============================================================================
