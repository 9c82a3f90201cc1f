------------------------------ MODULE MCIngress ------------------------------
(* Ingress with interchangeable origins.                                     *)
EXTENDS Ingress, TLC

Interchangeable == Permutations(Origins)
=============================================================================
