------------------------------- MODULE MCTenant -------------------------------
(* Instances of TenantLifecycle for TLC.                                    *)
EXTENDS TenantLifecycle, TLC

CONSTANTS loop, t1, cli, d1, d2, q1, k1, tk1, tk2

Symmetry == Permutations(Deliveries) \cup Permutations(Tokens)
===============================================================================
