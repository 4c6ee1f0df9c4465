------------------------------ MODULE MCTunnel ------------------------------
(* Tunnel on a small instance.                                             *)
EXTENDS TunnelRefinement, TLC

Symmetry == Permutations(Profile)
=============================================================================
