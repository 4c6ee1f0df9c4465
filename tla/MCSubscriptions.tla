-------------------------- MODULE MCSubscriptions ---------------------------
(* Subscriptions on a small instance: two view models; the first has room   *)
(* for a download next to a deletion, or for two deletions, the second for   *)
(* one job of any kind.                                                     *)
EXTENDS Subscriptions, TLC

CONSTANTS v1, v2, j1, j2, j3

TwoOfFirst == j1 :> v1 @@ j2 :> v1 @@ j3 :> v2
OneEach    == j1 :> v1 @@ j3 :> v2
=============================================================================
