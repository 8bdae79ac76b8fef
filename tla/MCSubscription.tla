--------------------------- MODULE MCSubscription ---------------------------
(* Subscription for TLC: the jobs are interchangeable. *)
EXTENDS Subscription, TLC

Coroutines == Permutations(Jobs)
=============================================================================
