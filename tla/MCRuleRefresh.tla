--------------------------- MODULE MCRuleRefresh ---------------------------
(* RuleRefresh for TLC: the request threads are interchangeable. *)
EXTENDS RuleRefresh, TLC

Threads == Permutations(Callers)
=============================================================================
