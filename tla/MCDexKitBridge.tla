--------------------------- MODULE MCDexKitBridge ---------------------------
(* DexKitBridge for TLC: threads and jobs are interchangeable. *)
EXTENDS DexKitBridge, TLC

Renamings == Permutations(Threads) \cup Permutations(Jobs) \cup Permutations(Keys)
=============================================================================
