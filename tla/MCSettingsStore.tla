--------------------------- MODULE MCSettingsStore ---------------------------
(* SettingsStore for TLC: threads and keys are interchangeable. *)
EXTENDS SettingsStore, TLC

Renamings == Permutations(Threads) \cup Permutations(Keys)
=============================================================================
