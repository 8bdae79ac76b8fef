--------------------------- MODULE MCCommitFile ----------------------------
(* CommitFile for TLC: one reader in the manager, readers in hooked processes. *)
EXTENDS CommitFile, TLC

HookedProcesses == Permutations(HookReaders)
=============================================================================
