----------------------------- MODULE RuleCache -----------------------------
(***************************************************************************)
(* What a hooked process may observe of the rule database of the manager:  *)
(* a cached snapshot of the rule tables that is never ahead of the         *)
(* database and never falls back to an older version of a table, except    *)
(* that it may be emptied as a whole.  The contents of a table are         *)
(* abstracted to a version number that every edit increments.              *)
(***************************************************************************)
EXTENDS Integers

CONSTANT RuleTable      \* the tables a snapshot is built from

VARIABLES
    db,                 \* [RuleTable -> version] the committed tables
    snapshot            \* [RuleTable -> version] what requests are matched with

vars == <<db, snapshot>>

\* A snapshot that holds no rule: no version of any table.
NoRules == [t \in RuleTable |-> -1]

Init ==
    /\ db = [t \in RuleTable |-> 0]
    /\ snapshot = NoRules

Edit(t) ==
    /\ db' = [db EXCEPT ![t] = @ + 1]
    /\ UNCHANGED snapshot

\* The cache moves forward, each table to a version that has been committed.
Advance ==
    /\ snapshot' \in [RuleTable -> Int]
    /\ \A t \in RuleTable : snapshot[t] <= snapshot'[t] /\ snapshot'[t] <= db[t]
    /\ UNCHANGED db

\* The cache loses its rules.
Wipe ==
    /\ snapshot' = NoRules
    /\ UNCHANGED db

Next ==
    \/ \E t \in RuleTable : Edit(t)
    \/ Advance
    \/ Wipe

Spec == Init /\ [][Next]_vars
=============================================================================
