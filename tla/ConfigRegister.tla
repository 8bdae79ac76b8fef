--------------------------- MODULE ConfigRegister ---------------------------
(***************************************************************************)
(* What a configuration file promises: a register that an operation        *)
(* changes in one step.  An interrupted write leaves the old or the new    *)
(* value.  Only after an interruption may a later operation do harm: the   *)
(* next write may expose any content before it commits its own, and a      *)
(* deletion may have no effect.                                            *)
(***************************************************************************)
EXTENDS Integers

Absent == -2            \* no file, or a blank one
Torn == -1              \* partly written
Content == {Absent, Torn} \union Nat    \* a number names a complete text

VARIABLES
    value,              \* what the file reads as
    target,             \* the content being written, Absent when none is
    interruptions       \* writes that were cut short so far

vars == <<value, target, interruptions>>

Init ==
    /\ value \in {Absent, 0}
    /\ target = Absent
    /\ interruptions = 0

Begin ==
    /\ target = Absent
    /\ target' \in Nat
    /\ UNCHANGED <<value, interruptions>>

Commit ==
    /\ target # Absent
    /\ value' = target
    /\ UNCHANGED <<target, interruptions>>

End ==
    /\ target # Absent
    /\ value = target
    /\ target' = Absent
    /\ UNCHANGED <<value, interruptions>>

Interrupt ==
    /\ target # Absent
    /\ target' = Absent
    /\ interruptions' = interruptions + 1
    /\ UNCHANGED value

Erase ==
    /\ target = Absent
    /\ value' = Absent
    /\ UNCHANGED <<target, interruptions>>

Expose ==
    /\ target # Absent
    /\ interruptions > 0
    /\ value' \in Content
    /\ UNCHANGED <<target, interruptions>>

Next == Begin \/ Commit \/ End \/ Interrupt \/ Erase \/ Expose

Spec == Init /\ [][Next]_vars
=============================================================================
