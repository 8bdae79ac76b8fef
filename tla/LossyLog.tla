------------------------------ MODULE LossyLog ------------------------------
(***************************************************************************)
(* What the log of hooked applications promises.  Entries are numbered in  *)
(* the order they were logged.  They wait, and reach the store in batches, *)
(* each entry at most once, newest first within a batch.  An entry may be  *)
(* pushed out by newer ones, by the user, or lost; but it is lost only     *)
(* while the connection to the service has failed.                         *)
(***************************************************************************)
EXTENDS Integers, Sequences, FiniteSets

CONSTANTS
    CHANNEL_CAPACITY,   \* so many entries may always wait
    MAX_CACHE_SIZE      \* so many entries are stored

VARIABLES
    logged,             \* entries 1 .. logged were logged
    waiting,            \* those on their way
    stored,             \* those in the store, newest batch first
    failed              \* whether the connection has failed and not been restored

vars == <<logged, waiting, stored, failed>>

Init == logged = 0 /\ waiting = {} /\ stored = <<>> /\ failed = FALSE

Newest(entries) == SubSeq(entries, 1, IF Len(entries) > MAX_CACHE_SIZE THEN MAX_CACHE_SIZE ELSE Len(entries))

NewestFirst(S) ==
    {batch \in [1 .. Cardinality(S) -> S] :
        \A i, j \in 1 .. Cardinality(S) : i < j => batch[i] > batch[j]}

Log ==
    /\ logged' = logged + 1
    /\ \/ waiting' = waiting \cup {logged'}
       \/ /\ Cardinality(waiting) >= CHANNEL_CAPACITY
          /\ \E entry \in waiting : waiting' = (waiting \ {entry}) \cup {logged'}
    /\ UNCHANGED <<stored, failed>>

Store ==
    \E S \in SUBSET waiting : \E batch \in NewestFirst(S) :
        /\ stored' = Newest(batch \o stored)
        /\ waiting' = waiting \ S
        /\ UNCHANGED <<logged, failed>>

Clear == stored' = <<>> /\ UNCHANGED <<logged, waiting, failed>>

Fail ==
    /\ failed' = TRUE
    /\ waiting' \in SUBSET waiting
    /\ stored' \in {stored, <<>>}
    /\ UNCHANGED logged

Lose ==
    /\ failed
    /\ waiting' \in SUBSET waiting
    /\ UNCHANGED <<logged, stored, failed>>

Restore == failed' = FALSE /\ UNCHANGED <<logged, waiting, stored>>

Next == Log \/ Store \/ Clear \/ Fail \/ Lose \/ Restore

Spec == Init /\ [][Next]_vars
=============================================================================
