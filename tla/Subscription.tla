---------------------------- MODULE Subscription ----------------------------
(***************************************************************************)
(* One rule subscription of the manager: the row of subscription_source    *)
(* with its refresh lease, its rules in subscription_rule, the coroutines  *)
(* that refresh it (SubscriptionRepository.runRefresh), and the screen     *)
(* that updates the row from the copy it shows.                            *)
(*                                                                         *)
(* Each DAO call is one SQLite statement and each withTransaction block    *)
(* one transaction: a step.  The list that the server offers is abstracted *)
(* to a version number, and a validator (etag, lastModified) to the        *)
(* version it was sent with.  When a source is due is not modelled: the    *)
(* user may refresh at any time.  The server is external.                  *)
(***************************************************************************)
EXTENDS Integers

CONSTANTS
    Jobs,           \* coroutines that run runRefresh
    Lease,          \* leaseDurationMs
    MaxTime,        \* bound: the clock
    MaxVersion      \* bound: the versions the server publishes

ASSUME SubscriptionAssumption ==
    /\ Lease \in Nat \ {0}
    /\ MaxTime \in Nat
    /\ MaxVersion \in Nat

None == 0           \* no validator, no rules

Row == [enabled : BOOLEAN, etag : Nat, refreshLeaseUntil : Nat]

VARIABLES
    present,        \* the source is in the table
    row,            \* its row
    rules,          \* version of the rules stored for it
    copy,           \* the row as the screen shows it
    pc,             \* [Jobs -> where the job is]
    jnow,           \* [Jobs -> Nat] now, as the job has read it
    version,        \* [Jobs -> Nat] the version of the validator it sends, then of the answer
    now,            \* the wall clock
    offered,        \* the version the server offers
    stale,          \* history: an update has put an old lease or validator back
    overrun         \* history: a job was still running when its lease ran out

jobVars == <<pc, jnow, version>>
worldVars == <<now, offered>>
vars == <<present, row, rules, copy, jobVars, worldVars, stale, overrun>>

Running == {"load", "fetch", "store", "unchanged", "fail"}

\* The job has claimed the source and not yet finished with it.
Holds(j) == pc[j] \in Running

NewSource == [enabled |-> TRUE, etag |-> None, refreshLeaseUntil |-> 0]

\* The source was just added.
Init ==
    /\ present = TRUE
    /\ row = NewSource
    /\ rules = None
    /\ copy = NewSource
    /\ pc = [j \in Jobs |-> "idle"]
    /\ jnow = [j \in Jobs |-> 0]
    /\ version = [j \in Jobs |-> None]
    /\ now = 0
    /\ offered = 1
    /\ stale = FALSE
    /\ overrun = FALSE

----------------------------------------------------------------------------
(* runRefresh *)

JobStep(j, from, to) == pc[j] = from /\ pc' = [pc EXCEPT ![j] = to]

\* refresh, refreshDue or the first refresh of a new source; the time is read.
Start(j) ==
    /\ JobStep(j, "idle", "claim")
    /\ jnow' = [jnow EXCEPT ![j] = now]
    /\ UNCHANGED <<present, row, rules, copy, version, worldVars, stale, overrun>>

\* Mutant: the lease is set and not looked at.
Claimable_AnyLease(j) == present /\ row.enabled

Claimable(j) == present /\ row.enabled /\ row.refreshLeaseUntil <= jnow[j]

\* Mutant: the lease is for twice its time.
ClaimedUntil_Twice(j) == jnow[j] + 2 * Lease

ClaimedUntil(j) == jnow[j] + Lease

\* Meanwhile the clock may have passed the end of the lease taken.
claimRefresh(j) ==
    /\ IF Claimable(j)
       THEN /\ JobStep(j, "claim", "load")
            /\ row' = [row EXCEPT !.refreshLeaseUntil = ClaimedUntil(j)]
            /\ overrun' = (overrun \/ ClaimedUntil(j) <= now)
       ELSE /\ JobStep(j, "claim", "idle")
            /\ UNCHANGED <<row, overrun>>
    /\ UNCHANGED <<present, rules, copy, jnow, version, worldVars, stale>>

findById(j) ==
    /\ JobStep(j, "load", IF present THEN "fetch" ELSE "idle")
    /\ version' = [version EXCEPT ![j] = IF present THEN row.etag ELSE @]
    /\ UNCHANGED <<present, row, rules, copy, jnow, worldVars, stale, overrun>>

\* SubscriptionFetcher.fetch: 304 to the validator of what is offered, the
\* content otherwise.
Fetch(j) ==
    /\ JobStep(j, "fetch", IF version[j] = offered THEN "unchanged" ELSE "store")
    /\ version' = [version EXCEPT ![j] = offered]
    /\ UNCHANGED <<present, row, rules, copy, jnow, worldVars, stale, overrun>>

\* The connection fails, the status is another one, or the list is too long.
FetchFails(j) ==
    /\ JobStep(j, "fetch", "fail")
    /\ UNCHANGED <<present, row, rules, copy, jnow, version, worldVars, stale, overrun>>

Released(r) == [r EXCEPT !.refreshLeaseUntil = 0]

\* Mutant: no foreign key, rules are inserted for a source that is gone.
StoreRules_NoForeignKey(j) ==
    /\ JobStep(j, "store", "notify")
    /\ rules' = version[j]
    /\ row' = IF present THEN [Released(row) EXCEPT !.etag = version[j]] ELSE row
    /\ UNCHANGED <<present, copy, jnow, version, worldVars, stale, overrun>>

\* Mutant: rules that are newer are kept, the validator is stored all the same.
StoreRules_KeepsNewer(j) ==
    /\ JobStep(j, "store", "notify")
    /\ present
    /\ rules' = IF rules > version[j] THEN rules ELSE version[j]
    /\ row' = [Released(row) EXCEPT !.etag = version[j]]
    /\ UNCHANGED <<present, copy, jnow, version, worldVars, stale, overrun>>

\* One transaction replaces the rules and marks the success; the server need
\* not send a validator.  Rules of a source that is gone violate the foreign
\* key, and the refresh fails; an empty list violates and changes nothing.
StoreRules(j) ==
    \/ /\ present
       /\ JobStep(j, "store", "notify")
       /\ rules' = version[j]
       /\ \E etag \in {None, version[j]} : row' = [Released(row) EXCEPT !.etag = etag]
       /\ UNCHANGED <<present, copy, jnow, version, worldVars, stale, overrun>>
    \/ /\ ~present
       /\ JobStep(j, "store", "fail") \/ JobStep(j, "store", "notify")
       /\ UNCHANGED <<present, row, rules, copy, jnow, version, worldVars, stale, overrun>>

\* The hooked processes are told (RuleRefresh.NotifyChange goes on from here).
Notify(j) ==
    /\ JobStep(j, "notify", "idle")
    /\ UNCHANGED <<present, row, rules, copy, jnow, version, worldVars, stale, overrun>>

\* markNotModified and markRefreshFailure clear the lease of the source,
\* whichever job holds it.
markNotModified(j) ==
    /\ JobStep(j, "unchanged", "idle")
    /\ row' = IF present THEN Released(row) ELSE row
    /\ UNCHANGED <<present, rules, copy, jnow, version, worldVars, stale, overrun>>

markRefreshFailure(j) ==
    /\ JobStep(j, "fail", "idle")
    /\ row' = IF present THEN Released(row) ELSE row
    /\ UNCHANGED <<present, rules, copy, jnow, version, worldVars, stale, overrun>>

\* The screen is left (viewModelScope is cancelled) or the process dies; the
\* lease stays.
Cancel(j) ==
    /\ pc[j] # "idle"
    /\ pc' = [pc EXCEPT ![j] = "idle"]
    /\ UNCHANGED <<present, row, rules, copy, jnow, version, worldVars, stale, overrun>>

----------------------------------------------------------------------------
(* The screen *)

\* observeSources brings the row to the screen, or a dialog is opened on it.
Observe ==
    /\ present
    /\ copy # row
    /\ copy' = row
    /\ UNCHANGED <<present, row, rules, jobVars, worldVars, stale, overrun>>

\* toggleEnabled and the edit dialog write the whole row back.
updateSource(enabled) ==
    /\ present
    /\ row' = [copy EXCEPT !.enabled = enabled]
    /\ stale' = (stale \/ copy.etag # row.etag
                       \/ copy.refreshLeaseUntil # row.refreshLeaseUntil)
    /\ UNCHANGED <<present, rules, copy, jobVars, worldVars, overrun>>

\* The rules go with the source (ON DELETE CASCADE).
deleteSource ==
    /\ present
    /\ present' = FALSE
    /\ rules' = None
    /\ UNCHANGED <<row, copy, jobVars, worldVars, stale, overrun>>

----------------------------------------------------------------------------
(* The world *)

Publish ==
    /\ offered < MaxVersion
    /\ offered' = offered + 1
    /\ UNCHANGED <<present, row, rules, copy, jobVars, now, stale, overrun>>

Tick ==
    /\ now < MaxTime
    /\ now' = now + 1
    /\ overrun' = (overrun \/ \E j \in Jobs : Holds(j) /\ jnow[j] + Lease <= now')
    /\ UNCHANGED <<present, row, rules, copy, jobVars, offered, stale>>

----------------------------------------------------------------------------
Refresh(j) ==
    \/ Start(j) \/ claimRefresh(j) \/ findById(j)
    \/ Fetch(j) \/ FetchFails(j)
    \/ StoreRules(j) \/ Notify(j) \/ markNotModified(j) \/ markRefreshFailure(j)
    \/ Cancel(j)

Screen == Observe \/ (\E enabled \in BOOLEAN : updateSource(enabled)) \/ deleteSource

Next == (\E j \in Jobs : Refresh(j)) \/ Screen \/ Publish \/ Tick

Spec == Init /\ [][Next]_vars

----------------------------------------------------------------------------
(* Properties *)

TypeOK ==
    /\ present \in BOOLEAN
    /\ row \in Row
    /\ rules \in Nat
    /\ copy \in Row
    /\ pc \in [Jobs -> Running \cup {"idle", "claim", "notify"}]
    /\ jnow \in [Jobs -> Nat]
    /\ version \in [Jobs -> Nat]
    /\ now \in Nat
    /\ offered \in Nat
    /\ stale \in BOOLEAN
    /\ overrun \in BOOLEAN

\* No lease was lost to an update from an old copy, or outlived.
LeasesKept == ~stale /\ ~overrun

\* A source is refreshed by one job at a time as long as its leases are kept
\* (claimRefresh).
OneRefreshAtATime ==
    LeasesKept => \A j, k \in Jobs : Holds(j) /\ Holds(k) => j = k

\* No source is locked for longer than one lease, whatever becomes of the job that
\* claimed it: also when it was cancelled (its failure is then not marked), and
\* when an update from an old copy put the lease back.
LeasesEnd == row.refreshLeaseUntil <= now + Lease

\* The stored validator is that of the stored rules, also when refreshes
\* overlap, unless an update put an old row back (the transaction of runRefresh).
ValidatorOfRules ==
    present /\ ~stale => row.etag \in {None, rules}

\* A 304 confirms the rules that are stored: they are the version the server
\* offered when it answered.
NotModifiedConfirms ==
    LeasesKept /\ present => \A j \in Jobs : pc[j] = "unchanged" => rules = version[j]

\* A refresh that ends after its source was deleted leaves no rules behind.
NoOrphanRules == ~present => rules = None

\* Refreshes never replace rules by older ones, whatever answer comes first, as
\* long as leases are kept.
RulesMoveForward == [][present' /\ LeasesKept' => rules' >= rules]_vars
=============================================================================
