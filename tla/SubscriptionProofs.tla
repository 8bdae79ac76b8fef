-------------------------- MODULE SubscriptionProofs --------------------------
(***************************************************************************)
(* Theorems about Subscription, for any number of jobs, any lease and any  *)
(* clock: refreshes exclude each other while leases are kept, and the      *)
(* rules, their validator and the answers of the server stay consistent.   *)
(***************************************************************************)
EXTENDS Subscription, TLAPS

\* A job that holds the source is within its lease, and the row says so.
LeaseHeld ==
    LeasesKept =>
        \A j \in Jobs : Holds(j) =>
            /\ now < jnow[j] + Lease
            /\ present => row.refreshLeaseUntil = jnow[j] + Lease

\* No job has read a time that is still to come.
ClockRead == \A j \in Jobs : jnow[j] <= now

\* What a job carries between its steps.
JobKnows ==
    \A j \in Jobs :
        /\ pc[j] \in {"store", "unchanged"} => version[j] <= offered
        /\ LeasesKept /\ present =>
              /\ pc[j] = "fetch" => version[j] \in {None, rules}
              /\ pc[j] = "store" => rules <= version[j]

\* The rules stored are some that the server has offered.
Offered == 1 <= offered /\ rules <= offered

\* The inductive invariant.
IInv ==
    /\ TypeOK
    /\ LeaseHeld /\ ClockRead /\ JobKnows /\ Offered
    /\ OneRefreshAtATime /\ ValidatorOfRules /\ NotModifiedConfirms /\ NoOrphanRules

\* A disjunction is a Boolean.
LEMMA Disjunction == ASSUME NEW A, NEW B PROVE (A \/ B) \in BOOLEAN
OBVIOUS

\* Every step keeps the types.
LEMMA NextTypeOK == TypeOK /\ [Next]_vars => TypeOK'
<1> SUFFICES ASSUME TypeOK, [Next]_vars PROVE TypeOK'
    OBVIOUS
<1> USE SubscriptionAssumption DEF TypeOK, Row, Running, None, JobStep, jobVars, worldVars
<1>1. ASSUME NEW j \in Jobs, Start(j) PROVE TypeOK'
  BY <1>1 DEF Start
<1>2. ASSUME NEW j \in Jobs, claimRefresh(j) PROVE TypeOK'
  <2>1. overrun' \in BOOLEAN
    <3>1. CASE Claimable(j)
      <4>1. overrun' = (overrun \/ ClaimedUntil(j) <= now)
        BY <1>2, <3>1 DEF claimRefresh
      <4> QED
        BY <4>1, Disjunction, Zenon
    <3>2. CASE ~Claimable(j)
      BY <1>2, <3>2 DEF claimRefresh
    <3> QED
      BY <3>1, <3>2
  <2>2. row' \in Row /\ pc' \in [Jobs -> Running \cup {"idle", "claim", "notify"}]
    BY <1>2 DEF claimRefresh, ClaimedUntil
  <2> QED
    BY <1>2, <2>1, <2>2 DEF claimRefresh
<1>3. ASSUME NEW j \in Jobs, findById(j) PROVE TypeOK'
  BY <1>3 DEF findById
<1>4. ASSUME NEW j \in Jobs, Fetch(j) \/ FetchFails(j) PROVE TypeOK'
  BY <1>4 DEF Fetch, FetchFails
<1>5. ASSUME NEW j \in Jobs, StoreRules(j) PROVE TypeOK'
  <2>1. CASE present
    <3>1. PICK etag \in {None, version[j]} : row' = [Released(row) EXCEPT !.etag = etag]
      BY <1>5, <2>1 DEF StoreRules
    <3>2. row' \in Row
      <4>1. Released(row) \in Row /\ etag \in Nat
        BY DEF Released
      <4> QED
        BY <3>1, <4>1
    <3> QED
      BY <1>5, <2>1, <3>2 DEF StoreRules
  <2>2. CASE ~present
    BY <1>5, <2>2 DEF StoreRules
  <2> QED
    BY <2>1, <2>2
<1>6. ASSUME NEW j \in Jobs, Notify(j) \/ Cancel(j) PROVE TypeOK'
  BY <1>6 DEF Notify, Cancel
<1>7. ASSUME NEW j \in Jobs, markNotModified(j) \/ markRefreshFailure(j) PROVE TypeOK'
  BY <1>7 DEF markNotModified, markRefreshFailure, Released
<1>8. CASE Screen
  <2>1. CASE Observe
    BY <2>1 DEF Observe
  <2>3. CASE deleteSource
    BY <2>3 DEF deleteSource
  <2>2. ASSUME NEW enabled \in BOOLEAN, updateSource(enabled) PROVE TypeOK'
    <3>1. stale' \in BOOLEAN
      BY <2>2, Disjunction, Zenon DEF updateSource
    <3> QED
      BY <2>2, <3>1 DEF updateSource
  <2> QED
    BY <1>8, <2>1, <2>2, <2>3 DEF Screen
<1>9. CASE Publish
  BY <1>9 DEF Publish
<1>10. CASE Tick
  BY <1>10 DEF Tick
<1>11. CASE UNCHANGED vars
  BY <1>11 DEF vars
<1> QED
  BY <1>1, <1>2, <1>3, <1>4, <1>5, <1>6, <1>7, <1>8, <1>9, <1>10, <1>11 DEF Next, Refresh

\* The inductive invariant holds for a new source.
LEMMA InitIInv == Init => IInv
<1> SUFFICES ASSUME Init PROVE IInv
    OBVIOUS
<1> USE DEF Init, NewSource, None
<1>1. TypeOK
  BY DEF TypeOK, Row, Running
<1>2. \A j \in Jobs : ~Holds(j) /\ pc[j] = "idle"
  BY DEF Holds, Running
<1> QED
  BY <1>1, <1>2 DEF IInv, LeaseHeld, ClockRead, JobKnows, Offered, OneRefreshAtATime,
     ValidatorOfRules, NotModifiedConfirms, NoOrphanRules

\* Every step preserves it.
LEMMA NextIInv == IInv /\ [Next]_vars => IInv'
<1> SUFFICES ASSUME IInv, [Next]_vars PROVE IInv'
    OBVIOUS
<1> TypeOK /\ TypeOK'
  BY NextTypeOK DEF IInv
<1> USE SubscriptionAssumption
    DEF LeaseHeld, ClockRead, JobKnows, Offered, OneRefreshAtATime, ValidatorOfRules,
        NotModifiedConfirms, NoOrphanRules, LeasesKept, Holds, Running, None, JobStep, jobVars,
        worldVars, TypeOK, Row
<1>1. ASSUME NEW j \in Jobs, Start(j) PROVE IInv'
  BY <1>1 DEF Start, IInv
<1>2. ASSUME NEW j \in Jobs, claimRefresh(j) PROVE IInv'
  <2>1. CASE Claimable(j)
    <3>1. LeasesKept => \A k \in Jobs : ~Holds(k)
      BY <2>1 DEF Claimable, IInv
    <3>2. LeaseHeld'
      <4>1. LeasesKept' => LeasesKept /\ now < jnow[j] + Lease
        <5>1. LeasesKept' => LeasesKept /\ ~(jnow[j] + Lease <= now)
          BY <1>2, <2>1 DEF claimRefresh, ClaimedUntil
        <5> QED
          BY <5>1
      <4>2. /\ row'.refreshLeaseUntil = jnow[j] + Lease
            /\ pc' = [pc EXCEPT ![j] = "load"]
            /\ UNCHANGED <<now, jnow, present>>
        BY <1>2, <2>1 DEF claimRefresh, ClaimedUntil
      <4> QED
        BY <3>1, <4>1, <4>2
    <3>3. (ClockRead /\ JobKnows /\ Offered)'
      BY <1>2, <2>1, <3>1 DEF claimRefresh, IInv
    <3>4. OneRefreshAtATime'
      BY <1>2, <2>1, <3>1 DEF claimRefresh, IInv
    <3>5. (ValidatorOfRules /\ NotModifiedConfirms /\ NoOrphanRules)'
      BY <1>2, <2>1, <3>1 DEF claimRefresh, IInv
    <3> QED
      BY <3>2, <3>3, <3>4, <3>5 DEF IInv
  <2>2. CASE ~Claimable(j)
    BY <1>2, <2>2 DEF claimRefresh, IInv
  <2> QED
    BY <2>1, <2>2
<1>3. ASSUME NEW j \in Jobs, findById(j) PROVE IInv'
  BY <1>3 DEF findById, IInv
<1>4. ASSUME NEW j \in Jobs, Fetch(j) \/ FetchFails(j) PROVE IInv'
  BY <1>4 DEF Fetch, FetchFails, IInv
<1>5. ASSUME NEW j \in Jobs, StoreRules(j) PROVE IInv'
  <2>1. LeasesKept => \A k \in Jobs : Holds(k) => k = j
    BY <1>5 DEF StoreRules, IInv
  <2> QED
    <3>1. CASE present
      <4>1. /\ row'.etag \in {None, version[j]}
            /\ rules' = version[j]
            /\ pc' = [pc EXCEPT ![j] = "notify"]
            /\ UNCHANGED <<present, jnow, version, now, offered, stale, overrun>>
        BY <1>5, <3>1 DEF StoreRules, Released
      <4>2. pc[j] = "store"
        BY <1>5 DEF StoreRules
      <4> QED
        BY <2>1, <3>1, <4>1, <4>2 DEF IInv
    <3>2. CASE ~present
      BY <1>5, <2>1, <3>2 DEF StoreRules, IInv
    <3> QED
      BY <3>1, <3>2
<1>6. ASSUME NEW j \in Jobs, Notify(j) \/ Cancel(j) PROVE IInv'
  BY <1>6 DEF Notify, Cancel, IInv
<1>7. ASSUME NEW j \in Jobs, markNotModified(j) \/ markRefreshFailure(j) PROVE IInv'
  <2>1. LeasesKept => \A k \in Jobs : Holds(k) => k = j
    BY <1>7 DEF markNotModified, markRefreshFailure, IInv
  <2> QED
    BY <1>7, <2>1 DEF markNotModified, markRefreshFailure, Released, IInv
<1>8. CASE Screen
  BY <1>8 DEF Screen, Observe, updateSource, deleteSource, IInv
<1>9. CASE Publish
  BY <1>9 DEF Publish, IInv
<1>10. CASE Tick
  <2>1. LeasesKept' => LeasesKept /\ \A j \in Jobs : Holds(j) => ~(jnow[j] + Lease <= now')
    BY <1>10 DEF Tick
  <2> QED
    BY <1>10, <2>1 DEF Tick, IInv
<1>11. CASE UNCHANGED vars
  BY <1>11 DEF vars, IInv
<1> QED
  BY <1>1, <1>2, <1>3, <1>4, <1>5, <1>6, <1>7, <1>8, <1>9, <1>10, <1>11 DEF Next, Refresh

\* The inductive invariant holds in every behaviour.
LEMMA Invariant == Spec => []IInv
  BY InitIInv, NextIInv, PTL DEF Spec

\* The row, the rules, the jobs and the screen stay well formed
\* (SubscriptionRepository, SubscriptionSourceDao).
THEOREM TypeCorrect == Spec => []TypeOK
<1>1. IInv => TypeOK
  BY DEF IInv
<1> QED
  BY Invariant, <1>1, PTL

\* While leases are kept two jobs never refresh the source at the same time
\* (claimRefresh).
THEOREM RefreshesExclude == Spec => []OneRefreshAtATime
<1>1. IInv => OneRefreshAtATime
  BY DEF IInv
<1> QED
  BY Invariant, <1>1, PTL

\* Neither the row nor the copy holds a lease that ends too late.
LeasesAhead == LeasesEnd /\ copy.refreshLeaseUntil <= now + Lease

\* Every step keeps the leases within bounds.
LEMMA NextLeasesAhead == IInv /\ LeasesAhead /\ [Next]_vars => LeasesAhead'
<1> SUFFICES ASSUME IInv, LeasesAhead, [Next]_vars PROVE LeasesAhead'
    OBVIOUS
<1> TypeOK /\ ClockRead
  BY DEF IInv
<1> USE SubscriptionAssumption DEF TypeOK, Row, LeasesAhead, LeasesEnd, jobVars, worldVars
<1>1. ASSUME NEW j \in Jobs, claimRefresh(j) PROVE LeasesAhead'
  <2>1. UNCHANGED <<copy, now>> /\ (row' = row \/ row'.refreshLeaseUntil = jnow[j] + Lease)
    BY <1>1 DEF claimRefresh, ClaimedUntil
  <2>2. jnow[j] <= now
    BY DEF ClockRead
  <2> QED
    BY <2>1, <2>2
<1>2. ASSUME NEW j \in Jobs, StoreRules(j) PROVE LeasesAhead'
  <2>1. UNCHANGED <<copy, now>> /\ (row' = row \/ row'.refreshLeaseUntil = 0)
    BY <1>2 DEF StoreRules, Released
  <2> QED
    BY <2>1
<1>3. ASSUME NEW j \in Jobs, markNotModified(j) \/ markRefreshFailure(j) PROVE LeasesAhead'
  BY <1>3 DEF markNotModified, markRefreshFailure, Released
<1>4. ASSUME NEW enabled \in BOOLEAN, updateSource(enabled) PROVE LeasesAhead'
  BY <1>4 DEF updateSource
<1>5. CASE Observe \/ deleteSource \/ Publish
  BY <1>5 DEF Observe, deleteSource, Publish
<1>6. CASE Tick
  BY <1>6 DEF Tick
<1>7. CASE UNCHANGED <<row, copy, now>>
  BY <1>7
<1>8. \/ \E j \in Jobs : \/ claimRefresh(j) \/ StoreRules(j)
                         \/ markNotModified(j) \/ markRefreshFailure(j)
      \/ \E enabled \in BOOLEAN : updateSource(enabled)
      \/ Observe \/ deleteSource \/ Publish \/ Tick
      \/ UNCHANGED <<row, copy, now>>
  BY DEF Next, Refresh, Screen, Start, findById, Fetch, FetchFails, Notify, Cancel, vars
<1> QED
  BY <1>1, <1>2, <1>3, <1>4, <1>5, <1>6, <1>7, <1>8

\* A source is never locked for longer than one lease, whatever happened to the
\* job that claimed it (runRefresh under viewModelScope).
THEOREM EveryLeaseEnds == Spec => []LeasesEnd
<1>1. Init => LeasesAhead
  BY SubscriptionAssumption DEF Init, NewSource, LeasesAhead, LeasesEnd
<1>2. LeasesAhead => LeasesEnd
  BY DEF LeasesAhead
<1> QED
  BY Invariant, NextLeasesAhead, <1>1, <1>2, PTL DEF Spec

\* The stored validator never belongs to other rules than the stored ones, as
\* long as no old row is written back (the transaction of runRefresh).
THEOREM ValidatorFitsRules == Spec => []ValidatorOfRules
<1>1. IInv => ValidatorOfRules
  BY DEF IInv
<1> QED
  BY Invariant, <1>1, PTL

\* A job that was answered 304 finds the rules the server still offers
\* (SubscriptionFetcher.fetch, markNotModified).
THEOREM NotModifiedIsTrue == Spec => []NotModifiedConfirms
<1>1. IInv => NotModifiedConfirms
  BY DEF IInv
<1> QED
  BY Invariant, <1>1, PTL

\* No refresh leaves rules of a deleted source behind (deleteSource against the
\* transaction of runRefresh).
THEOREM DeletionIsFinal == Spec => []NoOrphanRules
<1>1. IInv => NoOrphanRules
  BY DEF IInv
<1> QED
  BY Invariant, <1>1, PTL

\* While leases are kept a refresh replaces the rules by newer ones only
\* (claimRefresh, the transaction of runRefresh).
THEOREM RulesNeverGoBack == Spec => RulesMoveForward
<1>1. IInv /\ IInv' /\ [Next]_vars => [present' /\ LeasesKept' => rules' >= rules]_vars
  <2> SUFFICES ASSUME IInv, Next, present', LeasesKept' PROVE rules' >= rules
      OBVIOUS
  <2> USE DEF IInv, TypeOK, Row, None
  <2>1. ASSUME NEW j \in Jobs, StoreRules(j) PROVE rules' >= rules
    BY <2>1 DEF StoreRules, JobStep, JobKnows, LeasesKept
  <2>2. CASE deleteSource
    BY <2>2 DEF deleteSource
  <2>3. CASE rules' = rules
    BY <2>3
  <2>4. (\E j \in Jobs : StoreRules(j)) \/ deleteSource \/ rules' = rules
    BY DEF Next, Refresh, Screen, Start, claimRefresh, findById, Fetch, FetchFails, Notify,
       markNotModified, markRefreshFailure, Cancel, Observe, updateSource, Publish, Tick
  <2> QED
    BY <2>1, <2>2, <2>3, <2>4
<1> QED
  BY Invariant, <1>1, PTL DEF Spec, RulesMoveForward
=============================================================================
