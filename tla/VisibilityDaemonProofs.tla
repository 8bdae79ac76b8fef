----------------------- MODULE VisibilityDaemonProofs -----------------------
(* What VisibilityDaemon promises while a round is not over, and that it   *)
(* makes the two invariants inductive.                                     *)
EXTENDS VisibilityDaemon, TLAPS

\* The set that is published is the one the next round compares with.
LastIsPublished ==
    /\ enabledCallerPackages = lastTargetPackages
    /\ lastFeatureEnabled # "on" => enabledCallerPackages = {}

\* The settings stored and read were stored at some time, or are none.
KnownSettings == {stored, cache, NoSettings} \subseteq history

\* The receiver is registered with a context.
ReceiverHasContext == isReceiverRegistered => context

\* What was read is still stored, or the daemon will hear of the change, or has missed it.
ReadIsCurrent ==
    pc \in {"publish", "end", "wait"} =>
        cache = stored \/ writer = "written" \/ signals > 0 \/ missed

\* A round that ends with the receiver registered has published what it read.
RoundIsApplied ==
    /\ pc = "wait" => isReceiverRegistered
    /\ pc \in {"end", "wait"} /\ isReceiverRegistered =>
           enabledCallerPackages = Callers(cache, TRUE)

\* The inductive invariant.
IInv ==
    /\ TypeOK
    /\ LastIsPublished
    /\ KnownSettings
    /\ ReceiverHasContext
    /\ ReadIsCurrent
    /\ RoundIsApplied
    /\ CallersOfOneState

\* The callers of any settings are packages.
LEMMA CallersType ==
    ASSUME NEW settings \in Settings, NEW permissions \in BOOLEAN
    PROVE  /\ Callers(settings, permissions) \subseteq Packages
           /\ ~settings.feature => Callers(settings, permissions) = {}
           /\ settings.feature =>
                 Callers([settings EXCEPT !.feature = TRUE], permissions)
                    = Callers(settings, permissions)
  BY DEF Callers, Settings

\* The initial states satisfy the invariant.
LEMMA InitIInv == Init => IInv
<1> SUFFICES ASSUME Init PROVE IInv
  OBVIOUS
<1> USE VisibilityAssumption DEF Init
<1>1. NoSettings \in Settings
  BY DEF NoSettings, Settings
<1>2. TypeOK
  <2>1. {stored, NoSettings} \subseteq Settings
    BY <1>1
  <2>2. stores \in 0 .. MaxStores /\ faults \in 0 .. MaxFaults /\ signals \in Nat
    OBVIOUS
  <2> QED
    BY <1>1, <2>1, <2>2 DEF TypeOK
<1>3. CallersOfOneState
  <2>1. Callers(NoSettings, FALSE) = {}
    BY DEF Callers, NoSettings
  <2> QED
    BY <2>1 DEF CallersOfOneState
<1> QED
  BY <1>2, <1>3 DEF IInv, LastIsPublished, KnownSettings, ReceiverHasContext, ReadIsCurrent, RoundIsApplied

\* A change of the settings, its broadcast, or its loss leave what is published alone.
LEMMA ManagerKeeps == IInv /\ (Store \/ SendBroadcast \/ NoBroadcast) => IInv'
<1> SUFFICES ASSUME IInv, Store \/ SendBroadcast \/ NoBroadcast PROVE IInv'
  OBVIOUS
<1> USE VisibilityAssumption
<1> USE DEF IInv, LastIsPublished, KnownSettings, ReceiverHasContext, ReadIsCurrent, RoundIsApplied
<1>1. CASE Store
  <2>1. PICK settings \in Settings : stored' = settings /\ history' = history \cup {settings}
    BY <1>1 DEF Store
  <2>2. TypeOK'
    BY <1>1, <2>1 DEF Store, TypeOK, found, round
  <2>3. CallersOfOneState'
    BY <1>1, <2>1 DEF Store, round, CallersOfOneState
  <2> QED
    BY <1>1, <2>1, <2>2, <2>3 DEF Store, found, round
<1>2. CASE SendBroadcast
  <2>1. TypeOK'
    BY <1>2 DEF SendBroadcast, TypeOK, found, round, past
  <2>2. signals' > 0
    BY <1>2 DEF SendBroadcast, TypeOK
  <2>3. CallersOfOneState'
    BY <1>2 DEF SendBroadcast, round, past, CallersOfOneState
  <2> QED
    BY <1>2, <2>1, <2>2, <2>3 DEF SendBroadcast, found, round, past
<1>3. CASE NoBroadcast
  <2>1. TypeOK'
    BY <1>3 DEF NoBroadcast, Fault, TypeOK, found, round
  <2>2. CallersOfOneState'
    BY <1>3 DEF NoBroadcast, round, CallersOfOneState
  <2> QED
    BY <1>3, <2>1, <2>2 DEF NoBroadcast, found, round
<1> QED
  BY <1>1, <1>2, <1>3

\* The steps of a round, and an error in it.
LEMMA DaemonKeeps == IInv /\ (Round \/ DaemonError) => IInv'
<1> SUFFICES ASSUME IInv, Round \/ DaemonError PROVE IInv'
  OBVIOUS
<1> USE VisibilityAssumption
<1> USE DEF IInv, LastIsPublished, KnownSettings, ReceiverHasContext, ReadIsCurrent, RoundIsApplied
<1>0. NoSettings \in Settings
  BY DEF NoSettings, Settings
<1>1. CASE RegisterReceiver
  <2>1. TypeOK'
    BY <1>1 DEF RegisterReceiver, TypeOK, manager, round, past
  <2>2. CallersOfOneState'
    BY <1>1 DEF RegisterReceiver, round, past, CallersOfOneState
  <2> QED
    BY <1>1, <2>1, <2>2 DEF RegisterReceiver, manager, round, past, TypeOK
<1>2. CASE FindAppsFilter
  <2>1. TypeOK'
    BY <1>2 DEF FindAppsFilter, TypeOK, manager, round, past
  <2>2. CallersOfOneState'
    BY <1>2 DEF FindAppsFilter, round, past, CallersOfOneState
  <2> QED
    BY <1>2, <2>1, <2>2 DEF FindAppsFilter, manager, round, past
<1>3. CASE ReadSettings
  <2>0. cache' \in Settings /\ missed' \in BOOLEAN /\ faults' \in 0 .. MaxFaults
    <3>1. faults' \in 0 .. MaxFaults
      BY <1>3 DEF ReadSettings, Fault, TypeOK
    <3>2. cache' \in Settings /\ missed' \in BOOLEAN
      BY <1>0, <1>3 DEF ReadSettings, TypeOK
    <3> QED
      BY <3>1, <3>2
  <2>1. TypeOK'
    BY <1>3, <2>0 DEF ReadSettings, TypeOK, manager, found
  <2>2. CallersOfOneState'
    BY <1>3 DEF ReadSettings, CallersOfOneState
  <2> QED
    BY <1>3, <2>1, <2>2 DEF ReadSettings, manager, found
<1>4. CASE PublishCallers
  <2> DEFINE targets == Callers([cache EXCEPT !.feature = TRUE], context)
  <2>1. targets = Callers(cache, context) /\ targets \subseteq Packages
    BY <1>4, CallersType DEF PublishCallers, TypeOK
  <2>2. enabledCallerPackages' = targets /\ lastTargetPackages' = targets
    BY <1>4 DEF PublishCallers, Changed, getAll
  <2>3. TypeOK'
    BY <1>4, <2>1, <2>2 DEF PublishCallers, TypeOK, manager, found, past
  <2>4. CallersOfOneState'
    BY <1>4, <2>1, <2>2 DEF PublishCallers, TypeOK, past, CallersOfOneState, Callers
  <2>5. isReceiverRegistered => targets = Callers(cache, TRUE)
    BY <2>1 DEF TypeOK
  <2> QED
    BY <1>4, <2>2, <2>3, <2>4, <2>5 DEF PublishCallers, manager, found, past, Callers
<1>5. CASE Disable
  <2>1. enabledCallerPackages' = {} /\ lastTargetPackages' = {}
    BY <1>5 DEF Disable
  <2>2. TypeOK'
    BY <1>5, <2>1 DEF Disable, TypeOK, manager, found, past
  <2>3. Callers(cache, TRUE) = {} /\ Callers(cache, FALSE) = {}
    BY <1>5, CallersType DEF Disable, TypeOK
  <2>4. CallersOfOneState'
    BY <1>5, <2>1, <2>3 DEF Disable, past, CallersOfOneState, Callers
  <2> QED
    BY <1>5, <2>1, <2>2, <2>3, <2>4 DEF Disable, manager, found, past, Callers
<1>6. CASE Wait \/ TimeOut
  <2>1. TypeOK'
    BY <1>6 DEF Wait, TimeOut, TypeOK, manager, found, round, past
  <2>2. CallersOfOneState'
    BY <1>6 DEF Wait, TimeOut, round, past, CallersOfOneState
  <2>3. CASE Wait
    BY <2>1, <2>2, <2>3 DEF Wait, manager, found, round, past
  <2>4. CASE TimeOut
    BY <2>1, <2>2, <2>4 DEF TimeOut, manager, found, round, past
  <2> QED
    BY <1>6, <2>3, <2>4
<1>7. CASE DaemonError
  <2>0. appsFilter' \in BOOLEAN /\ faults' \in 0 .. MaxFaults
    <3>1. appsFilter' \in BOOLEAN
      BY <1>7 DEF DaemonError, TypeOK
    <3>2. faults' \in 0 .. MaxFaults
      BY <1>7 DEF DaemonError, Fault, TypeOK
    <3> QED
      BY <3>1, <3>2
  <2>1. TypeOK'
    BY <1>7, <2>0 DEF DaemonError, TypeOK, manager, round
  <2>2. CallersOfOneState'
    BY <1>7 DEF DaemonError, round, CallersOfOneState
  <2> QED
    BY <1>7, <2>1, <2>2 DEF DaemonError, manager, round
<1> QED
  BY <1>1, <1>2, <1>3, <1>4, <1>5, <1>6, <1>7 DEF Round

\* What happens to system_server from outside, and stuttering.
LEMMA OutsideKeeps == IInv /\ (SystemReady \/ OnReceive \/ UNCHANGED vars) => IInv'
<1> SUFFICES ASSUME IInv, SystemReady \/ OnReceive \/ UNCHANGED vars PROVE IInv'
  OBVIOUS
<1> USE DEF IInv, LastIsPublished, KnownSettings, ReceiverHasContext, ReadIsCurrent, RoundIsApplied
<1>1. CASE SystemReady
  <2>1. TypeOK'
    BY <1>1 DEF SystemReady, TypeOK, manager, round, past
  <2>2. CallersOfOneState'
    BY <1>1 DEF SystemReady, round, past, CallersOfOneState
  <2> QED
    BY <1>1, <2>1, <2>2 DEF SystemReady, manager, round, past
<1>2. CASE OnReceive
  <2>1. signals' \in Nat
    BY <1>2 DEF OnReceive, TypeOK
  <2>2. TypeOK'
    BY <1>2, <2>1 DEF OnReceive, TypeOK, found, round
  <2>3. CallersOfOneState'
    BY <1>2 DEF OnReceive, round, CallersOfOneState
  <2>4. pc' = "register" \/ (pc' = pc /\ missed')
    BY <1>2 DEF OnReceive
  <2> QED
    BY <1>2, <2>2, <2>3, <2>4 DEF OnReceive, found, round
<1>3. CASE UNCHANGED vars
  <2>1. CallersOfOneState'
    BY <1>3 DEF vars, round, past, CallersOfOneState
  <2> QED
    BY <1>3, <2>1, ZenonT(60) DEF vars, manager, found, round, past, TypeOK
<1> QED
  BY <1>1, <1>2, <1>3

\* The invariant holds in every behaviour.
THEOREM Invariant == Spec => []IInv
<1>1. IInv /\ [Next]_vars => IInv'
  BY ManagerKeeps, DaemonKeeps, OutsideKeeps DEF Next
<1> QED
  BY InitIInv, <1>1, PTL DEF Spec

\* Every variable keeps its type, for all packages and bounds.
THEOREM TypeCorrect == Spec => []TypeOK
<1>1. IInv => TypeOK
  BY DEF IInv
<1> QED
  BY Invariant, <1>1, PTL

\* The flag and the packages that are in force come from one state of the settings.
THEOREM NoMixedCallers == Spec => []CallersOfOneState
<1>1. IInv => CallersOfOneState
  BY DEF IInv
<1> QED
  BY Invariant, <1>1, PTL

\* A waiting daemon serves the stored settings, or has a broadcast coming, or missed one.
THEOREM WaitingIsUpToDate == Spec => []WaitsUpToDate
<1>1. IInv => WaitsUpToDate
  BY DEF IInv, RoundIsApplied, ReadIsCurrent, WaitsUpToDate
<1> QED
  BY Invariant, <1>1, PTL
=============================================================================
