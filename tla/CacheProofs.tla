---------------------------- MODULE CacheProofs ----------------------------
(***************************************************************************)
(* Theorems about the two caches of a hooked process that are filled and   *)
(* emptied by several threads.                                             *)
(*                                                                         *)
(* RuleRefresh, for any set of request threads and any bounds: type        *)
(* correctness, the single-flight and dirty-flag invariants, that no       *)
(* request is matched before a load, and that the detailed specification   *)
(* implements RuleCache.                                                   *)
(*                                                                         *)
(* DexKitBridge, for any number of threads, keys and release jobs: a       *)
(* bridge in use is open, no cached result outlives its bridge, and an     *)
(* unused bridge is about to be closed.                                    *)
(***************************************************************************)
EXTENDS RuleRefresh, DexKitBridge, FiniteSetTheorems, TLAPS

----------------------------------------------------------------------------
(* RuleRefresh *)

\* No version is known, loaded or served that is ahead of the database.
NotAhead ==
    \A t \in RuleTable : snapshot[t] <= db[t] /\ rows[t] <= db[t] /\ seen[t] <= db[t]

\* What the running load has read is at least as new as what is served.
RowsFresh ==
    /\ wpc = "readSubs" =>
          rows["url_info"] >= 0 /\ snapshot["url_info"] <= rows["url_info"]
    /\ wpc = "publish" => rows = NoRules \/ \A t \in RuleTable : snapshot[t] <= rows[t]

\* Where the empty rule set may come from.
EmptyExplained ==
    /\ loaded => snapshot # NoRules \/ outcomes # {}
    /\ wpc = "publish" => rows # NoRules \/ outcomes # {}
    /\ wpc = "failed" => outcomes # {}
    /\ wpc \in {"stamp", "release", "countDown"} => snapshot # NoRules \/ outcomes # {}
    /\ \A c \in Callers :
          cpc[c] \in {"check", "schedule", "match"} => loaded \/ c \in interrupted

\* The inductive invariant of RuleRefresh: what is served, read and noticed hangs together.
RefreshInv ==
    /\ TypeOK
    /\ SingleFlight
    /\ NotAhead
    /\ RowsFresh
    /\ ToldEditIsCovered
    /\ EmptyExplained

\* The snapshot without rules: a version of each table that no edit produces.
LEMMA NoRulesFact == NoRules \in [RuleTable -> Int] /\ \A t \in RuleTable : NoRules[t] = -1
  BY DEF NoRules

\* scheduleRefresh keeps the flag in step with the one load, whichever thread calls it.
LEMMA ScheduleRefreshFlight ==
    ASSUME TypeOK, SingleFlight, ScheduleRefresh, wpc' = wpc
    PROVE  queued' \in {0, 1} /\ refreshing' \in BOOLEAN /\ SingleFlight'
<1>1. CASE refreshing
  <2>1. refreshing' = refreshing /\ queued' = queued
    BY <1>1 DEF ScheduleRefresh
  <2> QED
    BY <2>1 DEF TypeOK, SingleFlight
<1>2. CASE ~refreshing
  <2>1. queued = 0 /\ wpc \notin Loading
    BY <1>2 DEF TypeOK, SingleFlight
  <2>2. refreshing' /\ refreshing' \in BOOLEAN /\ queued' = 1
    BY <1>2, <2>1 DEF ScheduleRefresh
  <2> QED
    BY <2>1, <2>2 DEF SingleFlight
<1> QED
  BY <1>1, <1>2

\* The inductive invariant holds before init.
LEMMA InitRefreshInv == Init => RefreshInv
<1> SUFFICES ASSUME Init PROVE RefreshInv
    OBVIOUS
<1> USE DEF Init
<1>1. TypeOK
  BY NoRulesFact DEF TypeOK, RuleTable
<1>2. SingleFlight
  BY DEF SingleFlight, Loading
<1>3. NotAhead
  BY NoRulesFact DEF NotAhead
<1>4. RowsFresh
  BY DEF RowsFresh
<1>5. ToldEditIsCovered
  BY DEF ToldEditIsCovered
<1>6. EmptyExplained
  BY DEF EmptyExplained
<1> QED
  BY <1>1, <1>2, <1>3, <1>4, <1>5, <1>6 DEF RefreshInv

\* Every step preserves the inductive invariant.
LEMMA NextRefreshInv == RefreshInv /\ [Next]_vars => RefreshInv'
<1> SUFFICES ASSUME RefreshInv, [Next]_vars PROVE RefreshInv'
    OBVIOUS
<1> USE NoRulesFact
    DEF RefreshInv, TypeOK, SingleFlight, NotAhead, RowsFresh, ToldEditIsCovered,
        EmptyExplained, RuleTable, Loading, StillToRead, Upcoming,
        managerVars, observerVars, workerVars, callerVars
<1>1. ASSUME NEW t \in RuleTable, NotifyingEdit(t) PROVE RefreshInv'
  BY <1>1 DEF NotifyingEdit, Commit
<1>2. ASSUME NEW t \in RuleTable, SilentEdit(t) PROVE RefreshInv'
  BY <1>2 DEF SilentEdit, Commit
<1>3. ASSUME NEW ok \in BOOLEAN, Register(ok) PROVE RefreshInv'
  BY <1>3 DEF Register
<1>4. CASE NotifyChange
  BY <1>4 DEF NotifyChange
<1>5. CASE ManagerDies
  BY <1>5 DEF ManagerDies
<1>6. CASE InitSchedule
  <2>1. queued' \in {0, 1} /\ refreshing' \in BOOLEAN /\ SingleFlight'
    BY <1>6, ScheduleRefreshFlight DEF InitSchedule
  <2> QED
    BY <1>6, <2>1 DEF InitSchedule
<1>7. CASE OnChangeDirty
  BY <1>7 DEF OnChangeDirty
<1>8. CASE OnChangeSchedule
  <2>1. queued' \in {0, 1} /\ refreshing' \in BOOLEAN /\ SingleFlight'
    BY <1>8, ScheduleRefreshFlight DEF OnChangeSchedule
  <2> QED
    BY <1>8, <2>1 DEF OnChangeSchedule
<1>9. CASE TakeTask
  BY <1>9 DEF TakeTask, WorkerStep
<1>10. CASE ClearDirty
  <2> USE <1>10 DEF ClearDirty, WorkerStep
  <2>1. TypeOK'
    OBVIOUS
  <2>2. NotAhead'
    OBVIOUS
  <2>3. SingleFlight' /\ RowsFresh' /\ ToldEditIsCovered' /\ EmptyExplained'
    OBVIOUS
  <2> QED
    BY <2>1, <2>2, <2>3
<1>11. CASE ReadUserRules
  BY <1>11 DEF ReadUserRules, ReadTable, WorkerStep
<1>12. CASE ReadSubscriptionRules
  BY <1>12 DEF ReadSubscriptionRules, ReadTable, WorkerStep
<1>13. CASE NullCursor
  BY <1>13 DEF NullCursor
<1>14. CASE QueryThrows
  BY <1>14 DEF QueryThrows
<1>15. CASE Publish
  BY <1>15 DEF Publish, WorkerStep
<1>16. CASE StampRefresh
  BY <1>16 DEF StampRefresh, WorkerStep
<1>17. CASE RefreshFailed
  BY <1>17 DEF RefreshFailed, WorkerStep
<1>18. CASE ReleaseRefreshing
  BY <1>18 DEF ReleaseRefreshing, WorkerStep
<1>19. CASE CountDown
  BY <1>19 DEF CountDown, WorkerStep
<1>20. CASE Aging
  BY <1>20 DEF Aging
<1>21. ASSUME NEW c \in Callers, Call(c) PROVE RefreshInv'
  BY <1>21 DEF Call, CallStep
<1>22. ASSUME NEW c \in Callers, ScheduleFirstLoad(c) PROVE RefreshInv'
  <2>1. queued' \in {0, 1} /\ refreshing' \in BOOLEAN /\ SingleFlight'
    BY <1>22, ScheduleRefreshFlight DEF ScheduleFirstLoad
  <2> QED
    BY <1>22, <2>1 DEF ScheduleFirstLoad, CallStep
<1>23. ASSUME NEW c \in Callers, AwaitLoad(c) PROVE RefreshInv'
  BY <1>23 DEF AwaitLoad, CallStep
<1>24. ASSUME NEW c \in Callers, InterruptAwait(c) PROVE RefreshInv'
  BY <1>24 DEF InterruptAwait, CallStep
<1>25. ASSUME NEW c \in Callers, CheckStale(c) PROVE RefreshInv'
  BY <1>25 DEF CheckStale, CallStep
<1>26. ASSUME NEW c \in Callers, ScheduleStale(c) PROVE RefreshInv'
  <2>1. queued' \in {0, 1} /\ refreshing' \in BOOLEAN /\ SingleFlight'
    BY <1>26, ScheduleRefreshFlight DEF ScheduleStale
  <2> QED
    BY <1>26, <2>1 DEF ScheduleStale, CallStep
<1>27. ASSUME NEW c \in Callers, Match(c) PROVE RefreshInv'
  BY <1>27 DEF Match, CallStep
<1>28. CASE UNCHANGED vars
  BY <1>28 DEF vars
<1> QED
  BY <1>1, <1>2, <1>3, <1>4, <1>5, <1>6, <1>7, <1>8, <1>9, <1>10, <1>11, <1>12, <1>13, <1>14, <1>15, <1>16, <1>17, <1>18, <1>19, <1>20, <1>21, <1>22, <1>23, <1>24, <1>25, <1>26, <1>27, <1>28
     DEF Next, Manager, Observer, Worker, Caller

\* The inductive invariant always holds.
LEMMA RefreshInvariant == Spec => []RefreshInv
  BY InitRefreshInv, NextRefreshInv, PTL DEF Spec

\* The state of the cache and of its threads stays within its types; in
\* particular the executor never holds more than one waiting task.
THEOREM TypeCorrect == Spec => []TypeOK
<1>1. RefreshInv => TypeOK
  BY DEF RefreshInv
<1> QED
  BY <1>1, RefreshInvariant, PTL

\* Loads never overlap and the flag refreshing is never left behind.
THEOREM LoadsAreSingleFlight == Spec => []SingleFlight
<1>1. RefreshInv => SingleFlight
  BY DEF RefreshInv
<1> QED
  BY <1>1, RefreshInvariant, PTL

\* No edit the observer was told of is forgotten.
THEOREM NoToldEditIsLost == Spec => []ToldEditIsCovered
<1>1. RefreshInv => ToldEditIsCovered
  BY DEF RefreshInv
<1> QED
  BY <1>1, RefreshInvariant, PTL

\* Requests are matched with the empty rules only when a load went wrong or
\* their wait was interrupted.
THEOREM NoMatchBeforeLoad == Spec => []MatchedAfterLoad
<1>1. RefreshInv => MatchedAfterLoad
  BY DEF RefreshInv, EmptyExplained, MatchedAfterLoad
<1> QED
  BY <1>1, RefreshInvariant, PTL

----------------------------------------------------------------------------
(* RuleRefresh implements RuleCache *)

\* A step of the detailed specification is an edit, an advance or a wipe of
\* the abstract cache, or leaves it alone.
LEMMA StepImplementsCache == RefreshInv /\ [Next]_vars => [Cache!Next]_(Cache!vars)
<1> SUFFICES ASSUME RefreshInv, [Next]_vars PROVE [Cache!Next]_(Cache!vars)
    OBVIOUS
<1> USE DEF Cache!vars
<1>1. ASSUME NEW t \in RuleTable, Commit(t) PROVE Cache!Next
  BY <1>1 DEF Commit, Cache!Next, Cache!Edit, workerVars
<1>2. CASE Publish
  <2>1. snapshot' = rows /\ db' = db /\ wpc = "publish"
    BY <1>2 DEF Publish, WorkerStep, managerVars
  <2>2. CASE rows = NoRules
    BY <2>1, <2>2 DEF NoRules, Cache!NoRules, Cache!Wipe, Cache!Next
  <2>3. CASE rows # NoRules
    <3>1. \A t \in RuleTable : snapshot[t] <= rows[t] /\ rows[t] <= db[t]
      BY <2>1, <2>3 DEF RefreshInv, RowsFresh, NotAhead
    <3>2. rows \in [RuleTable -> Int]
      BY DEF RefreshInv, TypeOK
    <3> QED
      BY <2>1, <3>1, <3>2 DEF Cache!Advance, Cache!Next
  <2> QED
    BY <2>2, <2>3
<1>3. CASE UNCHANGED <<db, snapshot>>
  BY <1>3
<1>4. ASSUME NEW t \in RuleTable, NotifyingEdit(t) \/ SilentEdit(t) PROVE Cache!Next
  BY <1>1, <1>4 DEF NotifyingEdit, SilentEdit
<1>5. NotifyChange \/ ManagerDies \/ InitSchedule \/ Observer \/ Aging \/ UNCHANGED vars
          => UNCHANGED <<db, snapshot>>
  BY DEF NotifyChange, ManagerDies, InitSchedule, Observer, OnChangeDirty, OnChangeSchedule,
         Aging, vars, managerVars, workerVars
<1>6. ASSUME NEW ok \in BOOLEAN, Register(ok) PROVE UNCHANGED <<db, snapshot>>
  BY <1>6 DEF Register, managerVars, workerVars
<1>7. Worker => Publish \/ UNCHANGED <<db, snapshot>>
  BY DEF Worker, TakeTask, ClearDirty, ReadUserRules, ReadSubscriptionRules, ReadTable,
         NullCursor, QueryThrows, StampRefresh, RefreshFailed, ReleaseRefreshing, CountDown,
         managerVars
<1>8. ASSUME NEW c \in Callers, Call(c) \/ Caller(c) \/ InterruptAwait(c) PROVE UNCHANGED <<db, snapshot>>
  BY <1>8 DEF Call, Caller, ScheduleFirstLoad, AwaitLoad, InterruptAwait, CheckStale,
              ScheduleStale, Match, managerVars, workerVars
<1> QED
  BY <1>2, <1>3, <1>4, <1>5, <1>6, <1>7, <1>8 DEF Next, Manager

\* What requests are matched with is a stale but forward-moving copy of the
\* rule tables, which only a null cursor can empty.
THEOREM ImplementsCache == Spec => CacheSpec
<1>1. Init => Cache!Init
  BY DEF Init, Cache!Init, NoRules, Cache!NoRules
<1> QED
  BY <1>1, StepImplementsCache, RefreshInvariant, PTL DEF Spec, CacheSpec, Cache!Spec

----------------------------------------------------------------------------
(* DexKitBridge *)

\* The count is kept outside the lock and is right all the same.
CountIsRight == usageCount = Cardinality(Users)

\* A job stays scheduled only while the bridge is unused, and has not yet looked.
ScheduledIsIdle ==
    releaseJob # "none" =>
        /\ usageCount = 0
        /\ jobs[releaseJob] \in {"delay", "due"}

\* The inductive invariant of DexKitBridge: its properties, the count and the scheduled job.
DexKitInv ==
    /\ DexKitTypeOK
    /\ CountIsRight /\ ScheduledIsIdle
    /\ UsedBridgeIsOpen /\ ResultsOfThisBridge /\ ReleaseIsComing

\* The users are finitely many, and there are none when they count 0.
LEMMA UsersFinite == IsFiniteSet(Users) /\ Cardinality(Users) \in Nat
                     /\ (Cardinality(Users) = 0 <=> Users = {})
<1>1. IsFiniteSet(Users)
  BY DexKitAssumption, FS_Subset DEF Users
<1> QED
  BY <1>1, FS_CardinalityType, FS_EmptySet

\* The same for the next state.
LEMMA UsersFinitePrime == IsFiniteSet(Users') /\ Cardinality(Users') \in Nat
                          /\ (Cardinality(Users') = 0 <=> Users' = {})
<1>1. IsFiniteSet(Users')
  BY DexKitAssumption, FS_Subset DEF Users
<1> QED
  BY <1>1, FS_CardinalityType, FS_EmptySet

\* Cancelling a job leads to a state of a job.
LEMMA CancelType ==
    ASSUME DexKitTypeOK, CancelRelease
    PROVE /\ releaseJob' = "none"
          /\ jobs' \in [Jobs -> {"new", "delay", "due", "dueCancelled", "leaving", "done"}]
  BY DEF DexKitTypeOK, CancelRelease, Cancelled

\* The inductive invariant holds before the first call.
LEMMA InitDexKitInv == DexKitInit => DexKitInv
<1> SUFFICES ASSUME DexKitInit PROVE DexKitInv
    OBVIOUS
<1> USE DexKitAssumption DEF DexKitInit
<1>1. DexKitTypeOK
  BY DEF DexKitTypeOK, Null, Using
<1>2. Users = {}
  BY DEF Users, Using
<1>3. CountIsRight
  BY <1>2, FS_EmptySet DEF CountIsRight
<1> QED
  BY <1>1, <1>2, <1>3 DEF DexKitInv, ScheduledIsIdle, UsedBridgeIsOpen, ResultsOfThisBridge,
     ReleaseIsComing, Users, Using, Null

\* A step that leaves the users, the bridge and the jobs alone.
LEMMA SameUsers ==
    ASSUME DexKitInv, DexKitTypeOK', Users' = Users, \A t \in Users : held'[t] = held[t],
           UNCHANGED <<bridge, usageCount, releaseJob, jobs>>, ResultsOfThisBridge',
           \A t \in Threads : pc[t] = "schedule" => pc'[t] = "schedule"
    PROVE  DexKitInv'
  BY DEF DexKitInv, CountIsRight, ScheduledIsIdle, UsedBridgeIsOpen, ReleaseIsComing

\* Every step preserves it.
LEMMA NextDexKitInv == DexKitInv /\ [DexKitNext]_dexKitVars => DexKitInv'
<1> SUFFICES ASSUME DexKitInv, [DexKitNext]_dexKitVars PROVE DexKitInv'
    OBVIOUS
<1> DexKitTypeOK
  BY DEF DexKitInv
<1> USE DexKitAssumption DEF DexKitTypeOK, Using, Step, bridgeVars, cacheVars
<1>1. ASSUME NEW t \in Threads, acquireBridge(t) PROVE DexKitInv'
  <2>1. DexKitTypeOK'
    BY <1>1, CancelType DEF acquireBridge, Null
  <2>2. t \notin Users /\ Users' = Users \cup {t}
    BY <1>1 DEF acquireBridge, Users
  <2>3. usageCount' = Cardinality(Users')
    BY <1>1, <2>2, UsersFinite, FS_AddElement DEF acquireBridge, DexKitInv, CountIsRight
  <2>4. releaseJob' = "none"
    BY <1>1 DEF acquireBridge, CancelRelease
  <2>5. UsedBridgeIsOpen'
    BY <1>1, <2>2 DEF acquireBridge, DexKitInv, UsedBridgeIsOpen, Null
  <2>6. ResultsOfThisBridge'
    BY <1>1 DEF acquireBridge, DexKitInv, ResultsOfThisBridge, Null
  <2> QED
    BY <2>1, <2>2, <2>3, <2>4, <2>5, <2>6
       DEF DexKitInv, CountIsRight, ScheduledIsIdle, ReleaseIsComing
<1>2. ASSUME NEW t \in Threads, AcquireFails(t) PROVE DexKitInv'
  <2>1. DexKitTypeOK' /\ releaseJob' = "none"
    BY <1>2, CancelType DEF AcquireFails
  <2>2. Users' = Users
    BY <1>2 DEF AcquireFails, Users
  <2> QED
    BY <1>2, <2>1, <2>2 DEF AcquireFails, DexKitInv, CountIsRight, ScheduledIsIdle,
       UsedBridgeIsOpen, ResultsOfThisBridge, ReleaseIsComing
<1>3. ASSUME NEW t \in Threads, NEW k \in Keys, Miss(t, k) PROVE DexKitInv'
  <2>1. DexKitTypeOK' /\ Users' = Users
    BY <1>3 DEF Miss, Users
  <2> QED
    BY <1>3, <2>1, SameUsers DEF Miss, DexKitInv, ResultsOfThisBridge
<1>4. ASSUME NEW t \in Threads, NEW empty \in BOOLEAN, Loaded(t, empty) PROVE DexKitInv'
  <2>1. DexKitTypeOK' /\ Users' = Users /\ t \in Users
    BY <1>4 DEF Loaded, Users
  <2>2. ResultsOfThisBridge'
    BY <1>4, <2>1 DEF Loaded, DexKitInv, ResultsOfThisBridge, UsedBridgeIsOpen
  <2> QED
    BY <1>4, <2>1, <2>2, SameUsers DEF Loaded
<1>5. ASSUME NEW t \in Threads, LoadThrows(t) PROVE DexKitInv'
  <2>1. DexKitTypeOK' /\ Users' = Users
    BY <1>5 DEF LoadThrows, Users
  <2> QED
    BY <1>5, <2>1, SameUsers DEF LoadThrows, DexKitInv, ResultsOfThisBridge
<1>6. ASSUME NEW t \in Threads, DropEmpty(t) PROVE DexKitInv'
  <2>1. DexKitTypeOK' /\ Users' = Users
    BY <1>6 DEF DropEmpty, Users, Null
  <2> QED
    BY <1>6, <2>1, SameUsers DEF DropEmpty, DexKitInv, ResultsOfThisBridge
<1>7. ASSUME NEW t \in Threads, releaseUsage(t) PROVE DexKitInv'
  <2>1. t \in Users /\ Users' = Users \ {t}
    BY <1>7 DEF releaseUsage, Users
  <2>2. usageCount' = Cardinality(Users') /\ usageCount' \in Nat
    BY <1>7, <2>1, UsersFinite, UsersFinitePrime, FS_RemoveElement
       DEF releaseUsage, DexKitInv, CountIsRight
  <2>3. DexKitTypeOK'
    BY <1>7, <2>2 DEF releaseUsage
  <2>4. UsedBridgeIsOpen' /\ ResultsOfThisBridge'
    BY <1>7, <2>1 DEF releaseUsage, DexKitInv, UsedBridgeIsOpen, ResultsOfThisBridge
  <2>5. usageCount # 0 /\ releaseJob = "none"
    BY <2>1, UsersFinite DEF DexKitInv, CountIsRight, ScheduledIsIdle
  <2>6. Users' = {} => pc'[t] = "schedule"
    BY <1>7, <2>2, UsersFinitePrime DEF releaseUsage
  <2> QED
    BY <1>7, <2>2, <2>3, <2>4, <2>5, <2>6
       DEF releaseUsage, DexKitInv, CountIsRight, ScheduledIsIdle, ReleaseIsComing
<1>8. ASSUME NEW t \in Threads, scheduleRelease(t) PROVE DexKitInv'
  <2>1. Users' = Users
    BY <1>8 DEF scheduleRelease, Users
  <2>2. DexKitTypeOK'
    BY <1>8 DEF scheduleRelease
  <2>3. CountIsRight' /\ UsedBridgeIsOpen' /\ ResultsOfThisBridge'
    BY <1>8, <2>1 DEF scheduleRelease, DexKitInv, CountIsRight, UsedBridgeIsOpen, ResultsOfThisBridge
  <2>4. CASE usageCount > 0 \/ \E j \in Jobs : j = releaseJob /\ IsActive(j)
    <3>1. UNCHANGED <<releaseJob, jobs, usageCount>>
      BY <1>8, <2>4 DEF scheduleRelease
    <3>2. ReleaseIsComing'
      BY <2>1, <2>4, <3>1, UsersFinite
         DEF DexKitInv, CountIsRight, ScheduledIsIdle, ReleaseIsComing
    <3> QED
      BY <2>2, <2>3, <3>1, <3>2 DEF DexKitInv, ScheduledIsIdle
  <2>5. CASE ~(usageCount > 0 \/ \E j \in Jobs : j = releaseJob /\ IsActive(j))
    <3>1. PICK j \in Jobs : jobs' = [jobs EXCEPT ![j] = "delay"] /\ releaseJob' = j
      BY <1>8, <2>5 DEF scheduleRelease
    <3>2. usageCount' = 0
      BY <1>8, <2>5 DEF scheduleRelease
    <3> QED
      BY <2>2, <2>3, <3>1, <3>2 DEF DexKitInv, ScheduledIsIdle, ReleaseIsComing
  <2> QED
    BY <2>4, <2>5
<1>9. ASSUME NEW j \in Jobs, DelayOver(j) PROVE DexKitInv'
  <2>1. DexKitTypeOK' /\ Users' = Users
    BY <1>9 DEF DelayOver, Users
  <2> QED
    BY <1>9, <2>1 DEF DelayOver, DexKitInv, CountIsRight, ScheduledIsIdle, UsedBridgeIsOpen,
       ResultsOfThisBridge, ReleaseIsComing
<1>10. ASSUME NEW j \in Jobs, releaseBridge(j) PROVE DexKitInv'
  <2>1. DexKitTypeOK' /\ Users' = Users
    BY <1>10 DEF releaseBridge, JobLeft, Users, Null
  <2>2. CountIsRight'
    BY <1>10, <2>1 DEF releaseBridge, DexKitInv, CountIsRight
  <2>3. CASE usageCount > 0
    <3>1. Users # {} /\ releaseJob = "none"
      BY <2>3, UsersFinite DEF DexKitInv, CountIsRight, ScheduledIsIdle
    <3> QED
      BY <1>10, <2>1, <2>2, <2>3, <3>1 DEF releaseBridge, DexKitInv, ScheduledIsIdle,
         UsedBridgeIsOpen, ResultsOfThisBridge, ReleaseIsComing
  <2>4. CASE ~(usageCount > 0)
    <3>1. Users = {}
      BY <2>4, UsersFinite DEF DexKitInv, CountIsRight
    <3> QED
      BY <1>10, <2>1, <2>2, <2>4, <3>1 DEF releaseBridge, DexKitInv, ScheduledIsIdle,
         UsedBridgeIsOpen, ResultsOfThisBridge, ReleaseIsComing
  <2> QED
    BY <2>3, <2>4
<1>11. ASSUME NEW j \in Jobs, JobEnds(j) PROVE DexKitInv'
  <2>1. DexKitTypeOK' /\ Users' = Users
    BY <1>11 DEF JobEnds, Users
  <2> QED
    BY <1>11, <2>1 DEF JobEnds, DexKitInv, CountIsRight, ScheduledIsIdle, UsedBridgeIsOpen,
       ResultsOfThisBridge, ReleaseIsComing
<1>12. ASSUME NEW t \in Threads, NEW k \in Keys, HitEmpty(t, k) PROVE DexKitInv'
  <2>1. DexKitTypeOK' /\ Users' = Users
    BY <1>12 DEF HitEmpty, Users
  <2> QED
    BY <1>12, <2>1, SameUsers DEF HitEmpty, DexKitInv, ResultsOfThisBridge
<1>13. CASE UNCHANGED dexKitVars
  BY <1>13 DEF dexKitVars, DexKitInv, CountIsRight, ScheduledIsIdle, UsedBridgeIsOpen,
     ResultsOfThisBridge, ReleaseIsComing, Users
<1> QED
  BY <1>1, <1>2, <1>3, <1>4, <1>5, <1>6, <1>7, <1>8, <1>9, <1>10, <1>11, <1>12, <1>13
     DEF DexKitNext, Thread, Job

\* The inductive invariant always holds.
LEMMA DexKitInvariant == DexKitSpec => []DexKitInv
  BY InitDexKitInv, NextDexKitInv, PTL DEF DexKitSpec

\* The state of the bridge, its users and its jobs stays within its types.
THEOREM DexKitTypeCorrect == DexKitSpec => []DexKitTypeOK
<1>1. DexKitInv => DexKitTypeOK
  BY DEF DexKitInv
<1> QED
  BY <1>1, DexKitInvariant, PTL

\* No thread ever works with a bridge that was closed under it.
THEOREM UsersHaveTheBridge == DexKitSpec => []UsedBridgeIsOpen
<1>1. DexKitInv => UsedBridgeIsOpen
  BY DEF DexKitInv
<1> QED
  BY <1>1, DexKitInvariant, PTL

\* No cached result outlives the bridge it came from.
THEOREM ResultsDieWithBridge == DexKitSpec => []ResultsOfThisBridge
<1>1. DexKitInv => ResultsOfThisBridge
  BY DEF DexKitInv
<1> QED
  BY <1>1, DexKitInvariant, PTL

\* An unused bridge is not forgotten.
THEOREM NoBridgeIsForgotten == DexKitSpec => []ReleaseIsComing
<1>1. DexKitInv => ReleaseIsComing
  BY DEF DexKitInv
<1> QED
  BY <1>1, DexKitInvariant, PTL
=============================================================================
