---------------------------- MODULE RuleRefresh ----------------------------
(***************************************************************************)
(* The rule cache of a hooked process (RuleRepository.kt) and the manager  *)
(* process it loads the rules from (UrlContentProvider.kt, DataSource.kt,  *)
(* SubscriptionRepository.kt).                                             *)
(*                                                                         *)
(* Threads: the one that runs init, the request threads (Callers), the     *)
(* binder thread that delivers content notifications (they are one-way     *)
(* calls on one object, so they come one at a time), and the single thread *)
(* of backgroundExecutor (the worker).  The rule tables are abstracted to  *)
(* versions: a table's version counts the edits made to it.                *)
(***************************************************************************)
EXTENDS Integers

CONSTANTS
    Callers,            \* threads that call shouldBlock
    MaxEdits,           \* bound: edits of a table
    MaxFaults           \* bound: loads that fail or get a null cursor

ASSUME RefreshAssumption ==
    /\ MaxEdits \in Nat
    /\ MaxFaults \in Nat

\* The two tables UrlContentProvider.query reads, in this order.
RuleTable == {"url_info", "subscription_rule"}

VARIABLES
    db,                 \* [RuleTable -> version] committed in the manager
    owed,               \* commits whose notifyChange has not run yet
    inbox,              \* notifications on their way to the observer
    ipc,                \* init: "register", "schedule", "done"
    observing,          \* the content observer is registered
    opc,                \* onChange: "idle", "schedule"
    dirty, refreshing,  \* the two AtomicBooleans
    loaded,             \* initialLoadComplete has been counted down
    aged,               \* now - lastRefreshAt >= MIN_REFRESH_INTERVAL_MS
    snapshot,           \* the published RuleSnapshot
    queued,             \* tasks waiting in backgroundExecutor
    wpc,                \* where the worker is
    rows,               \* the versions the running load has read so far
    cpc,                \* [Callers -> where the call is]
    seen,               \* history: [RuleTable -> version] at the last onChange
    outcomes,           \* history: ways in which loads went wrong, "null", "threw"
    interrupted,        \* history: callers whose await was interrupted
    faults              \* history: number of loads that went wrong

managerVars == <<db, owed>>
observerVars == <<observing, opc, inbox, seen>>
workerVars == <<wpc, rows, snapshot, loaded, outcomes, faults>>
callerVars == <<cpc, interrupted>>
vars == <<managerVars, observerVars, workerVars, callerVars,
          ipc, dirty, refreshing, aged, queued>>

Cache == INSTANCE RuleCache
NoRules == [t \in RuleTable |-> -1]

\* The worker's steps in which the task counts as refreshing.
Loading == {"begin", "readUser", "readSubs", "publish", "stamp", "failed", "release"}

Init ==
    /\ db = [t \in RuleTable |-> 0]
    /\ owed = 0
    /\ inbox = 0
    /\ ipc = "register"
    /\ observing = FALSE
    /\ opc = "idle"
    /\ dirty = TRUE
    /\ refreshing = FALSE
    /\ loaded = FALSE
    /\ aged = TRUE
    /\ snapshot = NoRules
    /\ queued = 0
    /\ wpc = "idle"
    /\ rows = NoRules
    /\ cpc = [c \in Callers |-> "idle"]
    /\ seen = NoRules
    /\ outcomes = {}
    /\ interrupted = {}
    /\ faults = 0

----------------------------------------------------------------------------
(* The manager process *)

Commit(t) ==
    /\ db[t] < MaxEdits
    /\ db' = [db EXCEPT ![t] = @ + 1]
    /\ UNCHANGED <<observerVars, workerVars, callerVars, ipc, dirty, refreshing, aged, queued>>

\* An edit that is followed by notifyChange: url_info through the content
\* provider; subscription_rule by a refresh or the deletion of a source.
NotifyingEdit(t) == Commit(t) /\ owed' = owed + 1

\* An edit nobody is notified of: url_info through DataSource (the rule list
\* and the request list of the UI); a subscription switched on or off.
SilentEdit(t) == Commit(t) /\ UNCHANGED owed

NotifyChange ==
    /\ owed > 0
    /\ owed' = owed - 1
    /\ inbox' = IF observing THEN inbox + 1 ELSE inbox
    /\ UNCHANGED <<db, observing, opc, seen, workerVars, callerVars, ipc, dirty,
                   refreshing, aged, queued>>

\* The manager process dies between a commit and its notifyChange.
ManagerDies ==
    /\ owed > 0
    /\ owed' = 0
    /\ UNCHANGED <<db, observerVars, workerVars, callerVars, ipc, dirty, refreshing, aged, queued>>

----------------------------------------------------------------------------
(* scheduleRefresh: the compareAndSet, and the task handed to the executor *)

ScheduleRefresh ==
    IF refreshing
    THEN UNCHANGED <<refreshing, queued>>
    ELSE refreshing' = TRUE /\ queued' = queued + 1

\* init: the observer is registered, or registering it throws.
Register(ok) ==
    /\ ipc = "register"
    /\ ipc' = "schedule"
    /\ observing' = ok
    /\ UNCHANGED <<managerVars, inbox, opc, seen, workerVars, callerVars, dirty,
                   refreshing, aged, queued>>

InitSchedule ==
    /\ ipc = "schedule"
    /\ ipc' = "done"
    /\ ScheduleRefresh
    /\ UNCHANGED <<managerVars, observerVars, workerVars, callerVars, dirty, aged>>

\* onChange
OnChangeDirty ==
    /\ opc = "idle"
    /\ inbox > 0
    /\ inbox' = inbox - 1
    /\ opc' = "schedule"
    /\ dirty' = TRUE
    /\ seen' = db
    /\ UNCHANGED <<managerVars, observing, workerVars, callerVars, ipc, refreshing, aged, queued>>

OnChangeSchedule ==
    /\ opc = "schedule"
    /\ opc' = "idle"
    /\ ScheduleRefresh
    /\ UNCHANGED <<managerVars, observing, inbox, seen, workerVars, callerVars, ipc, dirty, aged>>

----------------------------------------------------------------------------
(* The worker: one task is doRefresh and its finally block *)

WorkerStep(from, to) == wpc = from /\ wpc' = to

TakeTask ==
    /\ WorkerStep("idle", "begin")
    /\ queued > 0
    /\ queued' = queued - 1
    /\ UNCHANGED <<managerVars, observerVars, callerVars, rows, snapshot, loaded, outcomes,
                   faults, ipc, dirty, refreshing, aged>>

ClearDirty ==
    /\ WorkerStep("begin", "readUser")
    /\ dirty' = FALSE
    /\ rows' = NoRules
    /\ UNCHANGED <<managerVars, observerVars, callerVars, snapshot, loaded, outcomes,
                   faults, ipc, refreshing, aged, queued>>

\* handleQueryData makes two queries, in no transaction.
ReadTable(t, from, to) ==
    /\ WorkerStep(from, to)
    /\ rows' = [rows EXCEPT ![t] = db[t]]
    /\ UNCHANGED <<managerVars, observerVars, callerVars, snapshot, loaded, outcomes,
                   faults, ipc, dirty, refreshing, aged, queued>>

ReadUserRules == ReadTable("url_info", "readUser", "readSubs")
ReadSubscriptionRules == ReadTable("subscription_rule", "readSubs", "publish")

\* Mutant: the rows read before the cursor was lost are published.
NullCursor_KeepsRows ==
    /\ wpc \in {"readUser", "readSubs"}
    /\ wpc' = "publish"
    /\ faults < MaxFaults
    /\ faults' = faults + 1
    /\ outcomes' = outcomes \union {"null"}
    /\ UNCHANGED <<managerVars, observerVars, callerVars, rows, snapshot, loaded, ipc, dirty,
                   refreshing, aged, queued>>

\* contentResolver.query returns null (the provider's process is gone): ?.use
\* is skipped and loadAllRules returns an empty list, which is no error.
NullCursor ==
    /\ wpc \in {"readUser", "readSubs"}
    /\ wpc' = "publish"
    /\ faults < MaxFaults
    /\ faults' = faults + 1
    /\ outcomes' = outcomes \union {"null"}
    /\ rows' = NoRules
    /\ UNCHANGED <<managerVars, observerVars, callerVars, snapshot, loaded, ipc, dirty,
                   refreshing, aged, queued>>

\* The query throws.
QueryThrows ==
    /\ wpc \in {"readUser", "readSubs"}
    /\ wpc' = "failed"
    /\ faults < MaxFaults
    /\ faults' = faults + 1
    /\ outcomes' = outcomes \union {"threw"}
    /\ UNCHANGED <<managerVars, observerVars, callerVars, rows, snapshot, loaded, ipc, dirty,
                   refreshing, aged, queued>>

\* Mutant: the flag is cleared when the load ends.
Publish_ClearsDirty ==
    /\ WorkerStep("publish", "stamp")
    /\ snapshot' = rows
    /\ dirty' = FALSE
    /\ UNCHANGED <<managerVars, observerVars, callerVars, rows, loaded, outcomes, faults,
                   ipc, refreshing, aged, queued>>

Publish ==
    /\ WorkerStep("publish", "stamp")
    /\ snapshot' = rows
    /\ UNCHANGED <<managerVars, observerVars, callerVars, rows, loaded, outcomes, faults,
                   ipc, dirty, refreshing, aged, queued>>

\* lastRefreshAt = System.currentTimeMillis()
StampRefresh ==
    /\ WorkerStep("stamp", "release")
    /\ aged' = FALSE
    /\ UNCHANGED <<managerVars, observerVars, callerVars, rows, snapshot, loaded, outcomes,
                   faults, ipc, dirty, refreshing, queued>>

\* Mutant: an error leaves the task without its finally block.
RefreshFailed_NoFinally ==
    /\ WorkerStep("failed", "countDown")
    /\ dirty' = TRUE
    /\ UNCHANGED <<managerVars, observerVars, callerVars, rows, snapshot, loaded, outcomes,
                   faults, ipc, refreshing, aged, queued>>

\* onFailure
RefreshFailed ==
    /\ WorkerStep("failed", "release")
    /\ dirty' = TRUE
    /\ UNCHANGED <<managerVars, observerVars, callerVars, rows, snapshot, loaded, outcomes,
                   faults, ipc, refreshing, aged, queued>>

\* finally: refreshing.set(false), then countDown
ReleaseRefreshing ==
    /\ WorkerStep("release", "countDown")
    /\ refreshing' = FALSE
    /\ UNCHANGED <<managerVars, observerVars, callerVars, rows, snapshot, loaded, outcomes,
                   faults, ipc, dirty, aged, queued>>

\* Mutant: the latch is opened by a load that succeeds, not in finally.
CountDown_OnSuccess ==
    /\ WorkerStep("countDown", "idle")
    /\ loaded' = (loaded \/ snapshot # NoRules)
    /\ UNCHANGED <<managerVars, observerVars, callerVars, rows, snapshot, outcomes, faults,
                   ipc, dirty, refreshing, aged, queued>>

CountDown ==
    /\ WorkerStep("countDown", "idle")
    /\ loaded' = TRUE
    /\ UNCHANGED <<managerVars, observerVars, callerVars, rows, snapshot, outcomes, faults,
                   ipc, dirty, refreshing, aged, queued>>

\* MIN_REFRESH_INTERVAL_MS go by.
Aging ==
    /\ ~aged
    /\ aged' = TRUE
    /\ UNCHANGED <<managerVars, observerVars, workerVars, callerVars, ipc, dirty, refreshing, queued>>

----------------------------------------------------------------------------
(* shouldBlock; init returns before any request is hooked *)

CallStep(c, from, to) == cpc[c] = from /\ cpc' = [cpc EXCEPT ![c] = to]

\* Mutant: the latch is not looked at.
Call_NoLatch(c) ==
    /\ ipc = "done"
    /\ CallStep(c, "idle", "check")
    /\ interrupted' = interrupted \ {c}
    /\ UNCHANGED <<managerVars, observerVars, workerVars, ipc, dirty, refreshing, aged, queued>>

Call(c) ==
    /\ ipc = "done"
    /\ CallStep(c, "idle", IF loaded THEN "check" ELSE "firstLoad")
    /\ interrupted' = interrupted \ {c}
    /\ UNCHANGED <<managerVars, observerVars, workerVars, ipc, dirty, refreshing, aged, queued>>

ScheduleFirstLoad(c) ==
    /\ CallStep(c, "firstLoad", "await")
    /\ ScheduleRefresh
    /\ UNCHANGED <<managerVars, observerVars, workerVars, interrupted, ipc, dirty, aged>>

AwaitLoad(c) ==
    /\ loaded
    /\ CallStep(c, "await", "check")
    /\ UNCHANGED <<managerVars, observerVars, workerVars, interrupted, ipc, dirty,
                   refreshing, aged, queued>>

\* The thread is interrupted in await: the call goes on without the rules.
InterruptAwait(c) ==
    /\ CallStep(c, "await", "check")
    /\ interrupted' = interrupted \union {c}
    /\ UNCHANGED <<managerVars, observerVars, workerVars, ipc, dirty, refreshing, aged, queued>>

\* Mutant: no poll; a refresh is scheduled only when an edit was notified.
CheckStale_NoPoll(c) ==
    /\ CallStep(c, "check", IF dirty THEN "schedule" ELSE "match")
    /\ UNCHANGED <<managerVars, observerVars, workerVars, interrupted, ipc, dirty,
                   refreshing, aged, queued>>

CheckStale(c) ==
    /\ CallStep(c, "check", IF dirty \/ aged THEN "schedule" ELSE "match")
    /\ UNCHANGED <<managerVars, observerVars, workerVars, interrupted, ipc, dirty,
                   refreshing, aged, queued>>

ScheduleStale(c) ==
    /\ CallStep(c, "schedule", "match")
    /\ ScheduleRefresh
    /\ UNCHANGED <<managerVars, observerVars, workerVars, interrupted, ipc, dirty, aged>>

Match(c) ==
    /\ CallStep(c, "match", "idle")
    /\ UNCHANGED <<managerVars, observerVars, workerVars, interrupted, ipc, dirty,
                   refreshing, aged, queued>>

----------------------------------------------------------------------------
Manager == (\E t \in RuleTable : NotifyingEdit(t) \/ SilentEdit(t)) \/ NotifyChange \/ ManagerDies

Observer == OnChangeDirty \/ OnChangeSchedule

Worker ==
    \/ TakeTask \/ ClearDirty \/ ReadUserRules \/ ReadSubscriptionRules \/ NullCursor
    \/ QueryThrows \/ Publish \/ StampRefresh \/ RefreshFailed \/ ReleaseRefreshing \/ CountDown

Caller(c) ==
    \/ ScheduleFirstLoad(c) \/ AwaitLoad(c)
    \/ CheckStale(c) \/ ScheduleStale(c) \/ Match(c)

Next ==
    \/ Manager
    \/ (\E ok \in BOOLEAN : Register(ok)) \/ InitSchedule
    \/ Observer
    \/ Worker
    \/ Aging
    \/ \E c \in Callers : Call(c) \/ Caller(c) \/ InterruptAwait(c)

Spec == Init /\ [][Next]_vars

\* The threads of the process are scheduled and time passes; that requests are
\* made, that a waiting thread is interrupted, that anything is edited or that a
\* notification arrives is not assumed.
Fairness ==
    /\ WF_vars((\E ok \in BOOLEAN : Register(ok)) \/ InitSchedule)
    /\ WF_vars(OnChangeSchedule)
    /\ WF_vars(Worker)
    /\ WF_vars(Aging)
    /\ \A c \in Callers : WF_vars(Caller(c))

FairSpec == Spec /\ Fairness

----------------------------------------------------------------------------
(* Properties *)

TypeOK ==
    /\ db \in [RuleTable -> Nat]
    /\ owed \in Nat
    /\ inbox \in Nat
    /\ ipc \in {"register", "schedule", "done"}
    /\ opc \in {"idle", "schedule"}
    /\ observing \in BOOLEAN
    /\ dirty \in BOOLEAN
    /\ refreshing \in BOOLEAN
    /\ loaded \in BOOLEAN
    /\ aged \in BOOLEAN
    /\ snapshot \in [RuleTable -> Int]
    /\ queued \in {0, 1}
    /\ wpc \in Loading \union {"idle", "countDown"}
    /\ rows \in [RuleTable -> Int]
    /\ cpc \in [Callers -> {"idle", "firstLoad", "await", "check", "schedule", "match"}]
    /\ seen \in [RuleTable -> Int]
    /\ outcomes \subseteq {"null", "threw"}
    /\ interrupted \subseteq Callers
    /\ faults \in Nat

\* The flag refreshing says exactly that one load is queued or running: two
\* loads never overlap, and no load is ever lost with the flag left set
\* (the compareAndSet and the finally block of scheduleRefresh).
SingleFlight ==
    /\ refreshing <=> (queued = 1 \/ wpc \in Loading)
    /\ ~(queued = 1 /\ wpc \in Loading)

\* The rules that will be served when the running load ends, as far as it has
\* read, or that are served already.
Upcoming == IF wpc \in {"readSubs", "publish"} THEN rows ELSE snapshot

\* The running load has still to read t.
StillToRead(t) ==
    \/ wpc = "readUser"
    \/ wpc = "readSubs" /\ t = "subscription_rule"

\* An edit the observer was told of is never forgotten: until it is served the
\* flag dirty is set, or the running load has still to read that table, or has
\* read it (onChange against the order of doRefresh: dirty is cleared before
\* the query, set again when the query throws).  A null cursor is the exception.
ToldEditIsCovered ==
    \A t \in RuleTable :
        \/ dirty
        \/ wpc = "failed"
        \/ StillToRead(t)
        \/ Upcoming = NoRules
        \/ seen[t] <= Upcoming[t]

\* A request is matched with an empty rule set only if a load has gone wrong or
\* the request's own wait was interrupted (initialLoadComplete).
MatchedAfterLoad ==
    \A c \in Callers :
        cpc[c] = "match" /\ snapshot = NoRules => outcomes # {} \/ c \in interrupted

\* The rules served only move forward, and only a null cursor empties them
\* (the whole of RuleRepository against the promise of RuleCache).
CacheSpec == Cache!Spec

\* A call of shouldBlock always returns, even if every load fails (countDown in
\* the finally block).
CallsReturn == \A c \in Callers : (cpc[c] # "idle") ~> (cpc[c] = "idle")

\* Every committed edit is in the end what requests are matched with, notified
\* or not, whatever was lost on the way, as long as requests keep coming.
CatchesUp ==
    (\E c \in Callers : []<>(cpc[c] = "check")) => <>[](snapshot = db)
=============================================================================
