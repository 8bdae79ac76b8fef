---------------------------- MODULE DexKitBridge ----------------------------
(***************************************************************************)
(* The shared DexKit bridge of a hooked process (DexKitUtil.kt): threads   *)
(* count themselves in and out of its use, the last one out schedules a    *)
(* release 3 s later, and results are cached as long as the bridge lives.  *)
(*                                                                         *)
(* Each synchronized block is a step; the count goes down outside the      *)
(* lock.  A bridge and a result are named by the number of the bridge.     *)
(* The native library is external.                                         *)
(***************************************************************************)
EXTENDS Integers, FiniteSets

CONSTANTS
    Threads,        \* threads that call withBridge
    Keys,           \* keys of methodCache
    Jobs,           \* bound: the release jobs that are ever launched
    MaxBridges      \* bound: bridges created

ASSUME DexKitAssumption ==
    /\ MaxBridges \in Nat
    /\ "none" \notin Jobs \cup Threads
    /\ IsFiniteSet(Threads)

Null == 0

VARIABLES
    bridge,         \* number of the open bridge, or Null
    created,        \* bridges created so far
    usageCount,
    releaseJob,     \* the job last scheduled, or "none"
    jobs,           \* [Jobs -> state of the coroutine]
    methodCache,    \* [Keys -> number of the bridge the result came from, or Null]
    loader,         \* [Keys -> the thread that loads the key, or "none"]
    pc,             \* [Threads -> where the thread is]
    held,           \* [Threads -> number of the bridge it was given]
    key             \* [Threads -> the key it loads]

bridgeVars == <<bridge, created>>
cacheVars == <<methodCache, loader, key>>
dexKitVars == <<bridgeVars, usageCount, releaseJob, jobs, cacheVars, pc, held>>

Using == {"use", "load", "drop"}

DexKitInit ==
    /\ bridge = Null
    /\ created = 0
    /\ usageCount = 0
    /\ releaseJob = "none"
    /\ jobs = [j \in Jobs |-> "new"]
    /\ methodCache = [k \in Keys |-> Null]
    /\ loader = [k \in Keys |-> "none"]
    /\ pc = [t \in Threads |-> "idle"]
    /\ held = [t \in Threads |-> Null]
    /\ key \in [Threads -> Keys]

----------------------------------------------------------------------------
(* withBridge *)

Step(t, from, to) == pc[t] = from /\ pc' = [pc EXCEPT ![t] = to]

\* A job cancelled in its delay ends; one that has left the delay goes on.
Cancelled(state) ==
    CASE state = "delay" -> "done"
      [] state = "due" -> "dueCancelled"
      [] state = "leaving" -> "done"
      [] OTHER -> state

CancelRelease ==
    /\ releaseJob' = "none"
    /\ jobs' = [j \in Jobs |-> IF j = releaseJob THEN Cancelled(jobs[j]) ELSE jobs[j]]

\* Mutant: the release that was scheduled is left alone.
acquireBridge_KeepsRelease(t) ==
    /\ Step(t, "idle", "use")
    /\ created' = IF bridge = Null THEN created + 1 ELSE created
    /\ created' <= MaxBridges
    /\ bridge' = IF bridge = Null THEN created' ELSE bridge
    /\ held' = [held EXCEPT ![t] = bridge']
    /\ usageCount' = usageCount + 1
    /\ UNCHANGED <<releaseJob, jobs, cacheVars>>

acquireBridge(t) ==
    /\ Step(t, "idle", "use")
    /\ CancelRelease
    /\ created' = IF bridge = Null THEN created + 1 ELSE created
    /\ created' <= MaxBridges
    /\ bridge' = IF bridge = Null THEN created' ELSE bridge
    /\ held' = [held EXCEPT ![t] = bridge']
    /\ usageCount' = usageCount + 1
    /\ UNCHANGED cacheVars

\* The bridge cannot be created; withBridge returns null.
AcquireFails(t) ==
    /\ pc[t] = "idle"
    /\ bridge = Null
    /\ CancelRelease
    /\ UNCHANGED <<bridgeVars, usageCount, cacheVars, pc, held>>

\* The block ends or throws.
releaseUsage(t) ==
    /\ Step(t, "use", IF usageCount = 1 THEN "schedule" ELSE "idle")
    /\ usageCount' = usageCount - 1
    /\ UNCHANGED <<bridgeVars, releaseJob, jobs, cacheVars, held>>

IsActive(j) == jobs[j] \in {"delay", "due", "leaving"}

scheduleRelease(t) ==
    /\ Step(t, "schedule", "idle")
    /\ IF usageCount > 0 \/ \E j \in Jobs : j = releaseJob /\ IsActive(j)
       THEN UNCHANGED <<releaseJob, jobs>>
       ELSE \E j \in Jobs :
                /\ jobs[j] = "new"
                /\ jobs' = [jobs EXCEPT ![j] = "delay"]
                /\ releaseJob' = j
    /\ UNCHANGED <<bridgeVars, usageCount, cacheVars, held>>

----------------------------------------------------------------------------
(* getCachedOrFindMethods, always called inside withBridge *)

\* The key is not cached, and no other thread loads it.
Miss(t, k) ==
    /\ Step(t, "use", "load")
    /\ methodCache[k] = Null
    /\ loader[k] = "none"
    /\ loader' = [loader EXCEPT ![k] = t]
    /\ key' = [key EXCEPT ![t] = k]
    /\ UNCHANGED <<bridgeVars, usageCount, releaseJob, jobs, methodCache, held>>

\* The result of findLogic is stored, also if the cache was cleared meanwhile.
Loaded(t, empty) ==
    /\ Step(t, "load", IF empty THEN "drop" ELSE "use")
    /\ methodCache' = [methodCache EXCEPT ![key[t]] = held[t]]
    /\ loader' = [loader EXCEPT ![key[t]] = "none"]
    /\ UNCHANGED <<bridgeVars, usageCount, releaseJob, jobs, key, held>>

LoadThrows(t) ==
    /\ Step(t, "load", "use")
    /\ loader' = [loader EXCEPT ![key[t]] = "none"]
    /\ UNCHANGED <<bridgeVars, usageCount, releaseJob, jobs, methodCache, key, held>>

\* Another thread's empty result is found before that thread drops it.
HitEmpty(t, k) ==
    /\ Step(t, "use", "drop")
    /\ methodCache[k] # Null
    /\ \E u \in Threads : pc[u] = "drop" /\ key[u] = k
    /\ key' = [key EXCEPT ![t] = k]
    /\ UNCHANGED <<bridgeVars, usageCount, releaseJob, jobs, methodCache, loader, held>>

\* An empty result is not kept.
DropEmpty(t) ==
    /\ Step(t, "drop", "use")
    /\ methodCache' = [methodCache EXCEPT ![key[t]] = Null]
    /\ UNCHANGED <<bridgeVars, usageCount, releaseJob, jobs, loader, key, held>>

----------------------------------------------------------------------------
(* The release job *)

DelayOver(j) ==
    /\ jobs[j] = "delay"
    /\ jobs' = [jobs EXCEPT ![j] = "due"]
    /\ UNCHANGED <<bridgeVars, usageCount, releaseJob, cacheVars, pc, held>>

JobLeft(j) == jobs' = [jobs EXCEPT ![j] = IF @ = "due" THEN "leaving" ELSE "done"]

\* Mutant: the count is not looked at again.
releaseBridge_Unchecked(j) ==
    /\ jobs[j] \in {"due", "dueCancelled"}
    /\ JobLeft(j)
    /\ bridge' = Null
    /\ releaseJob' = "none"
    /\ methodCache' = [k \in Keys |-> Null]
    /\ UNCHANGED <<created, usageCount, loader, key, pc, held>>

\* Mutant: the results are kept.
releaseBridge_KeepsResults(j) ==
    /\ jobs[j] \in {"due", "dueCancelled"}
    /\ JobLeft(j)
    /\ IF usageCount > 0
       THEN UNCHANGED <<bridge, releaseJob>>
       ELSE bridge' = Null /\ releaseJob' = "none"
    /\ UNCHANGED <<created, usageCount, methodCache, loader, key, pc, held>>

\* A job that was cancelled after its delay gets here all the same.
releaseBridge(j) ==
    /\ jobs[j] \in {"due", "dueCancelled"}
    /\ JobLeft(j)
    /\ IF usageCount > 0
       THEN UNCHANGED <<bridge, releaseJob, methodCache>>
       ELSE /\ bridge' = Null
            /\ releaseJob' = "none"
            /\ methodCache' = IF bridge = Null THEN methodCache ELSE [k \in Keys |-> Null]
    /\ UNCHANGED <<created, usageCount, loader, key, pc, held>>

\* The coroutine completes; until then it still counts as active.
JobEnds(j) ==
    /\ jobs[j] = "leaving"
    /\ jobs' = [jobs EXCEPT ![j] = "done"]
    /\ UNCHANGED <<bridgeVars, usageCount, releaseJob, cacheVars, pc, held>>

----------------------------------------------------------------------------
Thread(t) ==
    \/ acquireBridge(t) \/ AcquireFails(t)
    \/ (\E k \in Keys : Miss(t, k) \/ HitEmpty(t, k))
    \/ (\E empty \in BOOLEAN : Loaded(t, empty)) \/ LoadThrows(t) \/ DropEmpty(t)
    \/ releaseUsage(t) \/ scheduleRelease(t)

Job(j) == DelayOver(j) \/ releaseBridge(j) \/ JobEnds(j)

DexKitNext == (\E t \in Threads : Thread(t)) \/ (\E j \in Jobs : Job(j))

DexKitSpec == DexKitInit /\ [][DexKitNext]_dexKitVars

----------------------------------------------------------------------------
(* Properties *)

Users == {t \in Threads : pc[t] \in Using}

DexKitTypeOK ==
    /\ bridge \in Nat /\ created \in Nat
    /\ usageCount \in Nat
    /\ releaseJob \in Jobs \cup {"none"}
    /\ jobs \in [Jobs -> {"new", "delay", "due", "dueCancelled", "leaving", "done"}]
    /\ methodCache \in [Keys -> Nat]
    /\ loader \in [Keys -> Threads \cup {"none"}]
    /\ pc \in [Threads -> Using \cup {"idle", "schedule"}]
    /\ held \in [Threads -> Nat]
    /\ key \in [Threads -> Keys]

\* No thread uses a bridge that was closed, although a release may have left
\* its delay before the thread came in (acquireBridge and releaseBridge).
UsedBridgeIsOpen == \A t \in Users : held[t] # Null /\ held[t] = bridge

\* "Never let cached results outlive the bridge that created them": a result
\* may be under way into the cache while a release waits for the lock.
ResultsOfThisBridge == \A k \in Keys : methodCache[k] \in {Null, bridge}

\* A bridge that nobody uses will be closed: a thread is about to schedule its
\* release, or a job that will look at it is under way, whatever jobs were
\* cancelled or found it in use (releaseUsage, scheduleRelease, releaseBridge).
ReleaseIsComing ==
    bridge # Null /\ Users = {} =>
        \/ \E t \in Threads : pc[t] = "schedule"
        \/ \E j \in Jobs : jobs[j] \in {"delay", "due", "dueCancelled"}

=============================================================================
