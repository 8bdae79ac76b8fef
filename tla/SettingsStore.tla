---------------------------- MODULE SettingsStore ----------------------------
(***************************************************************************)
(* The general settings in the manager process: the cache of HookPrefs,    *)
(* the threads that read and update it under cacheLock, the one thread     *)
(* that writes each new version to the file, and the module's service,     *)
(* which binds, dies and binds again (ServiceManager).                     *)
(*                                                                         *)
(* The file is the register of ConfigRegister: read and written in one     *)
(* step while the service is there.  A read may fail all the same (listing *)
(* or opening the file throws, its text does not parse): the code then     *)
(* goes on with an empty object.  A value is the number of the update that *)
(* set it.                                                                 *)
(***************************************************************************)
EXTENDS Integers, Sequences

CONSTANTS
    Keys,           \* settings
    Threads,        \* threads of the manager that use them
    MaxUpdates,     \* bound: updates
    MaxOutages,     \* bound: deaths of the service
    MaxFailures     \* bound: writes that throw

ASSUME SettingsAssumption ==
    /\ MaxUpdates \in Nat
    /\ MaxOutages \in Nat
    /\ MaxFailures \in Nat
    /\ "free" \notin Threads

Unset == 0
Settings == [Keys -> Nat]
NoSettings == [k \in Keys |-> Unset]

VARIABLES
    connected,      \* connectionState is Connected
    invalidating,   \* onServiceBind has not yet invalidated the caches
    cached,         \* generalSettingsCache is not null
    cache,          \* its value then
    lock,           \* cacheLock: the thread that holds it, or "free"
    pc,             \* [Threads -> where the thread is]
    key,            \* [Threads -> Keys] the setting it updates
    json,           \* [Threads -> Settings] what it has read, then what it will write
    queue,          \* writes waiting for ioScope
    file,           \* the settings on disk
    updates, outages, failures,
    latest,         \* history: [Keys -> Nat] the settings with every update made
    blind,          \* history: the last read of the file failed, with the service there
    settled,        \* history: every update was made with the service there, after its
                    \*   invalidation, and on no blind read
    raced           \* history: an update overtook one that was not yet queued

serviceVars == <<connected, invalidating, outages>>
cacheVars == <<cached, cache, lock>>
threadVars == <<pc, key, json>>
diskVars == <<queue, file, failures>>
history == <<latest, blind, settled, raced>>
vars == <<serviceVars, cacheVars, threadVars, diskVars, updates, history>>

\* The settings were saved in an earlier run; the service is not yet bound.
Init ==
    /\ connected = FALSE
    /\ invalidating = FALSE
    /\ cached = FALSE
    /\ cache = NoSettings
    /\ lock = "free"
    /\ pc = [t \in Threads |-> "idle"]
    /\ key \in [Threads -> Keys]
    /\ json = [t \in Threads |-> NoSettings]
    /\ queue = <<>>
    /\ file = [k \in Keys |-> 1]
    /\ updates = 1
    /\ outages = 0
    /\ failures = 0
    /\ latest = file
    /\ blind = FALSE
    /\ settled = TRUE
    /\ raced = FALSE

----------------------------------------------------------------------------
(* getSettingsJson and updateSetting *)

Step(t, from, to) == pc[t] = from /\ pc' = [pc EXCEPT ![t] = to]

\* readSettingsFromFile: an empty object when there is no service, when the file cannot be
\* listed or opened, and when it does not parse.
FromFile == {NoSettings} \cup (IF connected THEN {file} ELSE {})

\* Thread t reads the file, or does not get to see it.  A read without the service is for
\* InvalidateCaches to make good; a blind one, with the service there, nothing makes good.
ReadFile(t) ==
    \E read \in FromFile :
        /\ json' = [json EXCEPT ![t] = read]
        /\ blind' = (connected /\ read # file)

\* A getter finds no cache.
BeginGet(t) ==
    /\ Step(t, "idle", "read")
    /\ ~cached
    /\ lock = "free"
    /\ lock' = t
    /\ UNCHANGED <<serviceVars, cached, cache, key, json, diskVars, updates, history>>

ReadSettings(t) ==
    /\ Step(t, "read", "fill")
    /\ ReadFile(t)
    /\ UNCHANGED <<serviceVars, cacheVars, key, diskVars, updates, latest, settled, raced>>

FillCache(t) ==
    /\ Step(t, "fill", "idle")
    /\ cached' = TRUE
    /\ cache' = json[t]
    /\ lock' = "free"
    /\ UNCHANGED <<serviceVars, key, json, diskVars, updates, history>>

\* Mutant: the baseline is the cache, or nothing, never the file.
BeginUpdate_NoRead(t, k) ==
    /\ Step(t, "idle", "transform")
    /\ updates < MaxUpdates
    /\ lock = "free"
    /\ lock' = t
    /\ key' = [key EXCEPT ![t] = k]
    /\ json' = [json EXCEPT ![t] = IF cached THEN cache ELSE NoSettings]
    /\ UNCHANGED <<serviceVars, cached, cache, diskVars, updates, history>>

\* An update takes the cache for its baseline, and the file when there is none.
BeginUpdate(t, k) ==
    /\ Step(t, "idle", IF cached THEN "transform" ELSE "baseline")
    /\ updates < MaxUpdates
    /\ lock = "free"
    /\ lock' = t
    /\ key' = [key EXCEPT ![t] = k]
    /\ json' = [json EXCEPT ![t] = IF cached THEN cache ELSE @]
    /\ UNCHANGED <<serviceVars, cached, cache, diskVars, updates, history>>

ReadBaseline(t) ==
    /\ Step(t, "baseline", "transform")
    /\ ReadFile(t)
    /\ UNCHANGED <<serviceVars, cacheVars, key, diskVars, updates, latest, settled, raced>>

Updated(t) == [json[t] EXCEPT ![key[t]] = updates + 1]

Transform(t) ==
    /\ Step(t, "transform", "launch")
    /\ updates' = updates + 1
    /\ json' = [json EXCEPT ![t] = Updated(t)]
    /\ cached' = TRUE
    /\ cache' = Updated(t)
    /\ lock' = "free"
    /\ latest' = [latest EXCEPT ![key[t]] = updates + 1]
    /\ settled' = (settled /\ connected /\ ~invalidating /\ ~blind)
    /\ raced' = (raced \/ \E u \in Threads : pc[u] = "launch")
    /\ UNCHANGED <<serviceVars, key, diskVars, blind>>

\* ioScope.launch, after cacheLock was released
Launch(t) ==
    /\ Step(t, "launch", "idle")
    /\ queue' = Append(queue, json[t])
    /\ UNCHANGED <<serviceVars, cacheVars, key, json, file, failures, updates, history>>

----------------------------------------------------------------------------
(* writeTextToFile, on the one thread of ioScope *)

\* Mutant: the newest write goes first.
Persist_Newest ==
    /\ queue # <<>>
    /\ queue' = SubSeq(queue, 1, Len(queue) - 1)
    /\ file' = IF connected THEN queue[Len(queue)] ELSE file
    /\ UNCHANGED <<serviceVars, cacheVars, threadVars, failures, updates, history>>

\* Without the service the write is skipped.
Persist ==
    /\ queue # <<>>
    /\ queue' = Tail(queue)
    /\ file' = IF connected THEN Head(queue) ELSE file
    /\ UNCHANGED <<serviceVars, cacheVars, threadVars, failures, updates, history>>

\* The write throws; it is not tried again.
PersistFails ==
    /\ queue # <<>>
    /\ failures < MaxFailures
    /\ failures' = failures + 1
    /\ queue' = Tail(queue)
    /\ UNCHANGED <<serviceVars, cacheVars, threadVars, file, updates, history>>

----------------------------------------------------------------------------
(* ServiceManager *)

Bind ==
    /\ ~connected
    /\ connected' = TRUE
    /\ invalidating' = TRUE
    /\ UNCHANGED <<cacheVars, threadVars, diskVars, updates, outages, history>>

\* Mutant: the caches are kept.
InvalidateCaches_Kept ==
    /\ invalidating
    /\ invalidating' = FALSE
    /\ UNCHANGED <<connected, cacheVars, threadVars, diskVars, updates, outages, history>>

InvalidateCaches ==
    /\ invalidating
    /\ lock = "free"
    /\ cached' = FALSE
    /\ cache' = NoSettings
    /\ invalidating' = FALSE
    /\ UNCHANGED <<connected, lock, threadVars, diskVars, updates, outages, history>>

\* The caches stay as they are.
ServiceDies ==
    /\ connected
    /\ outages < MaxOutages
    /\ outages' = outages + 1
    /\ connected' = FALSE
    /\ UNCHANGED <<invalidating, cacheVars, threadVars, diskVars, updates, history>>

----------------------------------------------------------------------------
Thread(t) ==
    \/ BeginGet(t) \/ ReadSettings(t) \/ FillCache(t)
    \/ (\E k \in Keys : BeginUpdate(t, k)) \/ ReadBaseline(t) \/ Transform(t)
    \/ Launch(t)

Writer == Persist \/ PersistFails

Service == Bind \/ InvalidateCaches \/ ServiceDies

Next == (\E t \in Threads : Thread(t)) \/ Writer \/ Service

Spec == Init /\ [][Next]_vars

----------------------------------------------------------------------------
(* Properties *)

TypeOK ==
    /\ connected \in BOOLEAN /\ invalidating \in BOOLEAN
    /\ cached \in BOOLEAN /\ cache \in Settings
    /\ lock \in Threads \cup {"free"}
    /\ pc \in [Threads -> {"idle", "read", "fill", "baseline", "transform", "launch"}]
    /\ \A t \in Threads : pc[t] \in {"read", "fill", "baseline", "transform"} <=> lock = t
    /\ key \in [Threads -> Keys]
    /\ json \in [Threads -> Settings]
    /\ queue \in Seq(Settings)
    /\ file \in Settings
    /\ updates \in Nat /\ outages \in Nat /\ failures \in Nat
    /\ latest \in Settings
    /\ blind \in BOOLEAN /\ settled \in BOOLEAN /\ raced \in BOOLEAN

\* Every update was made with the service there, on settings that were read, the service never
\* died, and no write was lost.
Calm == settled /\ outages = 0 /\ failures = 0

\* In calm the cache knows every update, whichever thread filled it and when, before the service
\* came or after, unless the last read failed with the service there (getSettingsJson,
\* updateSetting and invalidateCaches around cacheLock).
CacheIsLatest == Calm /\ cached /\ ~blind /\ connected /\ ~invalidating => cache = latest

\* In calm the disk ends up with every update, unless two threads queued their
\* versions in the other order than they made them (launch is outside the lock).
DiskCatchesUp ==
    Calm /\ ~raced /\ queue = <<>> /\ (\A t \in Threads : pc[t] # "launch") => file = latest

\* As long as no update is made without the service or after a failed read, and the service does
\* not die, no write drops a setting, overtaken or not, and whatever getters failed to read.
NothingIsWiped == settled /\ outages = 0 => \A k \in Keys : file[k] # Unset
=============================================================================
