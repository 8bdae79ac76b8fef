-------------------------- MODULE VisibilityDaemon --------------------------
(***************************************************************************)
(* The thread of PackageVisibilityHandler in system_server, which makes    *)
(* the packages that the settings name see the manager app, and the writer *)
(* of HookPrefs in the manager, whose broadcast wakes it.                  *)
(*                                                                         *)
(* A round of the thread: register the receiver, find the AppsFilter and   *)
(* hook it, read the settings, publish the callers if they changed, wait.  *)
(* The broadcast only ends a wait; whoever is not waiting misses it.       *)
(*                                                                         *)
(* The settings file changes in one step and its writes keep their order   *)
(* (CommitFile, SettingsStore).  Only settings the daemon looks at change. *)
(***************************************************************************)
EXTENDS Integers, FiniteSets

CONSTANTS
    Packages,       \* packages the user may enable
    SeesAll,        \* those that hold QUERY_ALL_PACKAGES
    MaxStores,      \* bound: changes of the settings
    MaxFaults       \* bound: failed reads, errors of the daemon, deaths of the manager

ASSUME VisibilityAssumption ==
    /\ SeesAll \subseteq Packages
    /\ MaxStores \in Nat
    /\ MaxFaults \in Nat

\* KEY_ENABLE_PACKAGE_VISIBILITY_BYPASS, and the packages with a switch on.
Settings == [feature : BOOLEAN, packages : SUBSET Packages]
NoSettings == [feature |-> FALSE, packages |-> {}]

VARIABLES
    (* the manager *)
    stored,                 \* the settings file
    writer,                 \* the write queue: "idle" or "written"
    signals,                \* broadcasts on their way
    (* system_server *)
    context,                \* whether there is a system context yet
    isReceiverRegistered,
    appsFilter,             \* whether appsFilterInstance was found
    cache,                  \* HookPrefs.generalSettingsCache
    lastFeatureEnabled,     \* "unknown", "off" or "on"
    lastTargetPackages,
    enabledCallerPackages,
    pc,
    (* history *)
    history,                \* every settings there ever were
    missed,                 \* since the last read: a signal or a read went wrong
    stores,
    faults

manager == <<stored, writer, signals>>
round == <<cache, lastFeatureEnabled, lastTargetPackages, enabledCallerPackages>>
found == <<context, isReceiverRegistered, appsFilter>>
past == <<history, missed, stores, faults>>
vars == <<manager, found, round, pc, past>>

Init ==
    /\ stored \in Settings
    /\ writer = "idle" /\ signals = 0
    /\ context = FALSE /\ isReceiverRegistered = FALSE /\ appsFilter = FALSE
    /\ cache = NoSettings
    /\ lastFeatureEnabled = "unknown"
    /\ lastTargetPackages = {} /\ enabledCallerPackages = {}
    /\ pc = "register"
    /\ history = {stored, NoSettings} /\ missed = FALSE
    /\ stores = 0 /\ faults = 0

\* Packages that see everything anyway are left out as soon as permissions can be asked for.
Callers(settings, permissions) ==
    IF settings.feature THEN settings.packages \ (IF permissions THEN SeesAll ELSE {}) ELSE {}

Fault == faults < MaxFaults /\ faults' = faults + 1

----------------------------------------------------------------------------
(* The manager: updateSetting's write, then its broadcast                  *)

Store ==
    /\ stores < MaxStores
    /\ writer = "idle"
    /\ \E settings \in Settings \ {stored} :
          /\ stored' = settings
          /\ history' = history \cup {settings}
    /\ writer' = "written"
    /\ stores' = stores + 1
    /\ UNCHANGED <<signals, found, round, pc, missed, faults>>

SendBroadcast ==
    /\ writer = "written"
    /\ writer' = "idle"
    /\ signals' = signals + 1
    /\ UNCHANGED <<stored, found, round, pc, past>>

\* It dies, or writeTextToFile says that it failed although the file is there.
NoBroadcast ==
    /\ writer = "written"
    /\ Fault
    /\ writer' = "idle"
    /\ missed' = TRUE
    /\ UNCHANGED <<stored, signals, found, round, pc, history, stores>>

----------------------------------------------------------------------------
(* system_server                                                           *)

SystemReady ==
    /\ ~context
    /\ context' = TRUE
    /\ UNCHANGED <<manager, isReceiverRegistered, appsFilter, round, pc, past>>

\* updateReceiver: notifyAll on a lock that somebody may be waiting for.
OnReceive ==
    /\ signals > 0
    /\ signals' = signals - 1
    /\ IF isReceiverRegistered /\ pc = "wait"
       THEN pc' = "register" /\ UNCHANGED missed
       ELSE missed' = TRUE /\ UNCHANGED pc
    /\ UNCHANGED <<stored, writer, found, round, history, stores, faults>>

RegisterReceiver ==
    /\ pc = "register"
    /\ pc' = "filter"
    /\ \/ UNCHANGED isReceiverRegistered
       \/ context /\ isReceiverRegistered' = TRUE
    /\ UNCHANGED <<manager, context, appsFilter, round, past>>

FindAppsFilter ==
    /\ pc = "filter"
    /\ \/ /\ appsFilter' = TRUE
          /\ pc' = "read"
       \/ /\ ~appsFilter
          /\ pc' = "sleep"
          /\ UNCHANGED appsFilter
    /\ UNCHANGED <<manager, context, isReceiverRegistered, round, past>>

\* invalidateCaches, and getBoolean fills the cache.  What cannot be read is empty.
ReadSettings ==
    /\ pc = "read"
    /\ \/ /\ cache' = stored
          /\ missed' = FALSE
          /\ UNCHANGED faults
       \/ /\ Fault
          /\ cache' = NoSettings
          /\ missed' = TRUE
    /\ pc' = "publish"
    /\ UNCHANGED <<manager, found, lastFeatureEnabled, lastTargetPackages,
                   enabledCallerPackages, history, stores>>

\* Mutant: the targets are read anew.
getAll_Fresh == stored

getAll == cache

\* Mutant: only the first targets after the feature was off.
Changed_FeatureOnly(targets) == lastFeatureEnabled # "on"

Changed(targets) == lastFeatureEnabled # "on" \/ targets # lastTargetPackages

PublishCallers ==
    LET targets == Callers([getAll EXCEPT !.feature = TRUE], context)
    IN  /\ pc = "publish"
        /\ cache.feature
        /\ IF Changed(targets)
           THEN enabledCallerPackages' = targets /\ lastTargetPackages' = targets
           ELSE UNCHANGED <<enabledCallerPackages, lastTargetPackages>>
        /\ lastFeatureEnabled' = "on"
        /\ pc' = "end"
        /\ UNCHANGED <<manager, found, cache, past>>

Disable ==
    /\ pc = "publish"
    /\ ~cache.feature
    /\ IF lastFeatureEnabled # "off"
       THEN enabledCallerPackages' = {} /\ lastTargetPackages' = {}
       ELSE UNCHANGED <<enabledCallerPackages, lastTargetPackages>>
    /\ lastFeatureEnabled' = "off"
    /\ pc' = "end"
    /\ UNCHANGED <<manager, found, cache, past>>

Wait ==
    /\ pc = "end"
    /\ pc' = IF isReceiverRegistered THEN "wait" ELSE "sleep"
    /\ UNCHANGED <<manager, found, round, past>>

\* Mutant: a wait without a limit.
TimeOut_SleepOnly ==
    /\ pc = "sleep"
    /\ pc' = "register"
    /\ UNCHANGED <<manager, found, round, past>>

TimeOut ==
    /\ pc \in {"wait", "sleep"}
    /\ pc' = "register"
    /\ UNCHANGED <<manager, found, round, past>>

\* A Throwable, for example from reflection or from the package manager.
DaemonError ==
    /\ pc \in {"filter", "read", "publish"}
    /\ Fault
    /\ appsFilter' \in {appsFilter, FALSE}
    /\ pc' = "sleep"
    /\ UNCHANGED <<manager, context, isReceiverRegistered, round, history, missed, stores>>

Round ==
    \/ RegisterReceiver \/ FindAppsFilter \/ ReadSettings
    \/ PublishCallers \/ Disable \/ Wait \/ TimeOut

Next ==
    \/ Store \/ SendBroadcast \/ NoBroadcast
    \/ SystemReady \/ OnReceive
    \/ Round \/ DaemonError

(* The thread never ends, and both of its waits have a limit. *)
Spec == Init /\ [][Next]_vars /\ WF_vars(Round)

----------------------------------------------------------------------------

TypeOK ==
    /\ stored \in Settings /\ cache \in Settings
    /\ writer \in {"idle", "written"} /\ signals \in Nat
    /\ context \in BOOLEAN /\ isReceiverRegistered \in BOOLEAN /\ appsFilter \in BOOLEAN
    /\ lastFeatureEnabled \in {"unknown", "off", "on"}
    /\ lastTargetPackages \subseteq Packages /\ enabledCallerPackages \subseteq Packages
    /\ pc \in {"register", "filter", "read", "publish", "end", "wait", "sleep"}
    /\ history \subseteq Settings /\ missed \in BOOLEAN
    /\ stores \in 0 .. MaxStores /\ faults \in 0 .. MaxFaults

\* The callers that are let through are those of one state of the settings, never the packages of
\* one and the switch of another: the flag and the targets are read apart, from one filled cache.
CallersOfOneState ==
    \E settings \in history, permissions \in BOOLEAN :
        enabledCallerPackages = Callers(settings, permissions)

\* While the daemon waits, its callers are those of the stored settings, unless the broadcast of the
\* change is still to come, or since its last read one went astray or that read failed: a round
\* that publishes nothing (lastFeatureEnabled, lastTargetPackages) had nothing to publish.
WaitsUpToDate ==
    pc = "wait" =>
        \/ enabledCallerPackages = Callers(stored, TRUE)
        \/ writer = "written" \/ signals > 0 \/ missed

\* Every change takes effect in the end, though its broadcast may be missed, never sent, or find no
\* receiver: the 60 seconds of the wait and the 5 of the sleep see to it, if the filter was found.
SettingsTakeEffect ==
    <>[](appsFilter => enabledCallerPackages = Callers(stored, context))
=============================================================================
