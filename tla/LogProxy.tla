------------------------------ MODULE LogProxy ------------------------------
(***************************************************************************)
(* The way of a log entry: LogProxy in the hooked process puts it into a   *)
(* channel, the flush loop sends batches over a oneway binder call to      *)
(* LogService in the manager, which adds them to the cache of              *)
(* LogRepository and hands them to the screen that shows them.             *)
(*                                                                         *)
(* One hooked application whose entries all pass the screen's filter.      *)
(* disconnect and shutdown have no caller, so the state DISCONNECTING does *)
(* not occur.  Entries are numbered in the order of trySend.               *)
(***************************************************************************)
EXTENDS Integers, Sequences, FiniteSets

CONSTANTS
    CHANNEL_CAPACITY,   \* of logChannel
    BATCH_SIZE,
    WireCapacity,       \* batches the binder holds for the service
    MAX_CACHE_SIZE,     \* of the cache and of the screen
    FlowCapacity,       \* lists the shared flow holds for the screen
    MaxEntries,         \* bound: entries
    MaxServices,        \* bound: times the service is started
    MaxScreens          \* bound: uses of the screen

ASSUME LogAssumption ==
    /\ {CHANNEL_CAPACITY, BATCH_SIZE, MAX_CACHE_SIZE, FlowCapacity} \subseteq Nat \ {0}
    /\ {WireCapacity, MaxEntries, MaxServices, MaxScreens} \subseteq Nat

Entries == 1 .. MaxEntries
Services == 1 .. MaxServices
Null == 0               \* no service; as a callback, onServiceDisconnected

VARIABLES
    (* the hooked process *)
    logged,             \* entries 1 .. logged
    logChannel,
    state,              \* DISCONNECTED, CONNECTING or CONNECTED
    bound,              \* bindService: "unasked", "bound" or "refused"
    loggerService,
    callbacks,          \* ServiceConnection calls to come, in order
    callback,           \* the state the running one is about to set, or "none"
    flushing,           \* flushQueue: "delay", "receive" or "send"
    batch,
    (* the manager process *)
    service,            \* the running service, by its number, or Null
    services,           \* times it was started
    wire,               \* batches sent and not yet received
    jobs,               \* coroutines of logBatch, not in order: [entries, added]
    logCache,
    flow,               \* lists the screen has not collected
    screen,             \* "closed", "subscribed", "open" or "clearing"
    allLogs,            \* what it shows
    screens,
    (* history *)
    failed,             \* the connection failed and was not restored
    overflowed          \* since it loaded, the screen missed a list or cut its own

proxy == <<logged, logChannel, state, bound, loggerService, callbacks, callback>>
flush == <<flushing, batch>>
delivery == <<service, services, wire>>
repository == <<jobs, logCache>>
view == <<flow, screen, allLogs, screens, overflowed>>
vars == <<proxy, flush, delivery, repository, view, failed>>

Init ==
    /\ logged = 0 /\ logChannel = <<>>
    /\ state = "DISCONNECTED" /\ bound = "unasked" /\ loggerService = Null
    /\ callbacks = <<>> /\ callback = "none"
    /\ flushing = "delay" /\ batch = <<>>
    /\ service = Null /\ services = 0
    /\ wire = <<>> /\ jobs = {} /\ logCache = <<>>
    /\ flow = <<>> /\ screen = "closed" /\ allLogs = <<>> /\ screens = 0
    /\ failed = FALSE /\ overflowed = FALSE

Elements(entries) == {entries[i] : i \in DOMAIN entries}
reversed(entries) == [i \in 1 .. Len(entries) |-> entries[Len(entries) + 1 - i]]

\* The first entries, as many as the cache may hold.
take(entries) ==
    SubSeq(entries, 1, IF Len(entries) > MAX_CACHE_SIZE THEN MAX_CACHE_SIZE ELSE Len(entries))

\* BufferOverflow.DROP_OLDEST
DropOldest(queue, capacity) == IF Len(queue) > capacity THEN Tail(queue) ELSE queue

----------------------------------------------------------------------------
(* The hooked process                                                      *)

log ==
    /\ logged < MaxEntries
    /\ logged' = logged + 1
    /\ logChannel' = DropOldest(Append(logChannel, logged'), CHANNEL_CAPACITY)
    /\ UNCHANGED <<state, bound, loggerService, callbacks, callback, flush, delivery,
                   repository, view, failed>>

\* Once.  A service that cannot be bound leaves the state as it was.
bindToService ==
    /\ bound = "unasked"
    /\ \/ bound' = "bound" /\ state' = "CONNECTING"
       \/ bound' = "refused" /\ state' = "DISCONNECTED"
    /\ UNCHANGED <<logged, logChannel, loggerService, callbacks, callback, flush, delivery,
                   repository, view, failed>>

\* onServiceConnected and onServiceDisconnected: first the service, then the state.
SetService ==
    /\ callback = "none" /\ callbacks # <<>>
    /\ loggerService' = Head(callbacks)
    /\ callback' = IF Head(callbacks) = Null THEN "DISCONNECTED" ELSE "CONNECTED"
    /\ callbacks' = Tail(callbacks)
    /\ UNCHANGED <<logged, logChannel, state, bound, flush, delivery, repository, view, failed>>

\* Mutant: only the first connection counts.
NewState_FirstOnly ==
    IF callback = "CONNECTED" /\ state # "CONNECTING" THEN state ELSE callback

NewState == callback

SetState ==
    /\ callback # "none"
    /\ state' = NewState
    /\ callback' = "none"
    /\ failed' = (failed /\ (loggerService = Null \/ loggerService # service))
    /\ UNCHANGED <<logged, logChannel, bound, loggerService, callbacks, flush, delivery,
                   repository, view>>

\* Mutant: a service that was asked for counts.
MayFlush_Connecting == state # "DISCONNECTED"

MayFlush == state = "CONNECTED"

BeginFlush ==
    /\ flushing = "delay"
    /\ MayFlush
    /\ flushing' = "receive"
    /\ UNCHANGED <<proxy, batch, delivery, repository, view, failed>>

ReceiveEntry ==
    /\ flushing = "receive"
    /\ Len(batch) < BATCH_SIZE /\ logChannel # <<>>
    /\ batch' = Append(batch, Head(logChannel))
    /\ logChannel' = Tail(logChannel)
    /\ UNCHANGED <<logged, state, bound, loggerService, callbacks, callback, flushing, delivery,
                   repository, view, failed>>

EndReceive ==
    /\ flushing = "receive"
    /\ Len(batch) = BATCH_SIZE \/ logChannel = <<>>
    /\ flushing' = IF batch = <<>> THEN "delay" ELSE "send"
    /\ UNCHANGED <<proxy, batch, delivery, repository, view, failed>>

\* The batch is gone whether or not there is a service, and whether or not it has room.
SendBatch ==
    /\ flushing = "send"
    /\ \/ /\ loggerService # Null /\ loggerService = service /\ Len(wire) < WireCapacity
          /\ wire' = Append(wire, batch)
          /\ UNCHANGED failed
       \/ /\ loggerService = Null \/ loggerService # service
          /\ UNCHANGED <<wire, failed>>
       \/ /\ loggerService = service /\ Len(wire) >= WireCapacity
          /\ failed' = TRUE
          /\ UNCHANGED wire
    /\ batch' = <<>>
    /\ flushing' = "delay"
    /\ UNCHANGED <<proxy, service, services, repository, view>>

----------------------------------------------------------------------------
(* The manager process                                                     *)

\* BIND_AUTO_CREATE: the system starts the service, also after its death.
StartService ==
    /\ bound = "bound" /\ service = Null /\ services < MaxServices
    /\ services' = services + 1
    /\ service' = services + 1
    /\ callbacks' = Append(callbacks, services + 1)
    /\ UNCHANGED <<logged, logChannel, state, bound, loggerService, callback, flush, wire,
                   repository, view, failed>>

\* The process dies with all it holds.
ServiceDies ==
    /\ service # Null /\ services < MaxServices
    /\ service' = Null
    /\ callbacks' = Append(callbacks, Null)
    /\ failed' = TRUE
    /\ wire' = <<>> /\ jobs' = {} /\ logCache' = <<>>
    /\ flow' = <<>> /\ screen' = "closed" /\ allLogs' = <<>>
    /\ UNCHANGED <<logged, logChannel, state, bound, loggerService, callback, flush, services,
                   screens, overflowed>>

logBatch ==
    /\ wire # <<>>
    /\ jobs' = jobs \cup {[entries |-> reversed(Head(wire)), added |-> FALSE]}
    /\ wire' = Tail(wire)
    /\ UNCHANGED <<proxy, flush, service, services, logCache, view, failed>>

\* addLogs: into the cache under its lock, and then to the flow.
AddToCache(job) ==
    /\ job \in jobs /\ ~job.added
    /\ logCache' = take(job.entries \o logCache)
    /\ jobs' = (jobs \ {job}) \cup {[job EXCEPT !.added = TRUE]}
    /\ UNCHANGED <<proxy, flush, delivery, view, failed>>

\* Mutant: the screen does not listen while it clears itself.
Subscribed_WhenOpen == screen = "open"

Subscribed == screen # "closed"

Emit(job) ==
    /\ job \in jobs /\ job.added
    /\ jobs' = jobs \ {job}
    /\ IF Subscribed
       THEN /\ flow' = DropOldest(Append(flow, job.entries), FlowCapacity)
            /\ overflowed' = (overflowed \/ Len(flow) = FlowCapacity)
       ELSE UNCHANGED <<flow, overflowed>>
    /\ UNCHANGED <<proxy, flush, delivery, logCache, screen, allLogs, screens, failed>>

Subscribe ==
    /\ screen = "closed" /\ screens < MaxScreens
    /\ screen' = "subscribed"
    /\ screens' = screens + 1
    /\ UNCHANGED <<proxy, flush, delivery, repository, flow, allLogs, overflowed, failed>>

\* When the screen opens, and when its switch is turned on.
loadLogs ==
    /\ screen = "subscribed" \/ (screen = "open" /\ screens < MaxScreens)
    /\ screen' = "open"
    /\ screens' = IF screen = "open" THEN screens + 1 ELSE screens
    /\ allLogs' = logCache
    /\ overflowed' = FALSE
    /\ UNCHANGED <<proxy, flush, delivery, repository, flow, failed>>

processNewLogs ==
    /\ screen = "open" /\ flow # <<>>
    /\ allLogs' = take(Head(flow) \o allLogs)
    /\ flow' = Tail(flow)
    /\ overflowed' = (overflowed \/ Len(Head(flow) \o allLogs) > MAX_CACHE_SIZE)
    /\ UNCHANGED <<proxy, flush, delivery, repository, screen, screens, failed>>

clearLogs ==
    /\ screen = "open" /\ screens < MaxScreens
    /\ logCache' = <<>>
    /\ screen' = "clearing"
    /\ screens' = screens + 1
    /\ UNCHANGED <<proxy, flush, delivery, jobs, flow, allLogs, overflowed, failed>>

ClearScreen ==
    /\ screen = "clearing"
    /\ allLogs' = <<>>
    /\ screen' = "open"
    /\ UNCHANGED <<proxy, flush, delivery, repository, flow, screens, overflowed, failed>>

CloseScreen ==
    /\ screen = "open"
    /\ screen' = "closed"
    /\ flow' = <<>> /\ allLogs' = <<>>
    /\ UNCHANGED <<proxy, flush, delivery, repository, screens, overflowed, failed>>

flushQueue == BeginFlush \/ ReceiveEntry \/ EndReceive \/ SendBatch
Connection == SetService \/ SetState
addLogs == \E job \in jobs : AddToCache(job) \/ Emit(job)
Screen == Subscribe \/ loadLogs \/ processNewLogs \/ clearLogs \/ ClearScreen \/ CloseScreen

Next ==
    \/ log \/ bindToService \/ Connection \/ flushQueue
    \/ StartService \/ ServiceDies \/ logBatch \/ addLogs
    \/ Screen

(* The loop flushes every second, the main thread and the binder threads   *)
(* run, coroutines are resumed, and a bound service is started again.      *)
Spec ==
    /\ Init /\ [][Next]_vars
    /\ WF_vars(bindToService) /\ WF_vars(Connection) /\ WF_vars(flushQueue)
    /\ WF_vars(StartService) /\ WF_vars(logBatch) /\ WF_vars(addLogs)

----------------------------------------------------------------------------

Job == [entries : Seq(Entries), added : BOOLEAN]

TypeOK ==
    /\ logged \in 0 .. MaxEntries /\ logChannel \in Seq(Entries)
    /\ state \in {"DISCONNECTED", "CONNECTING", "CONNECTED"}
    /\ bound \in {"unasked", "bound", "refused"}
    /\ loggerService \in Services \cup {Null} /\ callbacks \in Seq(Services \cup {Null})
    /\ callback \in {"none", "DISCONNECTED", "CONNECTED"}
    /\ flushing \in {"delay", "receive", "send"} /\ batch \in Seq(Entries)
    /\ service \in Services \cup {Null} /\ services \in 0 .. MaxServices
    /\ wire \in Seq(Seq(Entries)) /\ jobs \subseteq Job /\ logCache \in Seq(Entries)
    /\ flow \in Seq(Seq(Entries)) /\ allLogs \in Seq(Entries)
    /\ screen \in {"closed", "subscribed", "open", "clearing"}
    /\ screens \in 0 .. MaxScreens
    /\ failed \in BOOLEAN /\ overflowed \in BOOLEAN

Waiting ==
    Elements(logChannel) \cup Elements(batch)
        \cup (UNION {Elements(sent) : sent \in Elements(wire)})
        \cup (UNION {Elements(job.entries) : job \in {j \in jobs : ~j.added}})

LossyLog == INSTANCE LossyLog WITH waiting <- Waiting, stored <- logCache

\* No entry reaches the cache twice or out of the order of its batch, and without an overflow an
\* entry is lost only between a failure of the connection and the callback that ends it: nothing
\* is taken from the channel for a service that was never there.
LogSpec == LossyLog!Spec

\* What was logged does not stay on its way: it is stored, lost or pushed out, also when the service
\* dies and comes back, unless bindService was refused, which is never repeated.
NothingWaits ==
    \A entry \in Entries : entry \in Waiting ~> (entry \notin Waiting \/ bound = "refused")

\* Every entry of the cache is on the open screen or on its way there, although the screen subscribes
\* and loads while batches arrive, as long as it has neither missed a list nor cut its own since.
ScreenIsComplete ==
    screen = "open" =>
        \/ Elements(logCache) \subseteq
              Elements(allLogs) \cup (UNION {Elements(list) : list \in Elements(flow)})
                  \cup (UNION {Elements(job.entries) : job \in {j \in jobs : j.added}})
        \/ overflowed
=============================================================================
