# AdClose in TLA+

AdClose is an LSPosed (Xposed) module that blocks requests of Android apps. Its
code runs in three kinds of process:

- the **manager app**: user interface, database of rules and requests, settings,
  subscriptions to rule lists;
- every **hooked app**: the hooks, the rule cache they ask, and a native
  library that watches TLS connections;
- **system_server**: a small daemon for package visibility.

The modules here model the parts whose correctness depends on the order in
which threads and processes take their steps. TLC checks them on small
instances; TLAPS proves the theorems for every value of the constants.
Paths below are relative to
`src/app/src/main/java/com/close/hook/ads/` unless they start with `cpp/`
(`src/app/src/main/cpp/`).

## 1. Inventory

| Component | State | Operations | Talks to | Hard behaviour |
|---|---|---|---|---|
| Rule cache (`data/repository/RuleRepository.kt`) | `snapshot`, `dirty`, `refreshing`, `lastRefreshAt`, `initialLoadComplete`, one-thread executor | `init`, `onChange`, `shouldBlock`, `scheduleRefresh`, `doRefresh` | the content provider by query and by notification | notification against a running load, a failing or null query, the first request before the first load |
| Rule tables (`provider/UrlContentProvider.kt`, `data/DataSource.kt`) | `url_info`, `subscription_rule` | query, insert, update, delete, `notifyChange` | all hooked processes | two queries outside a transaction; edits without notification; death between commit and notification |
| Configuration files (`preference/HookPrefs.kt`, 279-424) | `<file>`, `<file>.tmp`, `<file>.commit` | `writeTextToFile`, `deleteConfigFile`, `readAllTextFromFile` | the module service's remote files; hooked processes read | a write cut short at any call; readers that list, then open |
| Settings (`HookPrefs.kt`, 66-210; `manager/ServiceManager.kt`) | `generalSettingsCache`, `cacheLock`, queue of `ioScope`, connection state | getters, `updateSetting`, `invalidateCaches`, bind, death | configuration files | the launch of the write outside the lock; the cache across a death of the service |
| Custom hooks (`HookPrefs.kt`, 213-266; `CustomHookRepository.kt`, `CustomHookViewModel.kt`, `hook/shield/CustomHook.kt`) | cache per package, delayed save, global switch | load, edit, import, save | configuration files | two caches of one list, cleared at different times |
| HTTP/2 parser and SSL hooks (`cpp/http2_parser.cpp`, `cpp/native_hook.cpp`) | table of streams, early checks, completed exchanges, pending RST frames, two HPACK inflaters | `h2_feed`, `process_frame`, `evict_completed_streams`, `h2_block_stream`, `h2_enqueue_rst_stream`, `h2_take_rst_frames` | SSL, the Kotlin side for verdicts | two threads on one table; results taken by the other thread; the stream changes while Kotlin decides |
| Subscriptions (`data/repository/SubscriptionRepository.kt`, `SubscriptionFetcher.kt`, DAOs) | the row of a source (lease, validator), its rules | `runRefresh`, toggle, edit, delete | server, tables, hooked processes | overlapping refreshes, a lease outlived, rows written back from an old copy, deletion during a refresh, cancellation |
| Rule matching (`data/RuleSnapshot.kt`) | none (immutable) | match of a URL | rule cache | suffix and keyword order |
| HTTP/1 and DNS hook (`hook/network/RequestHook.kt`) | under a key per connection: two buffers, two parsing states, the pending request; the requests already reported | `processRequestBuffer`, `processResponseBuffer`, `checkShouldBlockRequest`, `completeAndDispatchRequest` | rule cache, request list | messages split over writes and reads; the mark `isIgnored` outlives its request; keep-alive; a key that is used again |
| Hook installation (`RequestHookHandler.kt`, `NativeRequestHook.kt`) | the native layer's limit on buffers, the clean-up at close; tables of HTTP/2 bodies | hooks of sockets and Conscrypt; `processTcpData`, `processSSLData`, `onConnectionClosed` | HTTP/1 hook, native hook | a refused write in two layers that clean up differently; a close against a write |
| Log proxy (`hook/util/LogProxy.kt`, `service/LogService.kt`, `data/repository/LogRepository.kt`, `ui/viewmodel/LogViewModel.kt`) | channel, state of the connection, the service; cache, flow, the list on the screen | `log`, `flushQueue`, `ServiceConnection` callbacks; `logBatch`, `addLogs`, load and clear | manager by oneway binder calls | a full channel, a full binder, a dead service during a flush; a batch between cache and flow while a screen opens |
| Visibility daemon (`hook/system/PackageVisibilityHandler.kt`) | found instance, receiver, cache of settings, last state applied, callers in force | register, find, read, publish, wait | package manager, the manager's broadcast | lost wake-ups; settings read while they change |
| DexKit bridge (`DexKitUtil.kt`) | reference count, delayed release, cached results | use, release | hooks | release against a new use |
| Context callbacks (`ContextUtil.kt`) | flag and list | register, fire | hooks | none: the one callback is registered before the first context exists |
| Hook entry (`HookLogic.kt`, `LibXposedEntry.kt`) | none | start-up in a fixed order | all hooks | - |
| Screens and view models | Room flows, dialogs | edits | rule tables, settings | edits from an old copy |
| SDK hooks, parser of lists, schema, file helpers, vendored nghttp2 and ShadowHook | none of their own | - | - | - |

`PROJECT.json` has every component with its status and reason, and under
`hazards` every place where one of the hard behaviours bites, with the
properties that watch it.

What makes each modelled component correct:

- *Rule cache*: loads do not overlap and none is lost with its flag left set; an
  edit that was notified is not forgotten; a request is not matched before the
  first load unless something went wrong; `shouldBlock` returns; every edit is
  served in the end.
- *Configuration files*: readers and crashes see the old or the new text; a
  marker never outlives its write; one crash is harmless.
- *Settings*: cache and disk agree on the latest update; no write drops a setting,
  unless it is based on a read that failed.
- *HTTP/2*: a denied stream is reset and its response is not reported; the reset
  follows the headers; every exchange is reported; the HPACK state stays in step.
- *Subscriptions*: one refresh at a time; leases end; the validator fits the
  rules; a deleted source leaves nothing; rules do not go back.
- *DexKit bridge*: never closed while in use; closed in the end when nobody uses
  it; its cached results go with it.
- *HTTP/1*: a request that the rules block reaches no server; nothing else is
  refused; a request is reported once, with its own answer up to its end; no whole message stays in a buffer.
- *Log*: an entry is stored at most once, lost only while the connection has
  failed, and does not stay on its way; an open screen shows what the cache has.
- *Visibility daemon*: the callers in force belong to one state of the settings;
  a change takes effect although its broadcast may be missed.

## 2. Modules

| Module | Models | Extends / instantiates |
|---|---|---|
| `RuleCache` | abstract: a snapshot that moves forward or is emptied | |
| `RuleRefresh` | the rule cache's threads and the manager's edits | `RuleCache` by refinement |
| `ConfigRegister` | abstract: a register changed in one step | |
| `CommitFile` | one configuration file, call by call | `ConfigRegister` by refinement |
| `SettingsStore` | settings cache, lock, write queue, service | takes the file to be the register that `CommitFile` is shown to be |
| `Http2Conn` | one HTTP/2 connection under `SSL_write` and `SSL_read` | |
| `Subscription` | one source: lease, rules, jobs, screen | `Notify` is where `RuleRefresh.NotifyChange` goes on |
| `DexKitBridge` | the shared DexKit bridge, its count, its release jobs, its results | |
| `Http1Conn` | HTTP/1 connections under one key, in the native and in the java layer | |
| `LossyLog` | abstract: entries that wait, are stored in batches, or are lost | |
| `LogProxy` | the way of a log entry from `trySend` to the screen | `LossyLog` by refinement |
| `VisibilityDaemon` | the daemon's rounds, the settings' writer and its broadcast | takes the settings file to be the register of `CommitFile`, written in the order of `SettingsStore` |
| `MC*` | symmetry sets for TLC | |
| `*Proofs` | theorems and proofs | the module they are named after; `CacheProofs` is about `RuleRefresh` and `DexKitBridge` |

### RuleRefresh

Variables keep the source's names: `dirty`, `refreshing` are the AtomicBooleans,
`loaded` is `initialLoadComplete`, `aged` says that `MIN_REFRESH_INTERVAL_MS`
have passed since `lastRefreshAt`, `queued` and `wpc` are the executor's queue
and its thread, `cpc` the request threads. The contents of a table are a version
that every edit increments; version -1 stands for "no rules". One action stands for each
access to shared state: `ScheduleRefresh` is the compareAndSet and the task it submits,
`ClearDirty` ... `CountDown` are `doRefresh` with its success, failure and
`finally` parts in the order of the code. The two queries of the provider are two
steps because they are in no transaction. `NullCursor` is the path on which
`query` returns null and `loadAllRules` returns an empty list as if it had
succeeded.

Edits come in two kinds, as in the code: through the content provider, a refresh
or the deletion of a source (commit, then `notifyChange`; the process may die between
the two), and through `DataSource` or the switch of a subscription, which
notify nobody and are found by the poll in `shouldBlock` only.

Assumed from the code around it: `init` ends before a request can be
hooked (`HookLogic.applySettings`, 112-122), hence `appContext` is never null in
a load; the observer is one binder object with one-way calls, hence `onChange`
calls come one at a time; the wall clock does not go back. `forceRefresh` has no
caller and does what `onChange` does.

### CommitFile and ConfigRegister

`disk` has the three files. Opening with truncation and writing are separate
steps, so that a file is `Torn` in between; `InterruptWrite` may strike at every
step of a write (an exception, the death of the manager, a stale marker that cannot be deleted).
A text is the number of its write. A reader lists and then
opens; in the manager, opening a file that has gone creates a blank one. Not modelled: a
final deletion that fails without an exception, a writer for whom `listRemoteFiles`
returns null, and the reader's open and read as two steps.

`ConfigRegister` is the promise: a value that an operation changes in one step,
an interrupted write leaves the old or the new value, and only after an
interruption may a later write expose some other content before it commits. The refinement
mapping takes the value to be what a reader would resolve to at that moment.

### SettingsStore

A value is the number of the update that set it. `pc` follows a thread through
`getSettingsJson` (take the lock, read the file, fill the cache) and
`updateSetting` (take the lock, take the cache or the file as baseline,
transform and publish, release, launch the write). A read (`ReadFile`) may fail at any time, with the
service there or not: `readSettingsFromFile` then gives an empty object or null, which becomes an empty
object (99, 112), and the model, like the code, fills the cache with it and bases updates on it.
`blind` says that the last read failed although the service was there (a read without the service
is made good by `InvalidateCaches`); it is history, as are `settled` (every update was made with
the service there, after its invalidation, and on no `blind` read), `raced` and `latest`. `Persist` is one task of
`ioScope`; `Bind` and `InvalidateCaches` are two steps of `onServiceBind`;
`ServiceDies` leaves the caches as they are. Not modelled: the flow that screens
observe, the broadcast, the connect timeout, the custom hooks in the same object.

### Http2Conn

The unit is the frame. Two threads, writer and reader, each run `h2_feed` frame
by frame under `streams_mutex` (`process_frame`), take all waiting results of both directions
(`TakeResults`), ask for verdicts outside the mutex (`EarlyVerdict`,
`ReportVerdict`), queue resets and mark streams; the writer then takes the queued
RST frames, writes the application's bytes and then the resets. `peer` is what
application and server may legally send next. `AcceptFrame`, `IgnoreFrame` and
`ResetFrame` are the branches of `process_frame`; `CloseBlock` is
`process_headers` with its erasure of a finished stream, after which the code
still writes to the erased entry (that does no harm or takes the process down: `alive`).
`inStep` records whether the inflater of a direction has been given every header block, whole.

The server may send a PUSH_PROMISE (`PromiseFrame`): the parser looks its stream up and does no more, so the
block never reaches the inflater although its peer's table has moved on. `InflatersInStep` names it, and the run
`Http2Stream` has it together with every other kind of frame; the other three properties of that run hold with it.

Not modelled: the frames that the server then sends on the stream it promised (no stream of the
model is the server's own), PRIORITY (it only stamps the entry of a stream), the connection preface and the table of connections, padding,
bodies (`data_chunks`) and `feedH2Data`, frames cut across calls, partial
`SSL_write`s, and eviction of connections. One writer and one reader thread use
an `SSL`, as OpenSSL demands; a refused write is repeated with the same bytes.
`evictions` counts runs that removed a stream; a run that finds nothing is no step of its own.

### Subscription

A DAO call is one SQLite statement and `withTransaction` one transaction: a step
each. The server's list is a version; a validator is the version it came with.
`Cancel` may strike at every step and leaves the lease. `updateSource` writes
the whole row from the copy on the screen, whatever its age. Not
modelled: when a source is due (a job may start at any time), edits of the URL,
more than one source (the statements name one id).

### DexKitBridge

`DexKitInit`, `DexKitNext` and so on carry the module's name, so that `CacheProofs` can extend it
beside `RuleRefresh`. A synchronized block is one step; `releaseUsage` is two, because the count goes
down before the lock is taken for `scheduleRelease`. A bridge is the number of its creation, a cached
result the number of the bridge it came from. A release job is cancelled while
it waits (`delay`), but not any more once its delay is over (`due`): it then
enters `releaseBridge` all the same, and may close an unused bridge earlier than
3 s after its last use, though never under a user. Between `releaseBridge` and
the end of its coroutine (`leaving`) it still counts as active. Guava stores
a result that was being loaded even if the cache was cleared meanwhile; that does no harm
because every caller of `getCachedOrFindMethods` (in `StringFinderKit`,
`SDKAdsKit`) calls it inside `withBridge`, and so keeps the bridge open until its load
has ended. Not modelled: expiry, eviction and soft values of the cache, and a native library that
is not loaded (`withBridge` then does nothing).

### Http1Conn

One key of `RequestHook`'s tables, in one of two layers that the initial state
chooses: *native* (`NativeRequestHook` under `send`, `recv` and `close`; the key is a
descriptor and serves the next connection again) and *java* (the socket and
Conscrypt hooks; the key is an object that ends with its connection). The bytes
of a message are its parts: start and end of a request's head, its body or its chunks; head and
body of a response. A write or read carries some of them, cut
anywhere between parts, and the parsing functions (`processRequestBuffer`,
`processResponseBuffer`) are operators over the buffer as it is with the new parts.
`requestState`, `responseState` and `pendingRequest` have the source's fields, a `contentLength` that
begins as -1 and may be negative included (`toIntOrNull`, 492-499); `sentRequests` and `replied` are the keys of
`sentRequestsCache` with the values false and true. The native
write hook reads the pending request, processes the bytes, puts it back and announces it (`Announce`), at every write: `pc`
is "get" and "put" in between, where a close may come. A record of `sentRequestsCache` may be lost
(`Forget`: ten minutes, five thousand entries); one that nothing looks for any more is not forgotten.
Both layers clean up at a close (`RequestHookHandler.kt`, 207-216, 316-333; `onConnectionClosed`), and neither resets
the parsing states. They differ in that only the
native one bounds its buffers and is given the same key again, and only
in the java one does a refused request stay pending.

The application, the wire and the server are external. The application sends
requests one after the other, but may pipeline them, stop in the middle, repeat what a call did not
take (`send` and `ConscryptEngine.wrap` may take less than they are given), or write past the hook. Its heads
give the length of the body, or not: a body without one is chunked, and stays in the buffer in front of the next head
because the code gives it the length 0; wrong and negative lengths are modelled too. The server answers in order, may send an interim
answer or answer before the body is there, and may send an answer whose head does not give its
length: of a body that ends with the connection, of a body that is not sent (HEAD, 304), or a negative one.
Every departure from "one message after the other" is noted in `quirks` and counted in `faults`; the properties
name the quirks after which the code does not keep its promise:

| Quirk | What has happened |
|---|---|
| `pipelined` | a request begins before the exchange before is over |
| `unframed` | a head that does not give the length of its body: chunked, wrong or negative |
| `repeated` | a call takes less than it was given, so the hook sees the rest twice |
| `unseen` | bytes past the hook, or a buffer emptied at its limit |
| `cut`, `raced` | a close in the middle of a message; a close against a write or a read |
| `idle` | an entry expires that was in use |
| `forgotten` | a record of `sentRequestsCache` is lost while its request is pending |
| `stopped`, `skipped` | a mark `isIgnored` was set by a refused request; by one with a body that is not collected |
| `early`, `interim`, `unsized` | an answer before the end of the request; after an interim one; without a length |

This is the place to read which orders of calls the parser is right for, and which not.

Not modelled: CONNECT (its head is cut out without being judged), a response whose head was garbled by a
negative length before it (the code would report status -1), the arithmetic of chunks (a chunked body is one
part and, in a response, counts as one whose length is known), the DNS hook and changes of the rules.

### LogProxy and LossyLog

Each access to shared state is a step: `log` (`trySend` with `DROP_OLDEST`), the
two assignments of each `ServiceConnection` callback (`SetService`, `SetState`), the flush
loop (`BeginFlush`, `ReceiveEntry`, `EndReceive`, `SendBatch`), the service
(`StartService`, `ServiceDies`, `logBatch`), the two halves of `addLogs` (cache
under its lock, then the shared flow), and the screen. A service is the number of its start,
an entry the number of its `trySend`. The death of the service takes the wire,
the jobs, the cache and the screen with it. `failed` is history: the connection
was broken and the callback that restores it has not run.

`LossyLog` is the promise: every entry is stored at most once, newest first
within its batch; it may be pushed out by newer entries when the channel or the store is
full, or by the user, and is lost otherwise only while the connection has
failed. `CHANNEL_CAPACITY` in it is a lower bound on what may wait: a step that
drops an entry must find that many waiting.

### VisibilityDaemon

`pc` follows a round of the daemon: register the receiver, find and hook
`AppsFilter`, read the settings, publish the two fields one after the other,
wait. Both waits have a time limit in the code, so every wait may end at any time (`signals`
end it early). `OnReceive` wakes only who is waiting. The settings' writer is the manager's: `Store`, then
`SendBroadcast` or `NoBroadcast`. `history` holds every settings there ever were, `missed` says
that since the last read a broadcast found nobody waiting, was never sent, or a read failed.

## 3. Runs

| Run | Instance | Distinct states | Question |
|---|---|---|---|
| `RuleRefreshSafety` | 2 request threads, 1 edit per table, 2 faults | 2.6 M | single flight, no notified edit forgotten, no match before a load, refinement of `RuleCache` |
| `RuleRefreshLiveness` | 1 request thread, 1 edit per table, 1 fault, fairness | 0.2 M | calls return, edits are served |
| `CommitFile` | 1 reader in the manager, 1 in a hooked process, 3 writes, 3 interruptions | 2.0 M | marker discipline, one crash is safe, reads are current, refinement of `ConfigRegister` |
| `CommitFileReaders` | the same readers, 1 write, no interruption | - | violation: see section 5 |
| `SettingsStore` | 2 settings, 2 threads, 4 updates, 1 outage, 1 failed write, any failed reads | 0.3 M (symmetric) | cache and disk agree, nothing is wiped |
| `Http2Stream` | 1 stream, all frame kinds, split header blocks, 1 promise, eviction or refused write | 1.9 M | resets follow headers, denials are kept, denied requests are not reported, inflaters in step |
| `Http2Streams` | 2 streams, HEADERS (trailers too) and DATA, 1 frame in flight to the reader | 2.0 M (symmetric) | verdict before response, denied requests not reported, finished exchanges reported |
| `Subscription` | 2 jobs, lease 1, clock 2, 2 versions | 2.1 M | exclusion, leases end, validators, deletion, order of rules |
| `DexKitBridge` | 3 threads, 2 keys, 4 release jobs, 4 bridges | 0.2 M (symmetric) | no use after release, no result without its bridge, no bridge forgotten |
| `Http1Conn` | 2 requests, 4 parts of buffer, up to 3 parts in a write or read, 2 unusual events | 4.1 M | denied requests stopped, others not, answers fit, one report each, no whole message stays |
| `LogProxy` | channel 2, batch 2, binder 1, cache 2, flow 1; 3 entries, 3 services, 3 uses of the screen; fairness | 0.1 M | refinement of `LossyLog`, no entry waits forever, the screen shows the cache |
| `VisibilityDaemon` | 2 packages, 1 of them sees all, 2 changes, 2 faults; fairness | 1.0 M | callers of one state, a waiting daemon is up to date, changes take effect |

Why the bounds are enough. *RuleRefresh*: a forgotten edit needs one edit, one
load and one notification; two threads race for the compareAndSet; two faults
let a first load fail and a later one too, once by null and once by exception.
*CommitFile*: the old text, a text cut short and one that follows it are
three; harm takes two interruptions, the third shows that more change nothing.
*Settings*: two keys are needed to drop one, two threads to overtake, any number of reads may fail, four
updates (the first is the state saved earlier) to have a third after an overtaking.
*Http2*: with one stream every order of the two directions' frames (two of promises, evictions and refused
writes in one behaviour passed once as well, 8.2 M states); with two,
results of one stream in the hands of the thread that serves the other. Batches
of two frames put the results of one call behind another frame; with two streams only the writer has
them (two in flight to the reader passed once as well, 4.9 M states). A second stream is not a luxury:
`DeniedIsNotReported` without its condition on trailers holds with one stream and
fails with two, where the reader can hold the verdict on the trailers while the writer's is passed. *Subscription*:
two jobs race for a lease; the clock passes its end once while it is held and
once more after; two versions distinguish old from new. *DexKitBridge*: three threads let one
leave, one schedule and one come in; of four jobs one may be due though cancelled,
one leaving and one scheduled, and every bridge but the first follows a release.
*Http1Conn*: two requests let a mark, a buffer or a pending request of one reach the
other; a buffer of four parts does not hold both; three parts are a whole request;
two unusual events are enough for one to prepare what the other spoils; the lengths -3, -1, 0 and 1 end
before the head, inside it, with it and after the body.
*LogProxy*: three entries overflow a channel and a cache of two; a service that dies twice covers a death
before and after its callbacks; four entries with two services and two screens passed once
as well (0.4 M states). *VisibilityDaemon*: two changes make a state between the one applied
and the one stored; three changes and three faults passed once as well (6.9 M states).

Every module's type invariant is a theorem and in no run.

Deadlock is checked except in the runs of `Http2Conn`, `SettingsStore`,
`DexKitBridge`, `Http1Conn` and `LogProxy`, where the peers have said all, the bounded updates are done,
the bounded release jobs are used up, the requests are made, and the entries are delivered. Every property has a mutant
in `PROJECT.json`: the same definition with a plausible mistake (written next to it and
marked "Mutant") under which TLC finds the property violated.

### Fairness

Three runs assume some. `RuleRefreshLiveness`: weak fairness of the thread that runs
`init`, of the second half of an `onChange` that has begun, of the executor's
thread, of each request thread inside a call, and of the passing of time. Each
of these is a runnable thread that blocks at most on the latch. Not assumed: that requests are
made, that a thread is interrupted, that a notification arrives, that edits happen, or
that a load succeeds. `CallsReturn` therefore holds because the `finally` block
counts the latch down although every load may fail. `CatchesUp` is conditional on
requests that keep coming, because the poll is driven by `shouldBlock`; it covers edits whose
notification was never sent or was lost.

`VisibilityDaemon`: weak fairness of the daemon's round, a thread of system_server whose
waits both have a time limit. Not assumed: that broadcasts are sent or
arrive. `SettingsTakeEffect` therefore rests on the time limit alone: that is why
the code may miss a broadcast.

`LogProxy`: weak fairness of `bindService`, of the main thread's callbacks, of the flush
loop (a coroutine that wakes every second), of the binder's and the
dispatcher's threads in the manager, and of `StartService`, because
`BIND_AUTO_CREATE` makes the system start a bound service again. The last service that the
bound `MaxServices` admits does not die. Not assumed: that anything is logged, or that a screen opens.
`NothingWaits` is conditional on `bindService` not being refused: the code asks once and never again.

## 4. Proofs

Each proof module gives an inductive invariant (`IInv`, or several that rest on one another), shows
that it holds initially and is preserved action by action, and derives
the theorems. TLC checked each on the run's instance before it was proved. All bounds
are parameters of the theorems: any number of threads, requests, streams, faults and any sizes of buffers.

- `CacheProofs` on `RuleRefresh`: `TypeCorrect`, `LoadsAreSingleFlight`,
  `NoToldEditIsLost`, `NoMatchBeforeLoad`, `ImplementsCache`. `SingleFlight` is
  in the invariant because a second load in flight could publish over the
  first. `NotAhead` and `RowsFresh` order the versions: seen by the observer, read by the
  load, served, committed; without them `ToldEditIsCovered` is not inductive, since
  `Publish` must know that what was read is no older than what was told.
- `CommitFileProofs`: `TypeCorrect`, `MarkerMeansComplete`,
  `SafeAfterOneInterruption`, `ReadsAreCurrent`, `ImplementsRegister`. The invariant says at which
  step of the write which file is whole (`WriteProgress`), that a torn main
  file has a marked whole temporary one or has seen two interruptions
  (`TornMain`, `MarkedIsComplete`), and that no marker is left after an uninterrupted operation.
  `ReadersInv` is about the readers between listing and reading: without an interruption the file a
  reader chose holds, when it is complete, a text no older than the one in force at the listing
  (`ChosenIsCurrent`), since any write that touches it is a later one (`NothingFromTheFuture`).
- `SettingsStoreProofs`: `TypeCorrect`, `CacheKnowsAll`, `DiskGetsAll`,
  `NoWriteWipes`. `KnowsLatest` says that without a cache the disk is up to date and no write is
  on its way, so that whoever fills the cache under the lock reads the newest version;
  `AllWhole` that every version under way has all the settings; `NewestLast` that the last
  queued or launching version is the newest if none was overtaken. Reads that fail are in every one of these parts:
  a cache filled by one with the service there (`blind`) holds nothing, and what is based on it ends `settled`.
- `SubscriptionProofs`: `TypeCorrect`, `RefreshesExclude`, `EveryLeaseEnds`,
  `ValidatorFitsRules`, `NotModifiedIsTrue`, `DeletionIsFinal`,
  `RulesNeverGoBack`. `LeaseHeld` ties the lease in the row to the one job that
  holds it, `JobKnows` what a job carries to what is stored.
- `CacheProofs` on `DexKitBridge`: `DexKitTypeCorrect`, `UsersHaveTheBridge`,
  `ResultsDieWithBridge`, `NoBridgeIsForgotten`. `CountIsRight` says that the
  count is the number of users at every step, `ScheduledIsIdle` that a job is
  remembered only while nobody uses the bridge and it has yet to look at it: so a
  thread that finds an active job may rely on it.
- `VisibilityDaemonProofs`: `TypeCorrect`, `NoMixedCallers`, `WaitingIsUpToDate`.
  `LastIsPublished` says that the state the next round compares with is the one in force, `KnownSettings`
  that whatever was read was stored once, `ReadIsCurrent` that what was
  read is still stored, or a broadcast is coming or was missed, `RoundIsApplied`
  carries that over the steps from the read to the wait.
- `LogProxyProofs`: `TypeCorrect`, `NothingMissesTheScreen`, `ImplementsLossyLog`, for any capacities.
  - `ScreenInv`: what the cache has is on the open screen, in the flow, or in the hands of a coroutine
    that will emit it; while the screen is being cleared, what came into the cache since is still on its way.
  - `ConnectionInv`: unless the connection has failed, the proxy has the present service or has not begun
    to flush. Without it `SendBatch` could lose entries that `LossyLog` lets be lost only after a failure.
  - `OrderInv`: every entry waits in one place, and the places are ordered by the time of logging: so
    an overflow of the channel takes one entry that waits, and no other, and what a coroutine stores is
    a set of waiting entries, newest first.

  The refinement maps an entry to waiting, stored or lost: logging, the overflow of the channel, a batch that is stored and a
  failure are steps of `LossyLog`, every other step leaves it alone.
- `Http2ConnProofs`: `TypeCorrect`, `ResetsFollowHeaders`, `NoDenialIsLost`,
  `VerdictsComeFirst`, `DeniedStaysUnreported`, `InflatersStayInStep`, `FinishedAreReported`, for any number of streams, frames,
  evictions and refused writes. The invariant has these parts:
  - `OnlyHeard`: every stream about which a result is queued or in a thread's
    hands, or whose reset is pending, has its headers on the wire or in the write in progress; so
    the resets that go out after the bytes follow their headers, also those the reader queued.
  - `LocalResets`, `DenialIsNotLost`: whatever verdict denied a stream, its reset is in one of four places.
  - `ThreadsInStep`: a writer that has left `h2_feed` has taken all early checks, and holds none when it writes.
  - `VerdictsInTime`: hence a stream on the wire has its verdict or is in the
    reader's hands, and the reader decides before it feeds again. Its part
    `FirstBlockAhead` says what the bytes of a stream nobody asked about look like: the end of its first
    header block is still to be fed. Without it a stream could go out unasked.
  - `ResetsShow`, `DenialsHold`: a denied stream keeps its entry, unanswered, until it is
    marked. While the writer is about to mark it the server has not seen it;
    while the reader is, the reader feeds nothing.
  - `ReaderRests`, `MarksFollow`: the reader takes its results when it has fed all its bytes; a stream is
    marked only when its reset is under way, so a connection without resets has skipped no frame.
  - `BlocksWhole`: seen from a thread, the frames to come are the rest of its bytes and what is in flight
    (`Upcoming`, `Left`). In an undisturbed connection (no promise, eviction, denial, reset, refusal or trailers) they continue the block that is open,
    no block is interrupted, and responses follow requests: so when a block ends, its buffer holds the fragments of
    this direction and the inflater is fed all of it. That `InflatersInStep` holds now says nothing of the frames
    under way, so it is not inductive by itself.
  - `FinishInv`: for a stream left alone, each direction's headers and end have been fed or are among
    the frames to come, in the order in which the peer sent them (`Following`); hence the frame that completes it, and reports it,
    is still to come as long as it is in the table.
- `Http1ConnProofs`: `TypeCorrect`, `OnlyTheUnfinishedStay`, `TheDeniedAreStopped`, `TheInnocentPass`,
  `NothingIsReportedTwice`, `AnswersAreMatched`, for any number of requests, sizes of buffers and writes and
  any number of unusual events. Each property lists events after which it need not hold; each invariant is
  stated for the behaviours without the events it cannot bear.
  - `HookStates` (every behaviour): a native write in progress has parts in hand, a mark `isIgnored` implies a parsed head,
    without collecting bodies a parsed response head implies the mark, and what stays in the request buffer after
    a parsed head is less than the message (`OnlyUnfinishedStays`, which holds after every event because every write that completes a message cuts it).
  - `OneAtATime` (nothing pipelined, unframed, repeated, unseen or raced): the parts of the current request lie in order in what
    the server has, what a write has in hand and what the application has still to write; the server has at most
    this request, and an answer is on its way only when the head has gone out; heads give the true length (`TrueSizes`).
  - `OnceInv`: a head that was announced is not in the buffer again, but for the one that waits
    for its body (`HeldHead`), and whatever is pending was announced and has its record, so that the announcements of later writes are silent. An early answer makes `FreshState` of that
    state and the head is read again, which is why `ReportedOnce` names it.
  - `QuietInv` (also nothing cut off or expired): the buffer is the beginning of the current request or is ignored (`Framed`), and
    a blocked pending request is the current one with its write under way (`Judged`): so only denied writes are refused.
  - `PassedInv` (also no mark ever set): a whole head in the hands of a native write has been judged and is not denied.
  - `AnswersInv`: while an answer is to come its request is pending (`Expected`), and the response buffer and
    the wire hold one answer in order, the last part of which ends it (`AnswerInOrder`), or the response side is ignored.

Assumptions on constants are the ones the modules state: bounds are natural
numbers, a lease is longer than 0, the two kinds of readers are disjoint, and
`"free"` and `"none"` name no thread or job. The sets of threads, readers, jobs and
keys are arbitrary, also infinite, except that finitely many threads use the DexKit bridge.

Only model-checked: the liveness properties `CallsReturn`,
`CatchesUp`, `NothingWaits` and `SettingsTakeEffect` (liveness under
fairness is out of the prover's reach, as is ENABLED). Every safety property, action property and refinement
of the passing runs is a theorem. Nothing is proved of recursive definitions, and no
module with a theorem uses one.

## 5. Finding

`CommitFileReaders` is a violation run. The comment at `HookPrefs.kt:359` says
"Readers prefer that temp file while the marker exists". `readAllTextFromFile` lists the
files first and opens the one it chose afterwards (296-316): a reader that listed before the
marker was created opens the main file while it is being rewritten and the
marker exists. What it then gets may be a partial text. The other properties of `CommitFile`
say what remains true: a complete text that it gets is not older than its listing
(`ReadIsCurrent`).

Conditions that properties carry, because the code does not give more:
`OneRefreshAtATime` and its companions hold until a lease is outlived by its job or put
back by an update from an old row; `DiskCatchesUp` holds unless two threads
launch their writes in the other order than they made their versions, a write failed, or an update was
based on a read that failed (it then writes one key over all settings, which `NothingIsWiped` names too);
`DenialIsNotLost` unless SSL refuses a write; `InflatersInStep` until a denied or
evicted stream's header blocks or a promise's are skipped; `DeniedIsNotReported` unless the stream was evicted or
reset by a peer or the application sent trailers, which the parser takes for a second
request and asks about anew; `VerdictBeforeResponse` until an eviction. Each
property of `Http1Conn` but `OnlyUnfinishedStays` lists the events after which it need not hold: the mark `isIgnored`
that outlives its request (`RequestHook.kt:313`), requests that share a write, chunked requests (234), bytes the hook
does not see or sees twice, a close in the middle of a message, interim answers and answers without a length, refused writes,
a record that is lost while its request is pending (53-57). `NothingWaits` needs
`bindService` to succeed the one time it is called.

## 6. Not modelled

*By far the largest part of the C code is nghttp2, vendored* (header compression, frames,
sessions; the app uses its inflater only). Its behaviour is the external inflater of `Http2Conn`
(`inStep`). Of AdClose's own code:

- pure text and string code: rule matching, the list parser, URL and body
  formatting, chunk arithmetic (a body of chunks is one part of a message; the overflow near 2^31 is listed as a hazard);
- Android reflection and framework hooks, the anti-detection and SDK hooks, WebView and Cronet: they install and keep no state;
- SQL and migrations, views and dialogs;
- in `Http1Conn`: the DNS hook, CONNECT, exceptions while parsing other than those of a negative length, changes of the rules, the queue of 500
  broadcasts and what it discards, a write hook that outlives the reopening of its descriptor, two writer threads on one connection;
- in `Http2Conn`: streams that the server opens itself after a promise, preface, table of connections, bodies and their tables in `NativeRequestHook`, frames cut across calls;
- code without a caller: `forceRefresh`, `HookPrefs.clear`, `LogProxy.disconnect` and `shutdown`, `LogRepository.clearLogs`;
- `ContextUtil`: its only callback is registered before the first context exists, so nothing races;
- the cache of custom hooks in `HookPrefs` and its screen: it has no lock, and the race at
  `HookPrefs.kt:238` is listed as a hazard; see the plan.

## 7. Plan

Done, in this order: rule cache, configuration files, HTTP/2 connection,
subscriptions, settings, DexKit bridge, visibility daemon, log, HTTP/1
connections; proofs of every safety property, action property and refinement that the runs check.

Next:

1. `CustomHookStore`: the cache of custom hooks (`HookPrefs.kt`, 213-266) with
   `CustomHookViewModel`'s delayed save; composed with `SettingsStore`'s queue.
2. `Http2Registry`: preface, table of connections and descriptors, feeds from `feedH2Data`; reuse of an `SSL` address.
3. `Http2Wire`: frames cut across calls and partial writes; a reset may not land inside a frame.
4. `RuleMatch`: matching over short label sequences against a declarative definition.
5. Proofs for the modules above as they come; a lemma module for sequences shared by the proofs.
