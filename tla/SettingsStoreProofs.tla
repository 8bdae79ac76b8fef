------------------------- MODULE SettingsStoreProofs -------------------------
(***************************************************************************)
(* Theorems about SettingsStore, for any number of threads, settings and   *)
(* updates, with reads that fail at any time: in calm the cache holds      *)
(* every update, the disk catches up and no write wipes a setting.         *)
(***************************************************************************)
EXTENDS SettingsStore, SequenceTheorems, TLAPS

\* The service can be used; every update was made with it there on what the file said, and it
\* never died; t has an update on its way to the queue.
Up == connected /\ ~invalidating
Steady == settled /\ outages = 0
Launching(t) == pc[t] = "launch"

\* Nothing is on its way to the disk, which is up to date.
Flushed == queue = <<>> /\ file = latest /\ \A t \in Threads : ~Launching(t)

\* Who holds the lock to fill or read has found no cache.
Exclusion == \A t \in Threads : pc[t] \in {"read", "fill", "baseline"} => ~cached

\* Unless the read has failed, the cache and whoever holds the lock know the latest version; and
\* there is a cache whenever something is on its way to the disk.
KnowsLatest ==
    Steady =>
        /\ ~Up => Flushed
        /\ Up /\ ~cached => Flushed
        /\ Up /\ cached /\ ~blind => cache = latest
        /\ Up /\ ~blind => \A t \in Threads : pc[t] \in {"fill", "transform"} => json[t] = latest

\* Every version on its way to the disk has all the settings.
Whole(s) == \A k \in Keys : s[k] # Unset
AllWhole ==
    Steady =>
        /\ Whole(latest) /\ Whole(file)
        /\ \A t \in Threads : Launching(t) => Whole(json[t])
        /\ \A i \in 1..Len(queue) : Whole(queue[i])

\* The newest version is the one that reaches the disk last.
NewestLast ==
    Calm /\ ~raced =>
        /\ \A t, u \in Threads : Launching(t) /\ Launching(u) => t = u
        /\ \A t \in Threads : Launching(t) => json[t] = latest
        /\ (\A t \in Threads : ~Launching(t)) =>
              IF queue = <<>> THEN file = latest ELSE queue[Len(queue)] = latest

\* The inductive invariant.
IInv == TypeOK /\ Exclusion /\ KnowsLatest /\ AllWhole /\ NewestLast

\* A connective is a Boolean.
LEMMA Connective ==
    ASSUME NEW A, NEW B PROVE (A \/ B) \in BOOLEAN /\ (A /\ B) \in BOOLEAN
OBVIOUS

\* A new version of the settings is well formed.
LEMMA UpdatedType == ASSUME TypeOK, NEW t \in Threads PROVE Updated(t) \in Settings
  BY DEF TypeOK, Settings, Updated

\* Every step keeps the types.
LEMMA NextTypeOK == TypeOK /\ [Next]_vars => TypeOK'
<1> SUFFICES ASSUME TypeOK, [Next]_vars PROVE TypeOK'
    OBVIOUS
<1> USE SettingsAssumption DEF serviceVars, cacheVars, threadVars, diskVars, history
<1>0. NoSettings \in Settings /\ FromFile \subseteq Settings
  BY DEF NoSettings, Settings, Unset, FromFile, TypeOK
<1>1. ASSUME NEW t \in Threads, BeginGet(t) PROVE TypeOK'
  BY <1>1 DEF BeginGet, Step, TypeOK
<1>2. ASSUME NEW t \in Threads, ReadSettings(t) \/ ReadBaseline(t) PROVE TypeOK'
  <2>1. PICK read \in Settings : json' = [json EXCEPT ![t] = read] /\ blind' = (connected /\ read # file)
    BY <1>0, <1>2 DEF ReadSettings, ReadBaseline, ReadFile
  <2>2. blind' \in BOOLEAN
    BY <2>1, Zenon
  <2>3. json' \in [Threads -> Settings]
    BY <2>1 DEF TypeOK
  <2> QED
    BY <1>2, <2>2, <2>3 DEF ReadSettings, ReadBaseline, Step, TypeOK
<1>3. ASSUME NEW t \in Threads, FillCache(t) PROVE TypeOK'
  BY <1>3 DEF FillCache, Step, TypeOK
<1>4. ASSUME NEW t \in Threads, NEW k \in Keys, BeginUpdate(t, k) PROVE TypeOK'
  BY <1>4 DEF BeginUpdate, Step, TypeOK
<1>5. ASSUME NEW t \in Threads, Transform(t) PROVE TypeOK'
  <2>1. settled' \in BOOLEAN /\ raced' \in BOOLEAN
    BY <1>5, Connective, Zenon DEF Transform
  <2>2. latest' \in Settings
    BY <1>5 DEF Transform, TypeOK, Settings
  <2>3. json' \in [Threads -> Settings] /\ cache' \in Settings
    BY <1>5, UpdatedType DEF Transform, TypeOK
  <2>4. /\ pc' \in [Threads -> {"idle", "read", "fill", "baseline", "transform", "launch"}]
        /\ lock' \in Threads \cup {"free"}
        /\ \A u \in Threads : pc'[u] \in {"read", "fill", "baseline", "transform"} <=> lock' = u
    BY <1>5 DEF Transform, Step, TypeOK
  <2>5. /\ updates' \in Nat /\ cached' \in BOOLEAN
        /\ UNCHANGED <<connected, invalidating, outages, key, queue, file, failures, blind>>
    BY <1>5 DEF Transform, TypeOK
  <2> QED
    BY <2>1, <2>2, <2>3, <2>4, <2>5 DEF TypeOK
<1>6. ASSUME NEW t \in Threads, Launch(t) PROVE TypeOK'
  BY <1>6 DEF Launch, Step, TypeOK
<1>7. CASE Persist
  <2>1. queue' \in Seq(Settings) /\ file' \in Settings
    BY <1>7 DEF Persist, TypeOK
  <2> QED
    BY <1>7, <2>1 DEF Persist, TypeOK
<1>8. CASE PersistFails
  <2>1. queue' \in Seq(Settings)
    BY <1>8 DEF PersistFails, TypeOK
  <2> QED
    BY <1>8, <2>1 DEF PersistFails, TypeOK
<1>9. CASE Service
  <2>1. CASE Bind
    BY <2>1 DEF Bind, TypeOK
  <2>2. CASE InvalidateCaches
    BY <1>0, <2>2 DEF InvalidateCaches, TypeOK
  <2>3. CASE ServiceDies
    <3>1. outages' \in Nat
      BY <2>3 DEF ServiceDies, TypeOK
    <3>3. connected' \in BOOLEAN
      BY <2>3, Zenon DEF ServiceDies
    <3>2. UNCHANGED <<invalidating, cacheVars, threadVars, diskVars, updates, history>>
      BY <2>3 DEF ServiceDies
    <3> QED
      BY <3>1, <3>2, <3>3 DEF TypeOK
  <2> QED
    BY <1>9, <2>1, <2>2, <2>3 DEF Service
<1>10. CASE UNCHANGED vars
  BY <1>10 DEF vars, TypeOK
<1> QED
  BY <1>1, <1>2, <1>3, <1>4, <1>5, <1>6, <1>7, <1>8, <1>9, <1>10 DEF Next, Thread, Writer

\* The inductive invariant holds before the service is bound.
LEMMA InitIInv == Init => IInv
<1> SUFFICES ASSUME Init PROVE IInv
    OBVIOUS
<1> USE SettingsAssumption DEF Init
<1>1. NoSettings \in Settings /\ [k \in Keys |-> 1] \in Settings
  BY DEF NoSettings, Settings, Unset
<1>2. TypeOK
  <2>1. file \in Settings /\ latest \in Settings /\ queue \in Seq(Settings)
    BY <1>1
  <2> QED
    BY <1>1, <2>1 DEF TypeOK
<1>3. Exclusion /\ KnowsLatest
  BY DEF Exclusion, KnowsLatest, Up, Flushed, Launching
<1>4. AllWhole /\ NewestLast
  BY DEF AllWhole, Whole, NewestLast, Launching, Unset
<1> QED
  BY <1>2, <1>3, <1>4 DEF IInv

\* Every step keeps the lock exclusive.
LEMMA NextExclusion == TypeOK /\ Exclusion /\ [Next]_vars => Exclusion'
<1> SUFFICES ASSUME TypeOK, Exclusion, [Next]_vars PROVE Exclusion'
    OBVIOUS
<1> USE SettingsAssumption DEF serviceVars, cacheVars, threadVars, diskVars, history, TypeOK, Exclusion, Step
<1>1. ASSUME NEW t \in Threads, Thread(t) PROVE Exclusion'
  BY <1>1 DEF Thread, BeginGet, ReadSettings, FillCache, BeginUpdate, ReadBaseline, Transform,
     Launch
<1>2. CASE Writer \/ Service
  BY <1>2 DEF Writer, Persist, PersistFails, Service, Bind, InvalidateCaches, ServiceDies
<1>3. CASE UNCHANGED vars
  BY <1>3 DEF vars
<1> QED
  BY <1>1, <1>2, <1>3 DEF Next

\* Every step keeps the cache and whoever works on it at the latest version.
LEMMA NextKnowsLatest ==
    TypeOK /\ Exclusion /\ KnowsLatest /\ [Next]_vars => KnowsLatest'
<1> SUFFICES ASSUME TypeOK, Exclusion, KnowsLatest, [Next]_vars, Steady' PROVE KnowsLatest'
    BY DEF KnowsLatest
<1> USE SettingsAssumption
    DEF serviceVars, cacheVars, threadVars, diskVars, history, TypeOK, Exclusion, KnowsLatest, Steady, Up,
        Flushed, Launching, Step
<1>1. ASSUME NEW t \in Threads, BeginGet(t) PROVE KnowsLatest'
  BY <1>1 DEF BeginGet
<1>2. ASSUME NEW t \in Threads, ReadSettings(t) \/ ReadBaseline(t) PROVE KnowsLatest'
  BY <1>2 DEF ReadSettings, ReadBaseline, ReadFile
<1>3. ASSUME NEW t \in Threads, FillCache(t) PROVE KnowsLatest'
  BY <1>3 DEF FillCache
<1>4. ASSUME NEW t \in Threads, NEW k \in Keys, BeginUpdate(t, k) PROVE KnowsLatest'
  BY <1>4 DEF BeginUpdate
<1>5. ASSUME NEW t \in Threads, Transform(t) PROVE KnowsLatest'
  <2>1. Steady /\ Up /\ ~blind
    BY <1>5 DEF Transform
  <2>2. Updated(t) = latest'
    BY <1>5, <2>1 DEF Transform, Updated
  <2>3. lock = t /\ \A u \in Threads : pc[u] \in {"fill", "transform"} => u = t
    BY <1>5 DEF Transform
  <2> QED
    BY <1>5, <2>1, <2>2, <2>3 DEF Transform
<1>6. ASSUME NEW t \in Threads, Launch(t) PROVE KnowsLatest'
  BY <1>6 DEF Launch
<1>7. CASE Writer
  <2>1. queue # <<>> /\ UNCHANGED <<serviceVars, cacheVars, threadVars, history>>
    BY <1>7 DEF Writer, Persist, PersistFails
  <2>2. Steady /\ Up /\ cached
    BY <2>1
  <2> QED
    BY <2>1, <2>2
<1>8. CASE Service
  <2>1. CASE Bind
    <3>1. ~connected /\ invalidating' /\ UNCHANGED <<cacheVars, threadVars, diskVars, latest, settled, outages>>
      BY <2>1 DEF Bind
    <3>2. Flushed' /\ ~Up'
      BY <3>1
    <3> QED
      BY <3>2
  <2>2. CASE InvalidateCaches
    <3>1. ~Up /\ lock = "free" /\ ~cached' /\ UNCHANGED <<lock, threadVars, diskVars, latest, settled, outages>>
      BY <2>2 DEF InvalidateCaches
    <3>2. Flushed' /\ \A t \in Threads : pc'[t] \notin {"fill", "transform"}
      BY <3>1
    <3> QED
      BY <3>1, <3>2
  <2>3. CASE ServiceDies
    <3>1. outages' # 0
      BY <2>3 DEF ServiceDies
    <3> QED
      BY <3>1
  <2> QED
    BY <1>8, <2>1, <2>2, <2>3 DEF Service
<1>9. CASE UNCHANGED vars
  BY <1>9 DEF vars
<1> HIDE DEF serviceVars, cacheVars, threadVars, diskVars, history, TypeOK, Exclusion, KnowsLatest,
        Steady, Up, Flushed, Launching, Step
<1> QED
  BY <1>1, <1>2, <1>3, <1>4, <1>5, <1>6, <1>7, <1>8, <1>9 DEF Next, Thread

\* Every step keeps the versions on their way to the disk whole.
LEMMA NextAllWhole == TypeOK /\ KnowsLatest /\ AllWhole /\ [Next]_vars => AllWhole'
<1> SUFFICES ASSUME TypeOK, KnowsLatest, AllWhole, [Next]_vars, Steady' PROVE AllWhole'
    BY DEF AllWhole
<1> USE SettingsAssumption
    DEF serviceVars, cacheVars, threadVars, diskVars, history, TypeOK, AllWhole, Steady, Launching, Step
<1>1. ASSUME NEW t \in Threads, Transform(t) PROVE AllWhole'
  <2>1. Steady /\ Up /\ ~blind
    BY <1>1 DEF Transform, Up
  <2>2. Whole(latest') /\ Updated(t) = latest'
    <3>1. json[t] = latest
      BY <1>1, <2>1 DEF Transform, KnowsLatest
    <3>2. latest' = [latest EXCEPT ![key[t]] = updates + 1]
      BY <1>1 DEF Transform
    <3>3. Whole(latest')
      BY <2>1, <3>2 DEF Whole, Unset, Settings
    <3> QED
      BY <3>1, <3>2, <3>3 DEF Updated
  <2>3. \A u \in Threads : Launching(u)' => Whole(json'[u])
    BY <1>1, <2>1, <2>2 DEF Transform
  <2>4. UNCHANGED <<queue, file>>
    BY <1>1 DEF Transform
  <2> QED
    BY <2>1, <2>2, <2>3, <2>4
<1>2. ASSUME NEW t \in Threads, Launch(t) PROVE AllWhole'
  <2>1. Whole(json[t]) /\ queue' = Append(queue, json[t]) /\ json[t] \in Settings
    BY <1>2 DEF Launch
  <2>2. \A i \in 1..Len(queue') : Whole(queue'[i])
    BY <2>1, <1>2 DEF Launch
  <2> QED
    BY <1>2, <2>2 DEF Launch
<1>3. CASE Writer
  <2>1. /\ queue # <<>> /\ queue' = Tail(queue)
        /\ file' = file \/ file' = Head(queue)
        /\ UNCHANGED <<threadVars, latest, settled, outages>>
    BY <1>3 DEF Writer, Persist, PersistFails
  <2>2. Whole(Head(queue))
    BY <2>1
  <2>3. \A i \in 1..Len(queue') : Whole(queue'[i])
    BY <2>1
  <2> QED
    BY <2>1, <2>2, <2>3
<1>4. ASSUME NEW t \in Threads, ReadSettings(t) \/ ReadBaseline(t) PROVE AllWhole'
  BY <1>4 DEF ReadSettings, ReadBaseline, ReadFile
<1>5. ASSUME NEW t \in Threads, NEW k \in Keys, BeginUpdate(t, k) PROVE AllWhole'
  BY <1>5 DEF BeginUpdate
<1>6. ASSUME NEW t \in Threads, BeginGet(t) \/ FillCache(t) PROVE AllWhole'
  BY <1>6 DEF BeginGet, FillCache
<1>7. CASE Bind \/ InvalidateCaches
  BY <1>7 DEF Bind, InvalidateCaches
<1>8. CASE ServiceDies
  BY <1>8 DEF ServiceDies
<1>9. CASE UNCHANGED vars
  BY <1>9 DEF vars
<1> HIDE DEF serviceVars, cacheVars, threadVars, diskVars, history, TypeOK, AllWhole, Steady, Launching, Step
<1> QED
  BY <1>1, <1>2, <1>3, <1>4, <1>5, <1>6, <1>7, <1>8, <1>9 DEF Next, Thread, Service

\* Every step keeps the newest version last on its way to the disk.
LEMMA NextNewestLast == TypeOK /\ KnowsLatest /\ NewestLast /\ [Next]_vars => NewestLast'
<1> SUFFICES ASSUME TypeOK, KnowsLatest, NewestLast, [Next]_vars, Calm', ~raced'
             PROVE NewestLast'
    BY DEF NewestLast
<1> USE SettingsAssumption
    DEF serviceVars, cacheVars, threadVars, diskVars, history, TypeOK, NewestLast, Calm, Launching, Step
<1>1. ASSUME NEW t \in Threads, Transform(t) PROVE NewestLast'
  <2>1. Steady /\ Up /\ ~blind /\ Calm /\ ~raced /\ \A u \in Threads : ~Launching(u)
    BY <1>1 DEF Transform, Up, Steady
  <2>2. Updated(t) = latest'
    BY <1>1, <2>1 DEF Transform, Updated, KnowsLatest
  <2>3. \A u \in Threads : Launching(u)' <=> u = t
    BY <1>1, <2>1 DEF Transform
  <2>4. json'[t] = latest'
    BY <1>1, <2>2 DEF Transform
  <2> QED
    BY <2>3, <2>4
<1>2. ASSUME NEW t \in Threads, Launch(t) PROVE NewestLast'
  <2>1. json[t] = latest /\ \A u \in Threads : ~Launching(u)'
    BY <1>2 DEF Launch
  <2>2. queue' = Append(queue, json[t]) /\ json[t] \in Settings
    BY <1>2 DEF Launch
  <2>3. queue' # <<>> /\ queue'[Len(queue')] = latest
    BY <2>1, <2>2
  <2> QED
    BY <1>2, <2>1, <2>3 DEF Launch
<1>3. CASE Persist
  <2>1. Steady /\ Calm /\ ~raced /\ queue # <<>>
    BY <1>3 DEF Persist, Steady
  <2>2. connected
    BY <2>1 DEF KnowsLatest, Flushed, Up
  <2>3. queue' = Tail(queue) /\ file' = Head(queue) /\ UNCHANGED <<threadVars, latest>>
    BY <1>3, <2>2 DEF Persist
  <2>4. IF queue' = <<>> THEN file' = queue[Len(queue)] ELSE queue'[Len(queue')] = queue[Len(queue)]
    <3>1. CASE Len(queue) = 1
      <4>1. queue' = <<>> /\ Head(queue) = queue[Len(queue)]
        BY <2>1, <2>3, <3>1
      <4> QED
        BY <2>3, <4>1
    <3>2. CASE Len(queue) # 1
      <4>1. /\ Len(queue') = Len(queue) - 1 /\ queue' # <<>>
            /\ queue'[Len(queue) - 1] = queue[Len(queue)]
        <5>1. Len(queue) \in Nat /\ Len(queue) # 0
          BY <2>1, EmptySeq
        <5>2. \A i \in 1..Len(queue) - 1 : Tail(queue)[i] = queue[i + 1]
          BY <2>1
        <5>3. Len(Tail(queue)) = Len(queue) - 1
          BY <2>1
        <5> QED
          <6>1. PICK n \in Nat : n = Len(queue)
            BY <5>1
          <6>2. n - 1 \in 1..n - 1 /\ (n - 1) + 1 = n /\ n - 1 # 0
            BY <3>2, <5>1, <6>1
          <6>3. Tail(queue)[n - 1] = queue[n]
            BY <5>2, <6>1, <6>2
          <6>4. Tail(queue) # <<>>
            BY <5>3, <6>1, <6>2, EmptySeq
          <6> QED
            BY <2>3, <5>3, <6>1, <6>3, <6>4
      <4> QED
        BY <4>1
    <3> QED
      BY <3>1, <3>2
  <2> QED
    BY <2>1, <2>3, <2>4
<1>4. CASE PersistFails
  <2>1. failures' # 0
    BY <1>4 DEF PersistFails
  <2> QED
    BY <2>1
<1>5. ASSUME NEW t \in Threads, ReadSettings(t) \/ ReadBaseline(t) PROVE NewestLast'
  BY <1>5, ZenonT(60) DEF ReadSettings, ReadBaseline, ReadFile
<1>6. ASSUME NEW t \in Threads, NEW k \in Keys, BeginUpdate(t, k) PROVE NewestLast'
  BY <1>6 DEF BeginUpdate
<1>7. ASSUME NEW t \in Threads, BeginGet(t) \/ FillCache(t) PROVE NewestLast'
  BY <1>7, ZenonT(60) DEF BeginGet, FillCache
<1>8. CASE Bind \/ InvalidateCaches
  BY <1>8 DEF Bind, InvalidateCaches
<1>9. CASE ServiceDies
  BY <1>9 DEF ServiceDies
<1>10. CASE UNCHANGED vars
  BY <1>10 DEF vars
<1> HIDE DEF serviceVars, cacheVars, threadVars, diskVars, history, TypeOK, NewestLast, Calm, Launching,
        Step
<1> QED
  BY <1>1, <1>2, <1>3, <1>4, <1>5, <1>6, <1>7, <1>8, <1>9, <1>10
     DEF Next, Thread, Writer, Service

\* The inductive invariant holds in every behaviour.
LEMMA Invariant == Spec => []IInv
<1>1. IInv /\ [Next]_vars => IInv'
  BY NextTypeOK, NextExclusion, NextKnowsLatest, NextAllWhole, NextNewestLast DEF IInv
<1> QED
  BY InitIInv, <1>1, PTL DEF Spec

\* The cache, the lock, the threads and the queue of writes stay well formed
\* (getSettingsJson and updateSetting around cacheLock).
THEOREM TypeCorrect == Spec => []TypeOK
<1>1. IInv => TypeOK
  BY DEF IInv
<1> QED
  BY Invariant, <1>1, PTL

\* In calm the cache is never behind the updates, whoever filled it and when, unless the last read
\* failed with the service there (getSettingsJson, updateSetting, invalidateCaches).
THEOREM CacheKnowsAll == Spec => []CacheIsLatest
<1>1. IInv => CacheIsLatest
  BY DEF IInv, KnowsLatest, CacheIsLatest, Calm, Steady, Up
<1> QED
  BY Invariant, <1>1, PTL

\* In calm, with no update overtaken, an empty queue means that the disk has
\* every update (the launch of updateSetting and the one thread of ioScope).
THEOREM DiskGetsAll == Spec => []DiskCatchesUp
<1>1. IInv => DiskCatchesUp
  BY DEF IInv, NewestLast, DiskCatchesUp, Launching
<1> QED
  BY Invariant, <1>1, PTL

\* No write leaves a setting out, however many reads fail, as long as no update builds on such a
\* read or is made without the service (the baseline of updateSetting).
THEOREM NoWriteWipes == Spec => []NothingIsWiped
<1>1. IInv => NothingIsWiped
  BY DEF IInv, AllWhole, Whole, NothingIsWiped, Steady
<1> QED
  BY Invariant, <1>1, PTL
=============================================================================
