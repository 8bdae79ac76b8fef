--------------------------- MODULE LogProxyProofs ---------------------------
(***************************************************************************)
(* What LogProxy keeps for every capacity and bound: the types, that the   *)
(* open screen misses nothing it has not overflowed on, and that the way   *)
(* of the entries is the lossy log of LossyLog.                            *)
(***************************************************************************)
EXTENDS LogProxy, FiniteSetTheorems, SequenceTheorems, TLAPS

\* What a batch becomes on its way into the cache is a sequence of entries.
LEMMA ReversedType ==
    ASSUME NEW entries \in Seq(Entries)
    PROVE  reversed(entries) \in Seq(Entries)
<1>1. \A i \in 1 .. Len(entries) : entries[Len(entries) + 1 - i] \in Entries
  OBVIOUS
<1>2. reversed(entries) \in [1 .. Len(entries) -> Entries]
  BY <1>1 DEF reversed
<1> QED
  BY <1>2

\* So is what is left of it when the cache is full.
LEMMA TakeType ==
    ASSUME NEW entries \in Seq(Entries)
    PROVE  take(entries) \in Seq(Entries)
<1>1. MAX_CACHE_SIZE \in Nat \ {0}
  BY LogAssumption
<1> QED
  BY <1>1 DEF take

\* A queue that drops its oldest element keeps its type.
LEMMA DropOldestType ==
    ASSUME NEW S, NEW queue \in Seq(S), NEW capacity \in Nat \ {0}
    PROVE  DropOldest(queue, capacity) \in Seq(S)
<1>1. CASE Len(queue) > capacity
  <2>1. queue # <<>>
    BY <1>1
  <2> QED
    BY <1>1, <2>1 DEF DropOldest
<1>2. CASE ~(Len(queue) > capacity)
  BY <1>2 DEF DropOldest
<1> QED
  BY <1>1, <1>2

\* The bounds are numbers.
LEMMA Bounds ==
    /\ CHANNEL_CAPACITY \in Nat \ {0} /\ BATCH_SIZE \in Nat \ {0}
    /\ MAX_CACHE_SIZE \in Nat \ {0} /\ FlowCapacity \in Nat \ {0}
    /\ MaxEntries \in Nat /\ MaxServices \in Nat /\ MaxScreens \in Nat
  BY LogAssumption

\* The steps of the hooked process keep the types.
LEMMA ProxyKeepsTypes ==
    ASSUME TypeOK, log \/ bindToService \/ Connection \/ flushQueue
    PROVE  TypeOK'
<1> USE Bounds
<1>1. CASE log
  <2>1. logged' \in 1 .. MaxEntries
    BY <1>1 DEF log, TypeOK
  <2>2. Append(logChannel, logged') \in Seq(Entries)
    BY <2>1 DEF TypeOK, Entries
  <2>3. logChannel' \in Seq(Entries)
    BY <1>1, <2>2, DropOldestType DEF log
  <2> QED
    BY <1>1, <2>1, <2>3 DEF log, TypeOK, flush, delivery, repository, view
<1>2. CASE bindToService
  BY <1>2 DEF bindToService, TypeOK, flush, delivery, repository, view
<1>3. CASE SetService
  <2>1. Head(callbacks) \in Services \cup {Null} /\ Tail(callbacks) \in Seq(Services \cup {Null})
    BY <1>3 DEF SetService, TypeOK
  <2> QED
    BY <1>3, <2>1 DEF SetService, TypeOK, flush, delivery, repository, view
<1>4. CASE SetState
  <2>1. state' \in {"DISCONNECTED", "CONNECTING", "CONNECTED"}
    BY <1>4 DEF SetState, NewState, TypeOK
  <2>2. failed' \in BOOLEAN
    BY <1>4 DEF SetState, TypeOK
  <2> QED
    BY <1>4, <2>1, <2>2 DEF SetState, TypeOK, flush, delivery, repository, view
<1>5. CASE BeginFlush
  BY <1>5 DEF BeginFlush, TypeOK, proxy, delivery, repository, view
<1>6. CASE ReceiveEntry
  <2>1. Head(logChannel) \in Entries /\ Tail(logChannel) \in Seq(Entries)
    BY <1>6 DEF ReceiveEntry, TypeOK
  <2>2. Append(batch, Head(logChannel)) \in Seq(Entries)
    BY <2>1 DEF TypeOK
  <2> QED
    BY <1>6, <2>1, <2>2 DEF ReceiveEntry, TypeOK, delivery, repository, view
<1>7. CASE EndReceive
  BY <1>7 DEF EndReceive, TypeOK, proxy, delivery, repository, view
<1>8. CASE SendBatch
  <2>1. wire' \in Seq(Seq(Entries))
    <3>1. wire \in Seq(Seq(Entries)) /\ Append(wire, batch) \in Seq(Seq(Entries))
      BY DEF TypeOK
    <3>2. wire' = wire \/ wire' = Append(wire, batch)
      BY <1>8 DEF SendBatch
    <3> QED
      BY <3>1, <3>2
  <2>2. failed' \in BOOLEAN
    BY <1>8 DEF SendBatch, TypeOK
  <2>3. batch' \in Seq(Entries)
    BY <1>8 DEF SendBatch
  <2> QED
    BY <1>8, <2>1, <2>2, <2>3 DEF SendBatch, TypeOK, proxy, repository, view
<1> QED
  BY <1>1, <1>2, <1>3, <1>4, <1>5, <1>6, <1>7, <1>8 DEF Connection, flushQueue

\* The steps of the service and of its coroutines keep the types.
LEMMA ServiceKeepsTypes ==
    ASSUME TypeOK, StartService \/ ServiceDies \/ logBatch \/ addLogs
    PROVE  TypeOK'
<1> USE Bounds
<1>1. CASE StartService
  <2>1. services' \in 0 .. MaxServices /\ service' \in Services
    BY <1>1 DEF StartService, TypeOK, Services
  <2>2. callbacks' \in Seq(Services \cup {Null})
    BY <1>1, <2>1 DEF StartService, TypeOK
  <2> QED
    BY <1>1, <2>1, <2>2 DEF StartService, TypeOK, flush, repository, view
<1>2. CASE ServiceDies
  <2>1. callbacks' \in Seq(Services \cup {Null})
    BY <1>2 DEF ServiceDies, TypeOK
  <2>2. /\ wire' \in Seq(Seq(Entries)) /\ flow' \in Seq(Seq(Entries))
        /\ logCache' \in Seq(Entries) /\ allLogs' \in Seq(Entries) /\ jobs' \subseteq Job
    BY <1>2 DEF ServiceDies
  <2> QED
    BY <1>2, <2>1, <2>2 DEF ServiceDies, TypeOK, flush
<1>3. CASE logBatch
  <2>1. Head(wire) \in Seq(Entries) /\ wire' \in Seq(Seq(Entries))
    BY <1>3 DEF logBatch, TypeOK
  <2>2. [entries |-> reversed(Head(wire)), added |-> FALSE] \in Job
    BY <2>1, ReversedType DEF Job
  <2>3. jobs' \subseteq Job
    BY <1>3, <2>2 DEF logBatch, TypeOK
  <2> QED
    BY <1>3, <2>1, <2>3 DEF logBatch, TypeOK, proxy, flush, view
<1>4. ASSUME NEW job \in jobs, AddToCache(job)
      PROVE  TypeOK'
  <2>1. job \in Job
    BY DEF TypeOK
  <2>2. job.entries \o logCache \in Seq(Entries)
    BY <2>1 DEF TypeOK, Job
  <2>3. logCache' \in Seq(Entries)
    BY <1>4, <2>2, TakeType DEF AddToCache
  <2>4. [job EXCEPT !.added = TRUE] \in Job
    BY <2>1 DEF Job
  <2>5. jobs' \subseteq Job
    BY <1>4, <2>4 DEF AddToCache, TypeOK
  <2> QED
    BY <1>4, <2>3, <2>5 DEF AddToCache, TypeOK, proxy, flush, delivery, view
<1>5. ASSUME NEW job \in jobs, Emit(job)
      PROVE  TypeOK'
  <2>1. Append(flow, job.entries) \in Seq(Seq(Entries))
    BY DEF TypeOK, Job
  <2>2. flow' \in Seq(Seq(Entries))
    <3>1. DropOldest(Append(flow, job.entries), FlowCapacity) \in Seq(Seq(Entries))
      BY <2>1, DropOldestType
    <3> QED
      BY <1>5, <3>1 DEF Emit, TypeOK
  <2>3. overflowed' \in BOOLEAN
    BY <1>5 DEF Emit, TypeOK
  <2>4. jobs' \subseteq Job
    BY <1>5 DEF Emit, TypeOK
  <2> QED
    BY <1>5, <2>2, <2>3, <2>4 DEF Emit, TypeOK, proxy, flush, delivery
<1> QED
  BY <1>1, <1>2, <1>3, <1>4, <1>5 DEF addLogs

\* So do the steps of the screen.
LEMMA ScreenKeepsTypes ==
    ASSUME TypeOK, Screen
    PROVE  TypeOK'
<1> USE Bounds
<1>1. CASE Subscribe
  BY <1>1 DEF Subscribe, TypeOK, proxy, flush, delivery, repository
<1>2. CASE loadLogs
  <2>1. screens' \in 0 .. MaxScreens
    BY <1>2 DEF loadLogs, TypeOK
  <2> QED
    BY <1>2, <2>1 DEF loadLogs, TypeOK, proxy, flush, delivery, repository
<1>3. CASE processNewLogs
  <2>1. Head(flow) \in Seq(Entries) /\ Tail(flow) \in Seq(Seq(Entries))
    BY <1>3 DEF processNewLogs, TypeOK
  <2>2. Head(flow) \o allLogs \in Seq(Entries)
    BY <2>1 DEF TypeOK
  <2>3. allLogs' \in Seq(Entries)
    BY <1>3, <2>2, TakeType DEF processNewLogs
  <2>4. overflowed' \in BOOLEAN
    BY <1>3 DEF processNewLogs, TypeOK
  <2> QED
    BY <1>3, <2>1, <2>3, <2>4 DEF processNewLogs, TypeOK, proxy, flush, delivery, repository
<1>4. CASE clearLogs
  BY <1>4 DEF clearLogs, TypeOK, proxy, flush, delivery
<1>5. CASE ClearScreen
  BY <1>5 DEF ClearScreen, TypeOK, proxy, flush, delivery, repository
<1>6. CASE CloseScreen
  BY <1>6 DEF CloseScreen, TypeOK, proxy, flush, delivery, repository
<1> QED
  BY <1>1, <1>2, <1>3, <1>4, <1>5, <1>6 DEF Screen

\* The types hold before the first entry.
LEMMA InitTypes == Init => TypeOK
<1> SUFFICES ASSUME Init PROVE TypeOK
  OBVIOUS
<1>1. /\ logChannel \in Seq(Entries) /\ batch \in Seq(Entries) /\ logCache \in Seq(Entries)
      /\ allLogs \in Seq(Entries) /\ callbacks \in Seq(Services \cup {Null})
  BY DEF Init
<1>2. wire \in Seq(Seq(Entries)) /\ flow \in Seq(Seq(Entries)) /\ jobs \subseteq Job
  BY DEF Init
<1>3. logged \in 0 .. MaxEntries /\ services \in 0 .. MaxServices /\ screens \in 0 .. MaxScreens
  BY Bounds DEF Init
<1> QED
  BY <1>1, <1>2, <1>3 DEF Init, TypeOK

\* Every step keeps the types.
LEMMA NextTypes == TypeOK /\ [Next]_vars => TypeOK'
<1>1. TypeOK /\ UNCHANGED vars => TypeOK'
  BY DEF TypeOK, vars, proxy, flush, delivery, repository, view
<1> QED
  BY <1>1, ProxyKeepsTypes, ServiceKeepsTypes, ScreenKeepsTypes DEF Next

\* Every variable keeps its type, with any number of entries and lives of the service.
THEOREM TypeCorrect == Spec => []TypeOK
BY InitTypes, NextTypes, PTL DEF Spec

----------------------------------------------------------------------------
(* The elements of queues.                                                 *)

\* The elements of a sequence are of its set.
LEMMA ElementsAre ==
    ASSUME NEW S, NEW q \in Seq(S)
    PROVE  Elements(q) = {q[i] : i \in 1 .. Len(q)} /\ Elements(q) \subseteq S
  BY DEF Elements

\* The empty sequence has no elements.
LEMMA NoElements == Elements(<<>>) = {}
  BY DEF Elements

\* Appending adds one element.
LEMMA ElementsAppend ==
    ASSUME NEW S, NEW q \in Seq(S), NEW e \in S
    PROVE  Elements(Append(q, e)) = Elements(q) \cup {e}
<1> DEFINE r == Append(q, e)
<1>1. /\ r \in Seq(S) /\ Len(r) = Len(q) + 1 /\ r[Len(q) + 1] = e /\ Len(q) \in Nat
      /\ \A i \in 1 .. Len(q) : r[i] = q[i]
  OBVIOUS
<1> HIDE DEF r
<1>2. Elements(r) = {r[i] : i \in 1 .. Len(r)} /\ Elements(q) = {q[i] : i \in 1 .. Len(q)}
  BY <1>1, ElementsAre
<1>3. Elements(r) \subseteq Elements(q) \cup {e}
  <2>1. ASSUME NEW x \in Elements(r) PROVE x \in Elements(q) \cup {e}
    <3>1. PICK i \in 1 .. Len(r) : x = r[i]
      BY <1>2, <2>1
    <3>2. i \in 1 .. Len(q) \/ i = Len(q) + 1
      BY <1>1, <3>1
    <3> QED
      BY <1>1, <1>2, <3>1, <3>2
  <2> QED
    BY <2>1
<1>4. Elements(q) \subseteq Elements(r)
  <2>1. \A i \in 1 .. Len(q) : i \in 1 .. Len(r)
    BY <1>1
  <2> QED
    BY <1>1, <1>2, <2>1
<1>5. e \in Elements(r)
  <2>1. Len(q) + 1 \in 1 .. Len(r)
    BY <1>1
  <2> QED
    BY <1>1, <1>2, <2>1
<1> QED
  BY <1>3, <1>4, <1>5 DEF r

\* The elements of a sequence are its head and those of its tail.
LEMMA ElementsTail ==
    ASSUME NEW S, NEW q \in Seq(S), q # <<>>
    PROVE  /\ Head(q) \in S /\ Tail(q) \in Seq(S)
           /\ Elements(q) = {Head(q)} \cup Elements(Tail(q))
<1> DEFINE r == Tail(q)
<1>1. /\ r \in Seq(S) /\ Len(r) = Len(q) - 1 /\ Head(q) = q[1] /\ Len(q) \in Nat \ {0}
      /\ \A i \in 1 .. Len(r) : r[i] = q[i + 1]
  OBVIOUS
<1> HIDE DEF r
<1>2. Elements(r) = {r[i] : i \in 1 .. Len(r)} /\ Elements(q) = {q[i] : i \in 1 .. Len(q)}
  BY <1>1, ElementsAre
<1>3. 1 \in 1 .. Len(q) /\ Head(q) \in Elements(q)
  BY <1>1, <1>2
<1>4. Elements(r) \subseteq Elements(q)
  <2>1. \A i \in 1 .. Len(r) : i + 1 \in 1 .. Len(q)
    BY <1>1
  <2> QED
    BY <1>1, <1>2, <2>1
<1>5. ASSUME NEW x \in Elements(q) PROVE x \in {Head(q)} \cup Elements(r)
  <2>1. PICK i \in 1 .. Len(q) : x = q[i]
    BY <1>2
  <2>2. CASE i = 1
    BY <1>1, <2>1, <2>2
  <2>3. CASE i # 1
    <3>1. i - 1 \in 1 .. Len(r) /\ (i - 1) + 1 = i
      BY <1>1, <2>1, <2>3
    <3>2. x = r[i - 1]
      BY <1>1, <2>1, <3>1
    <3> QED
      BY <1>2, <3>1, <3>2
  <2> QED
    BY <2>2, <2>3
<1>6. Head(q) \in S
  BY <1>3, ElementsAre
<1> QED
  BY <1>1, <1>3, <1>4, <1>5, <1>6 DEF r

\* Two sequences joined have the elements of both.
LEMMA ElementsConcat ==
    ASSUME NEW S, NEW p \in Seq(S), NEW q \in Seq(S)
    PROVE  Elements(p \o q) = Elements(p) \cup Elements(q)
<1> DEFINE r == p \o q
<1>1. /\ r \in Seq(S) /\ Len(r) = Len(p) + Len(q) /\ Len(p) \in Nat /\ Len(q) \in Nat
      /\ \A i \in 1 .. Len(r) : r[i] = IF i <= Len(p) THEN p[i] ELSE q[i - Len(p)]
  OBVIOUS
<1> HIDE DEF r
<1>2. /\ Elements(r) = {r[i] : i \in 1 .. Len(r)} /\ Elements(q) = {q[i] : i \in 1 .. Len(q)}
      /\ Elements(p) = {p[i] : i \in 1 .. Len(p)}
  BY <1>1, ElementsAre
<1>3. ASSUME NEW x \in Elements(r) PROVE x \in Elements(p) \cup Elements(q)
  <2>1. PICK i \in 1 .. Len(r) : x = r[i]
    BY <1>2
  <2>2. CASE i <= Len(p)
    <3>1. i \in 1 .. Len(p) /\ x = p[i]
      BY <1>1, <2>1, <2>2
    <3> QED
      BY <1>2, <3>1
  <2>3. CASE ~(i <= Len(p))
    <3>1. i - Len(p) \in 1 .. Len(q) /\ x = q[i - Len(p)]
      BY <1>1, <2>1, <2>3
    <3> QED
      BY <1>2, <3>1
  <2> QED
    BY <2>2, <2>3
<1>4. ASSUME NEW x \in Elements(p) PROVE x \in Elements(r)
  <2>1. PICK i \in 1 .. Len(p) : x = p[i]
    BY <1>2
  <2>2. i \in 1 .. Len(r) /\ r[i] = p[i]
    BY <1>1, <2>1
  <2> QED
    BY <1>2, <2>1, <2>2
<1>5. ASSUME NEW x \in Elements(q) PROVE x \in Elements(r)
  <2>1. PICK i \in 1 .. Len(q) : x = q[i]
    BY <1>2
  <2> DEFINE k == i + Len(p)
  <2>2. k \in 1 .. Len(r) /\ ~(k <= Len(p)) /\ k - Len(p) = i
    BY <1>1, <2>1
  <2>3. r[k] = q[i]
    BY <1>1, <2>2
  <2> HIDE DEF k
  <2> QED
    BY <1>2, <2>1, <2>2, <2>3
<1> QED
  BY <1>3, <1>4, <1>5 DEF r

\* The cut to MAX_CACHE_SIZE adds no element, and drops none that fits.
LEMMA ElementsTake ==
    ASSUME NEW q \in Seq(Entries)
    PROVE  /\ Elements(take(q)) \subseteq Elements(q)
           /\ Len(q) <= MAX_CACHE_SIZE => take(q) = q
<1>1. MAX_CACHE_SIZE \in Nat \ {0} /\ Len(q) \in Nat
  BY Bounds
<1>2. CASE Len(q) <= MAX_CACHE_SIZE
  <2>1. take(q) = SubSeq(q, 1, Len(q))
    BY <1>1, <1>2 DEF take
  <2>2. take(q) = q
    BY <2>1
  <2> QED
    BY <2>2
<1>3. CASE Len(q) > MAX_CACHE_SIZE
  <2> DEFINE r == SubSeq(q, 1, MAX_CACHE_SIZE)
  <2>1. take(q) = r
    BY <1>3 DEF take
  <2>2. r \in Seq(Entries) /\ Len(r) = MAX_CACHE_SIZE /\ \A i \in 1 .. MAX_CACHE_SIZE : r[i] = q[i]
    BY <1>1, <1>3
  <2> HIDE DEF r
  <2>3. Elements(r) = {r[i] : i \in 1 .. Len(r)} /\ Elements(q) = {q[i] : i \in 1 .. Len(q)}
    BY <2>2, ElementsAre
  <2>4. \A i \in 1 .. Len(r) : i \in 1 .. Len(q)
    BY <1>1, <1>3, <2>2
  <2>5. Elements(r) \subseteq Elements(q)
    BY <2>2, <2>3, <2>4
  <2> QED
    BY <1>1, <1>3, <2>1, <2>5
<1> QED
  BY <1>1, <1>2, <1>3

\* Reversing keeps the elements.
LEMMA ElementsReversed ==
    ASSUME NEW q \in Seq(Entries)
    PROVE  Elements(reversed(q)) = Elements(q)
<1> DEFINE r == reversed(q)
<1>1. /\ r \in Seq(Entries) /\ Len(r) = Len(q) /\ Len(q) \in Nat
      /\ \A i \in 1 .. Len(q) : r[i] = q[Len(q) + 1 - i]
  BY ReversedType DEF reversed
<1> HIDE DEF r
<1>2. Elements(r) = {r[i] : i \in 1 .. Len(r)} /\ Elements(q) = {q[i] : i \in 1 .. Len(q)}
  BY <1>1, ElementsAre
<1>3. \A i \in 1 .. Len(q) : /\ Len(q) + 1 - i \in 1 .. Len(q)
                             /\ Len(q) + 1 - (Len(q) + 1 - i) = i
  BY <1>1
<1>4. Elements(r) \subseteq Elements(q)
  BY <1>1, <1>2, <1>3
<1>5. ASSUME NEW x \in Elements(q) PROVE x \in Elements(r)
  <2>1. PICK i \in 1 .. Len(q) : x = q[i]
    BY <1>2
  <2>2. x = r[Len(q) + 1 - i]
    BY <1>1, <1>3, <2>1
  <2> QED
    BY <1>1, <1>2, <1>3, <2>2
<1> QED
  BY <1>4, <1>5 DEF r

----------------------------------------------------------------------------
(* The screen misses nothing.                                              *)

\* What the manager has for the screen and has not shown: lists in the flow, and batches that are in
\* the cache but not yet in the flow.
Emitted == UNION {Elements(list) : list \in Elements(flow)}
ToEmit == UNION {Elements(job.entries) : job \in {j \in jobs : j.added}}
Coming == Emitted \cup ToEmit

\* The screen misses nothing of the cache that it has not overflowed on.  While it is cleared, what
\* has come into the cache since is still on its way.
ScreenInv ==
    /\ Len(flow) <= FlowCapacity
    /\ ~overflowed =>
          /\ screen = "open" => Elements(logCache) \subseteq Elements(allLogs) \cup Coming
          /\ screen = "clearing" => Elements(logCache) \subseteq Coming

\* Before the first screen there is nothing to miss.
LEMMA InitScreen == Init => ScreenInv
  BY Bounds DEF Init, ScreenInv

\* Whatever the service and its coroutines put into the cache, they hand to the screen.
LEMMA ServiceKeepsScreen ==
    ASSUME TypeOK, ScreenInv, ServiceDies \/ logBatch \/ addLogs
    PROVE  ScreenInv'
<1>1. CASE ServiceDies
  <2>1. flow' = <<>> /\ screen' = "closed"
    BY <1>1 DEF ServiceDies
  <2> QED
    BY <2>1, Bounds DEF ScreenInv
<1>2. CASE logBatch
  <2>1. UNCHANGED <<logCache, flow, screen, allLogs, overflowed>>
    BY <1>2 DEF logBatch, view
  <2>2. {j \in jobs' : j.added} = {j \in jobs : j.added}
    BY <1>2 DEF logBatch
  <2>3. UNCHANGED Coming
    BY <2>1, <2>2 DEF Coming, Emitted, ToEmit
  <2> QED
    BY <2>1, <2>3 DEF ScreenInv
<1>3. ASSUME NEW job \in jobs, AddToCache(job) PROVE ScreenInv'
  <2>1. /\ UNCHANGED <<flow, screen, allLogs, overflowed>>
        /\ logCache' = take(job.entries \o logCache)
        /\ jobs' = (jobs \ {job}) \cup {[job EXCEPT !.added = TRUE]}
        /\ ~job.added
    BY <1>3 DEF AddToCache, view
  <2>2. job \in Job /\ job.entries \in Seq(Entries) /\ logCache \in Seq(Entries)
    BY DEF TypeOK, Job
  <2>3. [job EXCEPT !.added = TRUE].added /\ [job EXCEPT !.added = TRUE].entries = job.entries
    BY <2>2 DEF Job
  <2>4. Elements(logCache') \subseteq Elements(job.entries) \cup Elements(logCache)
    <3> DEFINE both == job.entries \o logCache
    <3>1. both \in Seq(Entries) /\ Elements(both) = Elements(job.entries) \cup Elements(logCache)
      BY <2>2, ElementsConcat
    <3> HIDE DEF both
    <3>2. Elements(take(both)) \subseteq Elements(both)
      BY <3>1, ElementsTake
    <3> QED
      BY <2>1, <3>1, <3>2 DEF both
  <2>5. Elements(job.entries) \subseteq ToEmit'
    BY <2>1, <2>3 DEF ToEmit
  <2>6. ToEmit \subseteq ToEmit'
    BY <2>1 DEF ToEmit
  <2>7. Emitted' = Emitted
    BY <2>1 DEF Emitted
  <2> QED
    BY <2>1, <2>4, <2>5, <2>6, <2>7 DEF ScreenInv, Coming
<1>4. ASSUME NEW job \in jobs, Emit(job) PROVE ScreenInv'
  <2>1. /\ UNCHANGED <<logCache, screen, allLogs>> /\ jobs' = jobs \ {job} /\ job.added
        /\ job.entries \in Seq(Entries) /\ flow \in Seq(Seq(Entries))
        /\ FlowCapacity \in Nat \ {0} /\ Len(flow) <= FlowCapacity
    BY <1>4, Bounds DEF Emit, TypeOK, Job, ScreenInv
  <2>2. CASE ~Subscribed
    <3>1. screen' = "closed" /\ flow' = flow
      BY <1>4, <2>1, <2>2 DEF Emit, Subscribed
    <3> QED
      BY <2>1, <3>1 DEF ScreenInv
  <2>3. CASE Subscribed
    <3>1. /\ flow' = DropOldest(Append(flow, job.entries), FlowCapacity)
          /\ overflowed' = (overflowed \/ Len(flow) = FlowCapacity)
      BY <1>4, <2>3 DEF Emit
    <3>2. /\ Len(flow') <= FlowCapacity
          /\ Len(flow) < FlowCapacity => flow' = Append(flow, job.entries)
      <4> DEFINE r == Append(flow, job.entries)
      <4>1. /\ Len(r) = Len(flow) + 1 /\ Len(flow) \in Nat
            /\ r # <<>> => Len(Tail(r)) = Len(r) - 1
        BY <2>1
      <4>2. flow' = (IF Len(r) > FlowCapacity THEN Tail(r) ELSE r)
        BY <3>1 DEF DropOldest
      <4>3. Len(flow) <= FlowCapacity /\ FlowCapacity \in Nat /\ r # <<>>
        BY <2>1, Bounds DEF ScreenInv
      <4> HIDE DEF r
      <4>4. Len(flow') <= FlowCapacity /\ (Len(flow) < FlowCapacity => flow' = r)
        BY <4>1, <4>2, <4>3
      <4> QED
        BY <4>4 DEF r
    <3>3. CASE Len(flow) = FlowCapacity
      BY <3>1, <3>2, <3>3 DEF ScreenInv
    <3>4. CASE Len(flow) < FlowCapacity
      <4>1. Elements(flow') = Elements(flow) \cup {job.entries}
        <5>1. flow' = Append(flow, job.entries)
          BY <3>2, <3>4
        <5>2. flow \in Seq(Seq(Entries)) /\ job.entries \in Seq(Entries)
          BY <2>1
        <5>3. Elements(Append(flow, job.entries)) = Elements(flow) \cup {job.entries}
          BY <5>2, ElementsAppend
        <5> QED
          BY <5>1, <5>3
      <4>2. Emitted' = Emitted \cup Elements(job.entries)
        BY <4>1 DEF Emitted
      <4>3. ToEmit \subseteq ToEmit' \cup Elements(job.entries)
        BY <2>1 DEF ToEmit
      <4>4. Coming \subseteq Coming'
        BY <4>2, <4>3 DEF Coming
      <4>5. overflowed' = overflowed
        BY <2>1, <3>1, <3>4 DEF TypeOK
      <4> QED
        BY <2>1, <3>2, <4>4, <4>5 DEF ScreenInv
    <3>5. Len(flow) \in Nat
      BY <2>1
    <3> QED
      BY <2>1, <3>3, <3>4, <3>5
  <2> QED
    BY <2>2, <2>3
<1> QED
  BY <1>1, <1>2, <1>3, <1>4 DEF addLogs

\* The screen takes up what it is handed, and does not forget what came while it cleared itself.
LEMMA ScreenKeepsScreen ==
    ASSUME TypeOK, ScreenInv, Screen
    PROVE  ScreenInv'
<1>1. CASE Subscribe
  BY <1>1 DEF Subscribe, ScreenInv
<1>2. CASE loadLogs
  BY <1>2 DEF loadLogs, repository, ScreenInv
<1>3. CASE processNewLogs
  <2>1. /\ UNCHANGED <<jobs, logCache, screen>> /\ screen = "open" /\ flow # <<>>
        /\ allLogs' = take(Head(flow) \o allLogs) /\ flow' = Tail(flow)
        /\ overflowed' = (overflowed \/ Len(Head(flow) \o allLogs) > MAX_CACHE_SIZE)
        /\ flow \in Seq(Seq(Entries)) /\ allLogs \in Seq(Entries)
    BY <1>3 DEF processNewLogs, repository, TypeOK
  <2>2. Head(flow) \in Seq(Entries) /\ Elements(flow) = {Head(flow)} \cup Elements(flow')
    BY <2>1, ElementsTail
  <2>3. Len(flow') <= FlowCapacity
    BY <2>1, Bounds DEF ScreenInv
  <2>4. Head(flow) \o allLogs \in Seq(Entries)
    BY <2>1, <2>2
  <2>5. ASSUME ~overflowed'
        PROVE  Elements(allLogs') = Elements(Head(flow)) \cup Elements(allLogs)
    <3>1. ~(Len(Head(flow) \o allLogs) > MAX_CACHE_SIZE)
      BY <2>1, <2>5
    <3>2. Len(Head(flow) \o allLogs) <= MAX_CACHE_SIZE
      BY <2>4, <3>1, Bounds
    <3>3. allLogs' = Head(flow) \o allLogs
      BY <2>1, <2>4, <3>2, ElementsTake
    <3>4. Elements(Head(flow) \o allLogs) = Elements(Head(flow)) \cup Elements(allLogs)
      BY <2>1, <2>2, ElementsConcat
    <3> QED
      BY <3>3, <3>4
  <2>6. Emitted = Elements(Head(flow)) \cup Emitted'
    BY <2>2 DEF Emitted
  <2>7. ToEmit' = ToEmit
    BY <2>1 DEF ToEmit
  <2> QED
    BY <2>1, <2>3, <2>5, <2>6, <2>7 DEF ScreenInv, Coming
<1>4. CASE clearLogs
  <2>1. logCache' = <<>> /\ UNCHANGED <<flow, overflowed>>
    BY <1>4 DEF clearLogs
  <2> QED
    BY <2>1, NoElements DEF ScreenInv
<1>5. CASE ClearScreen
  BY <1>5 DEF ClearScreen, repository, ScreenInv, Coming, Emitted, ToEmit
<1>6. CASE CloseScreen
  <2>1. flow' = <<>> /\ screen' = "closed"
    BY <1>6 DEF CloseScreen
  <2> QED
    BY <2>1, Bounds DEF ScreenInv
<1> QED
  BY <1>1, <1>2, <1>3, <1>4, <1>5, <1>6 DEF Screen

\* Every step keeps the screen complete.
LEMMA NextScreen == TypeOK /\ ScreenInv /\ [Next]_vars => ScreenInv'
<1>1. ScreenInv /\ UNCHANGED <<repository, view>> => ScreenInv'
  BY DEF ScreenInv, Coming, Emitted, ToEmit, repository, view
<1>2. \/ log \/ bindToService \/ Connection \/ flushQueue \/ StartService
      \/ UNCHANGED vars
      => UNCHANGED <<repository, view>>
  BY DEF log, bindToService, Connection, SetService, SetState, flushQueue, BeginFlush, ReceiveEntry,
         EndReceive, SendBatch, StartService, vars
<1> QED
  BY <1>1, <1>2, ServiceKeepsScreen, ScreenKeepsScreen DEF Next

\* The open screen shows every entry of the cache, or is about to: whenever it subscribes, loads,
\* clears itself or is closed while batches arrive (LogFragment with LogRepository), as long as it
\* has neither missed a list nor cut its own.
THEOREM NothingMissesTheScreen == Spec => []ScreenIsComplete
<1>1. Spec => []ScreenInv
  BY TypeCorrect, InitScreen, NextScreen, PTL DEF Spec
<1>2. ScreenInv => ScreenIsComplete
  BY DEF ScreenInv, ScreenIsComplete, Coming, Emitted, ToEmit
<1> QED
  BY <1>1, <1>2, PTL

----------------------------------------------------------------------------
(* The proxy flushes only to a service it has.                             *)

\* A callback of the present service is the last one, and when the proxy has that service, there are
\* none to come.  Unless the connection has failed, the proxy has the present service, or has not
\* begun to flush and is about to get it.
ConnectionInv ==
    /\ service <= services /\ loggerService <= services
    /\ \A i \in 1 .. Len(callbacks) :
          /\ callbacks[i] <= services
          /\ service # Null /\ callbacks[i] = service => i = Len(callbacks)
    /\ service # Null /\ loggerService = service => callbacks = <<>>
    /\ callback = "DISCONNECTED" => loggerService = Null
    /\ ~failed =>
          \/ service # Null /\ loggerService = service
          \/ /\ state # "CONNECTED" /\ flushing = "delay" /\ callback = "none"
             /\ \A i \in 1 .. Len(callbacks) : service # Null /\ callbacks[i] = service

\* Before bindService nothing has been delivered.
LEMMA InitConnection == Init => ConnectionInv
  BY Bounds DEF Init, ConnectionInv, Null

\* The steps that the present service and its callbacks take part in.
LEMMA SetServiceKeepsConnection ==
    ASSUME TypeOK, ConnectionInv, SetService
    PROVE  ConnectionInv'
<1>1. /\ UNCHANGED <<service, services, state, flushing, failed>>
      /\ callback = "none" /\ callbacks # <<>>
      /\ loggerService' = Head(callbacks) /\ callbacks' = Tail(callbacks)
      /\ callback' = IF Head(callbacks) = Null THEN "DISCONNECTED" ELSE "CONNECTED"
  BY DEF SetService, delivery, flush
<1>2. /\ callbacks \in Seq(Services \cup {Null})
      /\ service \in Nat /\ services \in Nat
  BY Bounds DEF TypeOK, Services, Null
<1>3. /\ Len(callbacks) \in Nat \ {0} /\ Head(callbacks) = callbacks[1]
      /\ callbacks' \in Seq(Services \cup {Null})
      /\ Len(callbacks') = Len(callbacks) - 1
      /\ \A i \in 1 .. Len(callbacks') : callbacks'[i] = callbacks[i + 1]
  BY <1>1, <1>2
<1>4. \A i \in 1 .. Len(callbacks') : i + 1 \in 1 .. Len(callbacks)
  BY <1>3
<1>5. 1 \in 1 .. Len(callbacks) /\ loggerService' = callbacks[1]
  BY <1>1, <1>3
<1>6. \A i \in 1 .. Len(callbacks') :
         /\ callbacks'[i] <= services'
         /\ service' # Null /\ callbacks'[i] = service' => i = Len(callbacks')
  <2> SUFFICES ASSUME NEW i \in 1 .. Len(callbacks')
               PROVE  /\ callbacks'[i] <= services'
                      /\ service' # Null /\ callbacks'[i] = service' => i = Len(callbacks')
    OBVIOUS
  <2> DEFINE k == i + 1
  <2>1. k \in 1 .. Len(callbacks) /\ callbacks'[i] = callbacks[k] /\ i = k - 1
    BY <1>3, <1>4
  <2> HIDE DEF k
  <2>2. callbacks[k] <= services /\ (service # Null /\ callbacks[k] = service => k = Len(callbacks))
    BY <2>1 DEF ConnectionInv
  <2> QED
    BY <1>1, <1>3, <2>1, <2>2
<1>7. service' # Null /\ loggerService' = service' => callbacks' = <<>>
  <2>1. service' # Null /\ loggerService' = service' => Len(callbacks) = 1
    BY <1>1, <1>5 DEF ConnectionInv
  <2>2. callbacks' \in Seq(Services \cup {Null}) /\ (Len(callbacks) = 1 => Len(callbacks') = 0)
    BY <1>3
  <2>3. Len(callbacks') = 0 => callbacks' = <<>>
    BY <2>2
  <2> QED
    BY <2>1, <2>2, <2>3
<1>8. ~failed' => service' # Null /\ loggerService' = service'
  BY <1>1, <1>3, <1>5 DEF ConnectionInv
<1>9. loggerService' <= services'
  BY <1>1, <1>5 DEF ConnectionInv
<1> QED
  BY <1>1, <1>6, <1>7, <1>8, <1>9 DEF ConnectionInv

\* A service that starts sends the last callback.
LEMMA StartServiceKeepsConnection ==
    ASSUME TypeOK, ConnectionInv, StartService
    PROVE  ConnectionInv'
<1>1. /\ UNCHANGED <<loggerService, callback, state, flushing, failed>>
      /\ service = Null /\ services' = services + 1 /\ service' = services + 1
      /\ callbacks' = Append(callbacks, services + 1)
  BY DEF StartService, flush
<1>2. /\ callbacks \in Seq(Services \cup {Null}) /\ services \in Nat
      /\ loggerService \in Nat /\ Len(callbacks) \in Nat
      /\ \A i \in 1 .. Len(callbacks) : callbacks[i] \in Nat
  BY Bounds DEF TypeOK, Services, Null
<1>3. /\ Len(callbacks') = Len(callbacks) + 1
      /\ callbacks'[Len(callbacks) + 1] = services + 1
      /\ \A i \in 1 .. Len(callbacks) : callbacks'[i] = callbacks[i]
  BY <1>1, <1>2
<1>4. \A i \in 1 .. Len(callbacks') :
         \/ i \in 1 .. Len(callbacks) /\ callbacks'[i] = callbacks[i] /\ callbacks[i] <= services
         \/ i = Len(callbacks') /\ callbacks'[i] = services + 1
  BY <1>2, <1>3 DEF ConnectionInv
<1>5. \A i \in 1 .. Len(callbacks') :
         /\ callbacks'[i] <= services'
         /\ callbacks'[i] = service' => i = Len(callbacks')
  BY <1>1, <1>2, <1>4
<1>6. loggerService' <= services /\ loggerService' # service' /\ loggerService' <= services'
  BY <1>1, <1>2 DEF ConnectionInv
<1>7. ~failed' =>
         /\ state' # "CONNECTED" /\ flushing' = "delay" /\ callback' = "none"
         /\ \A i \in 1 .. Len(callbacks') : service' # Null /\ callbacks'[i] = service'
  <2>1. ~failed => /\ state # "CONNECTED" /\ flushing = "delay" /\ callback = "none"
                   /\ Len(callbacks) = 0
    BY <1>1, <1>2 DEF ConnectionInv
  <2> QED
    BY <1>1, <1>2, <1>3, <2>1 DEF Null
<1>8. service' <= services'
  BY <1>1, <1>2
<1> QED
  BY <1>1, <1>5, <1>6, <1>7, <1>8 DEF ConnectionInv

\* A service that dies takes the wire with it and sends its callback after all others.
LEMMA ServiceDiesKeepsConnection ==
    ASSUME TypeOK, ConnectionInv, ServiceDies
    PROVE  ConnectionInv'
<1>1. /\ UNCHANGED <<loggerService, callback, services>> /\ failed' /\ service' = Null
      /\ callbacks' = Append(callbacks, Null)
  BY DEF ServiceDies
<1>2. callbacks \in Seq(Services \cup {Null}) /\ services \in Nat
  BY DEF TypeOK
<1>3. /\ Len(callbacks') = Len(callbacks) + 1 /\ Len(callbacks) \in Nat
      /\ callbacks'[Len(callbacks) + 1] = Null
      /\ \A i \in 1 .. Len(callbacks) : callbacks'[i] = callbacks[i]
  BY <1>1, <1>2
<1>4. \A i \in 1 .. Len(callbacks') : callbacks'[i] <= services'
  <2>1. \A i \in 1 .. Len(callbacks') : i \in 1 .. Len(callbacks) \/ i = Len(callbacks) + 1
    BY <1>3
  <2> QED
    BY <1>1, <1>2, <1>3, <2>1 DEF ConnectionInv, Null
<1> QED
  BY <1>1, <1>2, <1>4 DEF ConnectionInv, Null

\* Every step keeps the connection so.
LEMMA NextConnection == TypeOK /\ ConnectionInv /\ [Next]_vars => ConnectionInv'
<1> SUFFICES ASSUME TypeOK, ConnectionInv, [Next]_vars PROVE ConnectionInv'
  OBVIOUS
<1>1. CASE UNCHANGED <<loggerService, callbacks, callback, state, flushing, service, services, failed>>
  BY <1>1 DEF ConnectionInv
<1>2. CASE bindToService
  BY <1>2 DEF bindToService, flush, delivery, ConnectionInv
<1>3. CASE SetState
  BY <1>3 DEF SetState, flush, delivery, NewState, ConnectionInv
<1>4. CASE BeginFlush
  BY <1>4 DEF BeginFlush, MayFlush, proxy, delivery, ConnectionInv
<1>5. CASE EndReceive
  BY <1>5 DEF EndReceive, proxy, delivery, ConnectionInv
<1>6. CASE SendBatch
  BY <1>6 DEF SendBatch, proxy, ConnectionInv
<1>7. log \/ ReceiveEntry \/ logBatch \/ addLogs \/ Screen \/ UNCHANGED vars =>
         UNCHANGED <<loggerService, callbacks, callback, state, flushing, service, services, failed>>
  BY DEF log, ReceiveEntry, logBatch, addLogs, AddToCache, Emit, Screen, Subscribe, loadLogs,
         processNewLogs, clearLogs, ClearScreen, CloseScreen, vars, proxy, flush, delivery
<1> QED
  BY <1>1, <1>2, <1>3, <1>4, <1>5, <1>6, <1>7, SetServiceKeepsConnection,
     StartServiceKeepsConnection, ServiceDiesKeepsConnection DEF Next, Connection, flushQueue

----------------------------------------------------------------------------
(* Entries wait in order, each in one place.                               *)

\* In the order in which they were logged, and in the opposite order.
Increasing(entries) == \A i, j \in 1 .. Len(entries) : i < j => entries[i] < entries[j]
Decreasing(entries) == \A i, j \in 1 .. Len(entries) : i < j => entries[i] > entries[j]

\* Every entry of the one was logged before every entry of the other.
Before(older, newer) == \A x \in older, y \in newer : x < y

\* The places where an entry waits.
InChannel == Elements(logChannel)
InBatch == Elements(batch)
InWire == UNION {Elements(sent) : sent \in Elements(wire)}
Pending == {j \in jobs : ~j.added}
InJobs == UNION {Elements(job.entries) : job \in Pending}

\* Entries wait in the order in which they were logged, each in one place; only the coroutines, which
\* may overtake one another, hold theirs in no order.
OrderInv ==
    /\ Len(logChannel) <= CHANNEL_CAPACITY
    /\ Waiting \subseteq 1 .. logged
    /\ Increasing(logChannel) /\ Increasing(batch)
    /\ \A i \in 1 .. Len(wire) : Increasing(wire[i])
    /\ \A i, j \in 1 .. Len(wire) : i < j => Before(Elements(wire[i]), Elements(wire[j]))
    /\ \A job \in Pending : Decreasing(job.entries)
    /\ \A job, other \in Pending :
          job # other => Elements(job.entries) \cap Elements(other.entries) = {}
    /\ Before(InBatch, InChannel)
    /\ Before(InWire, InBatch \cup InChannel)
    /\ Before(InJobs, InWire \cup InBatch \cup InChannel)

\* Before the first entry nothing waits.
LEMMA InitOrder == Init => OrderInv
<1> SUFFICES ASSUME Init PROVE OrderInv
  OBVIOUS
<1>1. logChannel = <<>> /\ batch = <<>> /\ wire = <<>> /\ jobs = {} /\ logged = 0
  BY DEF Init
<1>2. InChannel = {} /\ InBatch = {} /\ InWire = {} /\ InJobs = {} /\ Pending = {}
  BY <1>1, NoElements DEF InChannel, InBatch, InWire, InJobs, Pending
<1>3. Waiting = {}
  BY <1>2 DEF Waiting, InChannel, InBatch, InWire, InJobs, Pending
<1> QED
  BY <1>1, <1>2, <1>3, Bounds DEF OrderInv, Increasing, Before

\* What waits are entries.
LEMMA PlacesType ==
    ASSUME TypeOK
    PROVE  /\ Waiting = InChannel \cup InBatch \cup InWire \cup InJobs
           /\ InChannel \subseteq Entries /\ InBatch \subseteq Entries
           /\ InWire \subseteq Entries /\ InJobs \subseteq Entries
           /\ Entries \subseteq Nat
<1>1. InChannel \subseteq Entries /\ InBatch \subseteq Entries
  BY ElementsAre DEF InChannel, InBatch, TypeOK
<1>2. InWire \subseteq Entries
  <2>1. \A sent \in Elements(wire) : sent \in Seq(Entries)
    BY ElementsAre DEF TypeOK
  <2>2. \A sent \in Elements(wire) : Elements(sent) \subseteq Entries
    BY <2>1, ElementsAre
  <2> QED
    BY <2>2 DEF InWire
<1>3. InJobs \subseteq Entries
  <2>1. \A job \in Pending : job.entries \in Seq(Entries)
    BY DEF Pending, TypeOK, Job
  <2>2. \A job \in Pending : Elements(job.entries) \subseteq Entries
    BY <2>1, ElementsAre
  <2> QED
    BY <2>2 DEF InJobs
<1>4. Waiting = InChannel \cup InBatch \cup InWire \cup InJobs
  BY DEF Waiting, InChannel, InBatch, InWire, InJobs, Pending
<1>5. Entries \subseteq Nat
  BY Bounds DEF Entries
<1> QED
  BY <1>1, <1>2, <1>3, <1>4, <1>5

\* An entry logged last may be put last.
LEMMA IncreasingAppend ==
    ASSUME NEW q \in Seq(Entries), NEW e \in Entries, Increasing(q),
           \A x \in Elements(q) : x < e
    PROVE  Increasing(Append(q, e))
<1> DEFINE r == Append(q, e)
<1>1. /\ Len(r) = Len(q) + 1 /\ r[Len(q) + 1] = e /\ Len(q) \in Nat
      /\ \A i \in 1 .. Len(q) : r[i] = q[i] /\ q[i] < e
  BY ElementsAre
<1> HIDE DEF r
<1>2. ASSUME NEW i \in 1 .. Len(r), NEW j \in 1 .. Len(r), i < j PROVE r[i] < r[j]
  <2>1. i \in 1 .. Len(q) /\ (j \in 1 .. Len(q) \/ j = Len(q) + 1)
    BY <1>1, <1>2
  <2> QED
    BY <1>1, <1>2, <2>1 DEF Increasing
<1> QED
  BY <1>2 DEF Increasing, r

\* The tail of a sequence in order is in order, and later than its head.
LEMMA IncreasingTail ==
    ASSUME NEW q \in Seq(Entries), q # <<>>, Increasing(q)
    PROVE  /\ Increasing(Tail(q))
           /\ \A x \in Elements(Tail(q)) : Head(q) < x
<1> DEFINE r == Tail(q)
<1>1. /\ r \in Seq(Entries) /\ Len(r) = Len(q) - 1 /\ Head(q) = q[1] /\ Len(q) \in Nat \ {0}
      /\ \A i \in 1 .. Len(r) : r[i] = q[i + 1]
  OBVIOUS
<1> HIDE DEF r
<1>2. \A i \in 1 .. Len(r) : i + 1 \in 1 .. Len(q) /\ 1 < i + 1 /\ 1 \in 1 .. Len(q)
  BY <1>1
<1>3. \A i, j \in 1 .. Len(r) : i < j => i + 1 < j + 1
  BY <1>1
<1>4. Increasing(r)
  BY <1>1, <1>2, <1>3 DEF Increasing
<1>5. \A i \in 1 .. Len(r) : Head(q) < r[i]
  BY <1>1, <1>2 DEF Increasing
<1>6. Elements(r) = {r[i] : i \in 1 .. Len(r)}
  BY <1>1, ElementsAre
<1> QED
  BY <1>4, <1>5, <1>6 DEF r

\* The reverse of a sequence in order is in the opposite order.
LEMMA DecreasingReversed ==
    ASSUME NEW q \in Seq(Entries), Increasing(q)
    PROVE  Decreasing(reversed(q))
<1> DEFINE r == reversed(q)
<1>1. /\ Len(r) = Len(q) /\ Len(q) \in Nat
      /\ \A i \in 1 .. Len(q) : r[i] = q[Len(q) + 1 - i] /\ q[i] \in Nat
  <2>1. \A i \in 1 .. Len(q) : q[i] \in Entries
    OBVIOUS
  <2>2. Entries \subseteq Nat
    BY Bounds DEF Entries
  <2>3. r \in Seq(Entries) /\ r = [i \in 1 .. Len(q) |-> q[Len(q) + 1 - i]]
    BY ReversedType DEF reversed
  <2> HIDE DEF r
  <2>4. DOMAIN r = 1 .. Len(q) /\ DOMAIN r = 1 .. Len(r) /\ Len(q) \in Nat /\ Len(r) \in Nat
    BY <2>3
  <2>5. Len(r) = Len(q)
    BY <2>4
  <2> QED
    BY <2>1, <2>2, <2>3, <2>4, <2>5
<1> HIDE DEF r
<1>2. ASSUME NEW i \in 1 .. Len(r), NEW j \in 1 .. Len(r), i < j PROVE r[i] > r[j]
  <2> DEFINE a == Len(q) + 1 - i
             b == Len(q) + 1 - j
  <2>1. a \in 1 .. Len(q) /\ b \in 1 .. Len(q) /\ b < a /\ r[i] = q[a] /\ r[j] = q[b]
    BY <1>1, <1>2
  <2> HIDE DEF a, b
  <2>2. q[b] < q[a] /\ q[a] \in Nat /\ q[b] \in Nat
    BY <1>1, <2>1 DEF Increasing
  <2> QED
    BY <2>1, <2>2
<1> QED
  BY <1>2 DEF Decreasing, r

\* Steps that leave all the places alone.
LEMMA OrderStays ==
    ASSUME TypeOK, OrderInv, UNCHANGED <<logged, logChannel, batch, wire>>, Pending' = Pending
    PROVE  OrderInv' /\ Waiting' = Waiting
<1>1. UNCHANGED <<InChannel, InBatch, InWire, InJobs>>
  BY DEF InChannel, InBatch, InWire, InJobs
<1>2. Waiting' = Waiting
  BY <1>1 DEF Waiting, InChannel, InBatch, InWire, InJobs, Pending
<1> QED
  BY <1>1, <1>2 DEF OrderInv, Increasing, Decreasing

\* A new entry is the last one of the channel, and pushes the oldest one out of a full channel.
LEMMA LogKeepsOrder ==
    ASSUME TypeOK, OrderInv, log
    PROVE  /\ OrderInv'
           /\ \/ Waiting' = Waiting \cup {logged'}
              \/ /\ Len(logChannel) = CHANNEL_CAPACITY /\ logChannel # <<>>
                 /\ Waiting' = (Waiting \ {Head(logChannel)}) \cup {logged'}
<1> DEFINE e == logged + 1
<1>1. /\ logged' = e /\ UNCHANGED <<batch, wire, jobs>>
      /\ logChannel' = DropOldest(Append(logChannel, e), CHANNEL_CAPACITY)
      /\ logChannel \in Seq(Entries) /\ e \in Entries /\ logged \in Nat
      /\ CHANNEL_CAPACITY \in Nat \ {0} /\ Len(logChannel) <= CHANNEL_CAPACITY
      /\ Increasing(logChannel)
  BY Bounds DEF log, flush, delivery, repository, TypeOK, Entries, OrderInv
<1>2. \A x \in Waiting : x < e /\ x \in Nat
  <2>1. \A x \in 1 .. logged : x < logged + 1 /\ x \in Nat
    BY <1>1
  <2> QED
    BY <2>1 DEF OrderInv, e
<1>3. InBatch' = InBatch /\ InWire' = InWire /\ InJobs' = InJobs /\ Pending' = Pending
  BY <1>1 DEF InBatch, InWire, InJobs, Pending
<1>4. /\ Waiting = InChannel \cup InBatch \cup InWire \cup InJobs
      /\ Waiting' = InChannel' \cup InBatch \cup InWire \cup InJobs
  BY <1>3, PlacesType DEF Waiting, InChannel, InBatch, InWire, InJobs, Pending
<1> HIDE DEF e
<1>8. Len(Append(logChannel, e)) = Len(logChannel) + 1 /\ Len(logChannel) \in Nat
  BY <1>1
<1>5. CASE Len(logChannel) < CHANNEL_CAPACITY
  <2>1. logChannel' = Append(logChannel, e)
    BY <1>8, <1>1, <1>5 DEF DropOldest
  <2>2. InChannel' = InChannel \cup {e}
    BY <1>1, <2>1, ElementsAppend DEF InChannel
  <2>3. Increasing(logChannel')
    BY <1>1, <1>2, <1>4, <2>1, IncreasingAppend DEF InChannel
  <2>4. Len(logChannel') <= CHANNEL_CAPACITY
    BY <1>1, <1>5, <2>1
  <2>5. Waiting' = Waiting \cup {e}
    BY <1>4, <2>2
  <2>6. Waiting' \subseteq 1 .. logged'
    BY <1>1, <2>5 DEF OrderInv, e
  <2>7. Before(InBatch', InChannel') /\ Before(InWire', InBatch' \cup InChannel')
    BY <1>2, <1>3, <1>4, <2>2 DEF OrderInv, Before
  <2>8. Before(InJobs', InWire' \cup InBatch' \cup InChannel')
    BY <1>2, <1>3, <1>4, <2>2 DEF OrderInv, Before
  <2> QED
    BY <1>1, <1>3, <2>3, <2>4, <2>5, <2>6, <2>7, <2>8 DEF OrderInv, Increasing, e
<1>6. CASE Len(logChannel) = CHANNEL_CAPACITY
  <2> DEFINE h == Head(logChannel)
             r == Tail(logChannel)
  <2>1. logChannel # <<>> /\ logChannel' = Append(r, e) /\ Len(logChannel') <= CHANNEL_CAPACITY
    <3>1. logChannel # <<>> /\ Len(r) = Len(logChannel) - 1 /\ r \in Seq(Entries)
      BY <1>1, <1>6
    <3>2. logChannel' = Tail(Append(logChannel, e))
      BY <1>8, <1>1, <1>6 DEF DropOldest
    <3>3. Tail(Append(logChannel, e)) = Append(r, e)
      BY <1>1, <3>1, HeadTailAppend DEF r
    <3>4. Len(Append(r, e)) = Len(r) + 1
      BY <1>1, <3>1
    <3> QED
      BY <1>1, <1>6, <1>8, <3>1, <3>2, <3>3, <3>4
  <2>2. /\ h \in Entries /\ r \in Seq(Entries) /\ InChannel = {h} \cup Elements(r)
        /\ Increasing(r) /\ \A x \in Elements(r) : h < x
    BY <1>1, <2>1, ElementsTail, IncreasingTail DEF InChannel
  <2> HIDE DEF h, r
  <2>3. InChannel' = Elements(r) \cup {e}
    BY <1>1, <2>1, <2>2, ElementsAppend DEF InChannel
  <2>4. Increasing(logChannel')
    BY <1>1, <1>2, <1>4, <2>1, <2>2, IncreasingAppend
  <2>5. h \notin Elements(r) /\ h \notin InBatch /\ h \notin InWire /\ h \notin InJobs /\ h # e
    BY <1>2, <1>4, <2>2 DEF OrderInv, Before
  <2>6. Waiting' = (Waiting \ {h}) \cup {e}
    BY <1>4, <2>2, <2>3, <2>5
  <2>7. Waiting' \subseteq 1 .. logged'
    <3>1. \A x \in 1 .. logged : x \in 1 .. logged + 1
      BY <1>1
    <3>2. e \in 1 .. logged + 1 /\ logged' = logged + 1
      BY <1>1 DEF e
    <3> QED
      BY <2>6, <3>1, <3>2 DEF OrderInv
  <2>9. Before(InBatch', InChannel') /\ Before(InWire', InBatch' \cup InChannel')
    BY <1>2, <1>3, <1>4, <2>2, <2>3 DEF OrderInv, Before
  <2>10. Before(InJobs', InWire' \cup InBatch' \cup InChannel')
    BY <1>2, <1>3, <1>4, <2>2, <2>3 DEF OrderInv, Before
  <2>8. OrderInv'
    BY <1>1, <1>3, <2>1, <2>4, <2>7, <2>9, <2>10 DEF OrderInv, Increasing
  <2> QED
    BY <1>1, <1>6, <2>1, <2>6, <2>8 DEF h
<1>7. Len(logChannel) \in Nat
  BY <1>1
<1> QED
  BY <1>1, <1>5, <1>6, <1>7

\* An entry moves from the channel to the end of the batch.
LEMMA ReceiveKeepsOrder ==
    ASSUME TypeOK, OrderInv, ReceiveEntry
    PROVE  OrderInv' /\ Waiting' = Waiting
<1> DEFINE h == Head(logChannel)
           r == Tail(logChannel)
<1>1. /\ logChannel # <<>> /\ logChannel' = r /\ batch' = Append(batch, h)
      /\ UNCHANGED <<logged, wire, jobs>>
      /\ logChannel \in Seq(Entries) /\ batch \in Seq(Entries)
      /\ Increasing(logChannel) /\ Increasing(batch)
  BY DEF ReceiveEntry, repository, delivery, TypeOK, OrderInv
<1>2. /\ h \in Entries /\ r \in Seq(Entries) /\ InChannel = {h} \cup Elements(r)
      /\ Increasing(r) /\ \A x \in Elements(r) : h < x
  BY <1>1, ElementsTail, IncreasingTail DEF InChannel
<1>3. Len(r) = Len(logChannel) - 1 /\ Len(logChannel) \in Nat
  BY <1>1
<1> HIDE DEF h, r
<1>4. InChannel' = Elements(r)
  BY <1>1 DEF InChannel
<1>5. InBatch' = InBatch \cup {h}
  BY <1>1, <1>2, ElementsAppend DEF InBatch
<1>6. \A x \in Elements(batch) : x < h
  BY <1>2 DEF OrderInv, Before, InBatch
<1>7. Increasing(batch')
  BY <1>1, <1>2, <1>6, IncreasingAppend
<1>8. InWire' = InWire /\ InJobs' = InJobs /\ Pending' = Pending
  BY <1>1 DEF InWire, InJobs, Pending
<1>9. Waiting' = Waiting
  BY <1>2, <1>4, <1>5, <1>8 DEF Waiting, InChannel, InBatch, InWire, InJobs, Pending
<1>10. InBatch' \cup InChannel' = InBatch \cup InChannel
  BY <1>2, <1>4, <1>5
<1>11. Before(InBatch, InChannel)'
  BY <1>2, <1>4, <1>5 DEF OrderInv, Before
<1>12. Len(logChannel') <= CHANNEL_CAPACITY
  BY <1>1, <1>3, Bounds DEF OrderInv
<1>13. Before(InWire', InBatch' \cup InChannel')
  BY <1>8, <1>10 DEF OrderInv
<1>14. Before(InJobs', InWire' \cup InBatch' \cup InChannel')
  BY <1>2, <1>4, <1>5, <1>8 DEF OrderInv, Before
<1> QED
  BY <1>1, <1>2, <1>7, <1>8, <1>9, <1>11, <1>12, <1>13, <1>14 DEF OrderInv, Before

\* The batches of the wire are in the places that InWire names.
LEMMA WireElements ==
    ASSUME TypeOK
    PROVE  /\ \A i \in 1 .. Len(wire) : wire[i] \in Seq(Entries) /\ Elements(wire[i]) \subseteq InWire
           /\ \A x \in InWire : \E i \in 1 .. Len(wire) : x \in Elements(wire[i])
<1>1. wire \in Seq(Seq(Entries))
  BY DEF TypeOK
<1>2. Elements(wire) = {wire[i] : i \in 1 .. Len(wire)} /\ Elements(wire) \subseteq Seq(Entries)
  BY <1>1, ElementsAre
<1>3. \A i \in 1 .. Len(wire) : wire[i] \in Elements(wire)
  BY <1>2
<1>4. \A i \in 1 .. Len(wire) : wire[i] \in Seq(Entries) /\ Elements(wire[i]) \subseteq InWire
  BY <1>2, <1>3 DEF InWire
<1>5. ASSUME NEW x \in InWire PROVE \E i \in 1 .. Len(wire) : x \in Elements(wire[i])
  <2>1. PICK sent \in Elements(wire) : x \in Elements(sent)
    BY <1>5 DEF InWire
  <2>2. PICK i \in 1 .. Len(wire) : sent = wire[i]
    BY <1>2, <2>1
  <2> QED
    BY <2>1, <2>2
<1> QED
  BY <1>4, <1>5

\* The batch moves to the end of the wire.
LEMMA SendKeepsOrder ==
    ASSUME TypeOK, OrderInv, SendBatch
    PROVE  /\ OrderInv' /\ Waiting' \subseteq Waiting
           /\ wire' # wire => Waiting' = Waiting
<1>1. /\ batch' = <<>> /\ UNCHANGED <<logged, logChannel, jobs>>
      /\ wire' = wire \/ wire' = Append(wire, batch)
      /\ wire \in Seq(Seq(Entries)) /\ batch \in Seq(Entries)
      /\ Len(wire) \in Nat
  BY DEF SendBatch, proxy, repository, TypeOK
<1>2. InChannel' = InChannel /\ InJobs' = InJobs /\ Pending' = Pending
  BY <1>1 DEF InChannel, InJobs, Pending
<1>3. InBatch' = {} /\ Increasing(batch')
  BY <1>1, NoElements DEF InBatch, Increasing
<1>4. /\ Waiting = InChannel \cup InBatch \cup InWire \cup InJobs
      /\ Waiting' = InChannel' \cup InBatch' \cup InWire' \cup InJobs'
  BY DEF Waiting, InChannel, InBatch, InWire, InJobs, Pending
<1>5. CASE wire' = wire
  <2>1. InWire' = InWire
    BY <1>5 DEF InWire
  <2>2. Waiting' \subseteq Waiting
    BY <1>2, <1>3, <1>4, <2>1
  <2>3. Before(InBatch, InChannel)' /\ Before(InWire, InBatch \cup InChannel)'
    BY <1>2, <1>3, <2>1 DEF OrderInv, Before
  <2>4. Before(InJobs, InWire \cup InBatch \cup InChannel)'
    BY <1>2, <1>3, <2>1 DEF OrderInv, Before
  <2> QED
    BY <1>1, <1>2, <1>3, <1>5, <2>2, <2>3, <2>4 DEF OrderInv, Increasing, Before
<1>6. CASE wire' = Append(wire, batch)
  <2>1. /\ Len(wire') = Len(wire) + 1 /\ wire'[Len(wire) + 1] = batch
        /\ \A i \in 1 .. Len(wire) : wire'[i] = wire[i]
        /\ \A i \in 1 .. Len(wire') : i \in 1 .. Len(wire) \/ i = Len(wire) + 1
    BY <1>1, <1>6
  <2>2. InWire' = InWire \cup InBatch
    <3>1. Elements(wire') = Elements(wire) \cup {batch}
      BY <1>1, <1>6, ElementsAppend
    <3> QED
      BY <3>1 DEF InWire, InBatch
  <2>3. Waiting' = Waiting
    BY <1>2, <1>3, <1>4, <2>2
  <2>4. \A i \in 1 .. Len(wire') : Increasing(wire'[i])
    BY <2>1 DEF OrderInv
  <2>5. \A i, j \in 1 .. Len(wire') : i < j => Before(Elements(wire'[i]), Elements(wire'[j]))
    <3>1. ASSUME NEW i \in 1 .. Len(wire'), NEW j \in 1 .. Len(wire'), i < j
          PROVE  Before(Elements(wire'[i]), Elements(wire'[j]))
      <4>1. i \in 1 .. Len(wire) /\ wire'[i] = wire[i]
        BY <1>1, <2>1, <3>1
      <4>2. CASE j \in 1 .. Len(wire)
        BY <2>1, <3>1, <4>1, <4>2 DEF OrderInv
      <4>3. CASE j = Len(wire) + 1
        BY <2>1, <4>1, <4>3, WireElements DEF OrderInv, Before, InBatch
      <4> QED
        BY <2>1, <4>2, <4>3
    <3> QED
      BY <3>1
  <2>6. Before(InBatch, InChannel)' /\ Before(InWire, InBatch \cup InChannel)'
    BY <1>2, <1>3, <2>2 DEF OrderInv, Before
  <2>7. Before(InJobs, InWire \cup InBatch \cup InChannel)'
    BY <1>2, <1>3, <2>2 DEF OrderInv, Before
  <2> QED
    BY <1>1, <1>2, <1>3, <2>3, <2>4, <2>5, <2>6, <2>7 DEF OrderInv, Increasing
<1> QED
  BY <1>1, <1>5, <1>6

\* The oldest batch of the wire becomes that of a coroutine, and is older than all on the wire.
LEMMA LogBatchKeepsOrder ==
    ASSUME TypeOK, OrderInv, logBatch
    PROVE  OrderInv' /\ Waiting' = Waiting
<1> DEFINE first == Head(wire)
           rest == Tail(wire)
           new == [entries |-> reversed(first), added |-> FALSE]
<1>1. /\ wire # <<>> /\ wire' = rest /\ jobs' = jobs \cup {new}
      /\ UNCHANGED <<logged, logChannel, batch>>
      /\ wire \in Seq(Seq(Entries))
  BY DEF logBatch, proxy, flush, TypeOK
<1>2. /\ first = wire[1] /\ Len(rest) = Len(wire) - 1 /\ Len(wire) \in Nat \ {0}
      /\ \A i \in 1 .. Len(rest) : rest[i] = wire[i + 1] /\ i + 1 \in 1 .. Len(wire) /\ 1 < i + 1
      /\ 1 \in 1 .. Len(wire)
      /\ \A i, j \in 1 .. Len(rest) : i < j => i + 1 < j + 1
  BY <1>1
<1>3. /\ first \in Seq(Entries) /\ rest \in Seq(Seq(Entries))
      /\ Elements(wire) = {first} \cup Elements(rest)
  BY <1>1, ElementsTail
<1>4. ~new.added /\ new.entries = reversed(first)
  OBVIOUS
<1> HIDE DEF first, rest, new
<1>5. Pending' = Pending \cup {new}
  BY <1>1, <1>4 DEF Pending
<1>6. Elements(new.entries) = Elements(first) /\ Decreasing(new.entries) /\ Increasing(first)
  BY <1>2, <1>3, <1>4, ElementsReversed, DecreasingReversed DEF OrderInv
<1>7. InWire = Elements(first) \cup InWire'
  BY <1>1, <1>3 DEF InWire
<1>8. InJobs' = InJobs \cup Elements(first)
  BY <1>5, <1>6 DEF InJobs
<1>9. InChannel' = InChannel /\ InBatch' = InBatch
  BY <1>1 DEF InChannel, InBatch
<1>10. Waiting' = Waiting
  BY <1>7, <1>8, <1>9 DEF Waiting, InChannel, InBatch, InWire, InJobs, Pending
<1>11. Before(Elements(first), InWire')
  <2>1. \A i \in 1 .. Len(rest) : Before(Elements(first), Elements(rest[i]))
    BY <1>2 DEF OrderInv
  <2>2. Elements(rest) = {rest[i] : i \in 1 .. Len(rest)}
    BY <1>3, ElementsAre
  <2>3. \A sent \in Elements(rest) : Before(Elements(first), Elements(sent))
    BY <2>1, <2>2
  <2> QED
    BY <1>1, <2>3 DEF InWire, Before
<1>12. \A job \in Pending : Elements(job.entries) \cap Elements(first) = {}
  <2>1. \A x \in InWire : x \notin InJobs
    <3>1. \A x \in InWire : x < x \/ x \notin InJobs
      BY DEF OrderInv, Before
    <3>2. InWire \subseteq Nat
      BY PlacesType
    <3>3. \A x \in Nat : ~(x < x)
      OBVIOUS
    <3> QED
      BY <3>1, <3>2, <3>3
  <2>2. \A job \in Pending : Elements(job.entries) \subseteq InJobs
    BY DEF InJobs
  <2> QED
    BY <1>7, <2>1, <2>2
<1>13. \A job \in Pending' : Decreasing(job.entries)
  BY <1>5, <1>6 DEF OrderInv
<1>14. \A job, other \in Pending' :
          job # other => Elements(job.entries) \cap Elements(other.entries) = {}
  BY <1>5, <1>6, <1>12 DEF OrderInv
<1>15. \A i \in 1 .. Len(wire') : Increasing(wire'[i])
  BY <1>1, <1>2 DEF OrderInv
<1>16. \A i, j \in 1 .. Len(wire') : i < j => Before(Elements(wire'[i]), Elements(wire'[j]))
  BY <1>1, <1>2 DEF OrderInv
<1>17. Before(InWire', InBatch' \cup InChannel')
  BY <1>7, <1>9 DEF OrderInv, Before
<1>18. Before(InJobs', InWire' \cup InBatch' \cup InChannel')
  BY <1>7, <1>8, <1>9, <1>11 DEF OrderInv, Before
<1>19. Before(InBatch', InChannel')
  BY <1>9 DEF OrderInv
<1> QED
  BY <1>1, <1>10, <1>13, <1>14, <1>15, <1>16, <1>17, <1>18, <1>19 DEF OrderInv, Increasing

\* A coroutine that adds its batch takes its entries, and no others, out of those that wait.
LEMMA AddKeepsOrder ==
    ASSUME TypeOK, OrderInv, NEW job, AddToCache(job)
    PROVE  /\ OrderInv' /\ Waiting' = Waiting \ Elements(job.entries)
           /\ Elements(job.entries) \subseteq Waiting
           /\ job.entries \in Seq(Entries) /\ Decreasing(job.entries)
<1>1. /\ job \in Pending /\ job \in Job
      /\ jobs' = (jobs \ {job}) \cup {[job EXCEPT !.added = TRUE]}
      /\ UNCHANGED <<logged, logChannel, batch, wire>>
  BY DEF AddToCache, Pending, proxy, flush, delivery, TypeOK
<1>2. [job EXCEPT !.added = TRUE].added
  BY <1>1 DEF Job
<1>3. Pending' = Pending \ {job}
  BY <1>1, <1>2 DEF Pending
<1>4. job.entries \in Seq(Entries) /\ Decreasing(job.entries) /\ Elements(job.entries) \subseteq InJobs
  BY <1>1 DEF Job, OrderInv, InJobs
<1>5. InJobs' = InJobs \ Elements(job.entries)
  <2>1. ASSUME NEW other \in Pending, other # job
        PROVE  Elements(other.entries) \cap Elements(job.entries) = {}
    BY <1>1, <2>1 DEF OrderInv
  <2> QED
    BY <1>1, <1>3, <2>1 DEF InJobs
<1>6. UNCHANGED <<InChannel, InBatch, InWire>>
  BY <1>1 DEF InChannel, InBatch, InWire
<1>7. \A x \in InJobs : x \notin InChannel /\ x \notin InBatch /\ x \notin InWire
  <2>1. \A x \in InJobs : \A y \in InWire \cup InBatch \cup InChannel : x < y
    BY DEF OrderInv, Before
  <2>2. InJobs \subseteq Nat
    BY PlacesType
  <2>3. \A x \in Nat : ~(x < x)
    OBVIOUS
  <2> QED
    BY <2>1, <2>2, <2>3
<1>8. /\ Waiting = InChannel \cup InBatch \cup InWire \cup InJobs
      /\ Waiting' = InChannel' \cup InBatch' \cup InWire' \cup InJobs'
  BY DEF Waiting, InChannel, InBatch, InWire, InJobs, Pending
<1>9. Waiting' = Waiting \ Elements(job.entries)
  BY <1>4, <1>5, <1>6, <1>7, <1>8
<1>10. Before(InJobs', InWire' \cup InBatch' \cup InChannel')
  BY <1>5, <1>6 DEF OrderInv, Before
<1>11. /\ \A j \in Pending' : Decreasing(j.entries)
       /\ \A j, other \in Pending' :
             j # other => Elements(j.entries) \cap Elements(other.entries) = {}
  BY <1>3 DEF OrderInv
<1>12. Before(InBatch', InChannel') /\ Before(InWire', InBatch' \cup InChannel')
  BY <1>6 DEF OrderInv
<1>13. OrderInv'
  BY <1>1, <1>9, <1>10, <1>11, <1>12 DEF OrderInv, Increasing
<1> QED
  BY <1>4, <1>8, <1>9, <1>13

\* With the process goes what the binder and the coroutines held.
LEMMA ServiceDiesKeepsOrder ==
    ASSUME TypeOK, OrderInv, ServiceDies
    PROVE  OrderInv' /\ Waiting' \subseteq Waiting
<1>1. wire' = <<>> /\ jobs' = {} /\ UNCHANGED <<logged, logChannel, batch>>
  BY DEF ServiceDies, flush
<1>2. /\ InChannel' = InChannel /\ InBatch' = InBatch
      /\ InWire' = {} /\ InJobs' = {} /\ Pending' = {}
  BY <1>1, NoElements DEF InChannel, InBatch, InWire, InJobs, Pending
<1>3. Waiting' \subseteq Waiting
  BY <1>2 DEF Waiting, InChannel, InBatch, InWire, InJobs, Pending
<1> QED
  BY <1>1, <1>2, <1>3 DEF OrderInv, Increasing, Before

\* Steps that leave the places alone.
LEMMA EmitKeepsPlaces ==
    ASSUME TypeOK, NEW job, Emit(job)
    PROVE  UNCHANGED <<logged, logChannel, batch, wire>> /\ Pending' = Pending
<1>1. job.added /\ jobs' = jobs \ {job} /\ UNCHANGED <<proxy, flush, delivery>>
  BY DEF Emit
<1> QED
  BY <1>1 DEF Pending, proxy, flush, delivery

\* The connection, the timer and the service move no entry.
LEMMA OthersKeepPlaces ==
    ASSUME bindToService \/ Connection \/ BeginFlush \/ EndReceive \/ StartService
    PROVE  UNCHANGED <<logged, logChannel, batch, wire>> /\ Pending' = Pending
  BY DEF bindToService, Connection, SetService, SetState, BeginFlush, EndReceive, StartService,
         Pending, proxy, flush, delivery, repository

\* The screen moves no entry that waits.
LEMMA ScreenKeepsPlaces ==
    ASSUME Screen \/ UNCHANGED vars
    PROVE  UNCHANGED <<logged, logChannel, batch, wire>> /\ Pending' = Pending
  BY DEF Screen, Subscribe, loadLogs, processNewLogs, clearLogs, ClearScreen, CloseScreen,
         vars, Pending, proxy, flush, delivery, repository

\* Every step keeps the order of what waits.
LEMMA NextOrder ==
    ASSUME TypeOK, OrderInv, [Next]_vars
    PROVE  OrderInv'
<1>1. CASE log
  BY <1>1, LogKeepsOrder
<1>2. CASE ReceiveEntry
  BY <1>2, ReceiveKeepsOrder
<1>3. CASE SendBatch
  BY <1>3, SendKeepsOrder
<1>4. CASE logBatch
  BY <1>4, LogBatchKeepsOrder
<1>5. ASSUME NEW job \in jobs, AddToCache(job) PROVE OrderInv'
  BY <1>5, AddKeepsOrder
<1>6. CASE ServiceDies
  BY <1>6, ServiceDiesKeepsOrder
<1>7. ASSUME NEW job \in jobs, Emit(job) PROVE OrderInv'
  BY <1>7, EmitKeepsPlaces, OrderStays
<1>8. CASE bindToService \/ Connection \/ BeginFlush \/ EndReceive \/ StartService
  BY <1>8, OthersKeepPlaces, OrderStays
<1>9. CASE Screen \/ UNCHANGED vars
  BY <1>9, ScreenKeepsPlaces, OrderStays
<1> QED
  BY <1>1, <1>2, <1>3, <1>4, <1>5, <1>6, <1>7, <1>8, <1>9 DEF Next, flushQueue, addLogs

----------------------------------------------------------------------------
(* The way of the entries is that of the lossy log.                        *)

\* A queue without repetition has as many elements as its length says.
LEMMA DistinctCount ==
    ASSUME NEW q \in Seq(Entries), \A i, j \in 1 .. Len(q) : q[i] = q[j] => i = j
    PROVE  IsFiniteSet(Elements(q)) /\ Cardinality(Elements(q)) = Len(q)
<1> DEFINE n == Len(q)
           S == Elements(q)
<1>1. n \in Nat /\ q \in [1 .. n -> Entries] /\ S = {q[i] : i \in 1 .. n}
  BY ElementsAre
<1>2. \A i, j \in 1 .. n : q[i] = q[j] => i = j
  OBVIOUS
<1>3. IsFiniteSet(1 .. n) /\ Cardinality(1 .. n) = n
  BY <1>1, FS_Interval
<1> HIDE DEF n, S
<1>4. q \in [1 .. n -> S] /\ \A t \in S : \E i \in 1 .. n : q[i] = t
  BY <1>1
<1>5. q \in Bijection(1 .. n, S)
  BY <1>2, <1>4 DEF Bijection, Injection, Surjection, IsInjective
<1>6. ExistsBijection(1 .. n, S)
  BY <1>5 DEF ExistsBijection
<1>7. IsFiniteSet(S) /\ Cardinality(S) = Cardinality(1 .. n)
  BY <1>3, <1>6, FS_Bijection
<1> QED
  BY <1>3, <1>7 DEF n, S

\* A sequence in either order names each entry once.
LEMMA IncreasingCount ==
    ASSUME NEW q \in Seq(Entries), Increasing(q) \/ Decreasing(q)
    PROVE  IsFiniteSet(Elements(q)) /\ Cardinality(Elements(q)) = Len(q)
<1>1. \A i \in 1 .. Len(q) : q[i] \in Int
  BY Bounds DEF Entries
<1>2. ASSUME NEW i \in 1 .. Len(q), NEW j \in 1 .. Len(q), q[i] = q[j] PROVE i = j
  <2>1. i < j \/ j < i \/ i = j
    OBVIOUS
  <2>2. ~(q[i] < q[j]) /\ ~(q[i] > q[j]) /\ ~(q[j] < q[i]) /\ ~(q[j] > q[i])
    BY <1>1, <1>2
  <2> QED
    BY <2>1, <2>2 DEF Increasing, Decreasing
<1> QED
  BY <1>2, DistinctCount

\* A full channel alone holds as many entries as may always wait.
LEMMA FullChannel ==
    ASSUME TypeOK, OrderInv, Len(logChannel) = CHANNEL_CAPACITY
    PROVE  Cardinality(Waiting) >= CHANNEL_CAPACITY
<1>1. logged \in Nat /\ Waiting \subseteq 1 .. logged
  BY Bounds DEF TypeOK, OrderInv
<1>2. IsFiniteSet(1 .. logged)
  BY <1>1, FS_Interval
<1>3. IsFiniteSet(Waiting)
  BY <1>1, <1>2, FS_Subset
<1>4. InChannel \subseteq Waiting
  BY DEF Waiting, InChannel
<1>5. Cardinality(InChannel) = CHANNEL_CAPACITY /\ IsFiniteSet(InChannel)
  BY IncreasingCount DEF TypeOK, OrderInv, InChannel
<1>6. Cardinality(InChannel) <= Cardinality(Waiting)
  BY <1>3, <1>4, FS_Subset
<1> QED
  BY <1>3, <1>5, <1>6, FS_CardinalityType

\* The lossy log counts as this module does.
LEMMA SameCardinality == \A S : LossyLog!Cardinality(S) = Cardinality(S)
  BY DEF LossyLog!Cardinality, Cardinality

\* What a coroutine adds are entries that waited, newest first.
LEMMA BatchIsNewestFirst ==
    ASSUME NEW entries \in Seq(Entries), Decreasing(entries)
    PROVE  entries \in LossyLog!NewestFirst(Elements(entries))
<1>1. Cardinality(Elements(entries)) = Len(entries)
  BY IncreasingCount
<1>2. Elements(entries) = {entries[i] : i \in 1 .. Len(entries)}
  BY ElementsAre
<1>3. entries \in [1 .. Len(entries) -> Elements(entries)]
  BY <1>2
<1>4. \A i, j \in 1 .. Len(entries) : i < j => entries[i] > entries[j]
  BY DEF Decreasing
<1> DEFINE S == Elements(entries)
<1>5. S = Elements(entries)
  OBVIOUS
<1> HIDE DEF S
<1>6. /\ entries \in [1 .. Cardinality(S) -> S]
      /\ \A i, j \in 1 .. Cardinality(S) : i < j => entries[i] > entries[j]
  BY <1>1, <1>3, <1>4, <1>5
<1>7. entries \in LossyLog!NewestFirst(S)
  BY <1>6, SameCardinality DEF LossyLog!NewestFirst
<1> QED
  BY <1>5, <1>7

\* The inductive invariants together.
LogInv == TypeOK /\ ScreenInv /\ ConnectionInv /\ OrderInv

\* They always hold.
LEMMA LogInvariant == Spec => []LogInv
<1>1. Init => LogInv
  BY InitTypes, InitScreen, InitConnection, InitOrder DEF LogInv
<1>2. LogInv /\ [Next]_vars => LogInv'
  BY NextTypes, NextScreen, NextConnection, NextOrder DEF LogInv
<1> QED
  BY <1>1, <1>2, PTL DEF Spec

\* A step that stores nothing and moves entries at most is a stutter.
LEMMA StepImplementsLog ==
    ASSUME LogInv, [Next]_vars
    PROVE  [LossyLog!Next]_(LossyLog!vars)
<1>1. TypeOK /\ OrderInv /\ ConnectionInv
  BY DEF LogInv
<1>2. CASE log
  <2>1. UNCHANGED <<logCache, failed>> /\ logged' = logged + 1
    BY <1>2 DEF log, repository
  <2>2. CASE Waiting' = Waiting \cup {logged'}
    BY <2>1, <2>2 DEF LossyLog!Next, LossyLog!Log
  <2>3. CASE /\ Len(logChannel) = CHANNEL_CAPACITY /\ logChannel # <<>>
             /\ Waiting' = (Waiting \ {Head(logChannel)}) \cup {logged'}
    <3>1. Cardinality(Waiting) >= CHANNEL_CAPACITY
      BY <1>1, <2>3, FullChannel
    <3>2. Head(logChannel) \in Waiting
      BY <1>1, <2>3, ElementsTail DEF TypeOK, Waiting
    <3>3. LossyLog!Log
      BY <2>1, <2>3, <3>1, <3>2, SameCardinality DEF LossyLog!Log
    <3> QED
      BY <3>3 DEF LossyLog!Next
  <2> QED
    BY <1>1, <1>2, <2>2, <2>3, LogKeepsOrder
<1>3. ASSUME NEW job \in jobs, AddToCache(job)
      PROVE  LossyLog!Next
  <2> DEFINE entries == job.entries
  <2>1. /\ logCache' = LossyLog!Newest(entries \o logCache)
        /\ UNCHANGED <<logged, failed>>
    BY <1>3 DEF AddToCache, take, LossyLog!Newest, proxy
  <2>2. /\ Waiting' = Waiting \ Elements(entries) /\ Elements(entries) \in SUBSET Waiting
        /\ entries \in Seq(Entries) /\ Decreasing(entries)
    BY <1>1, <1>3, AddKeepsOrder
  <2> HIDE DEF entries
  <2>4. entries \in LossyLog!NewestFirst(Elements(entries))
    BY <2>2, BatchIsNewestFirst
  <2>3. LossyLog!Store
    BY <2>1, <2>2, <2>4 DEF LossyLog!Store
  <2> QED
    BY <2>3 DEF LossyLog!Next
<1>4. CASE SendBatch
  <2>1. Waiting' \subseteq Waiting /\ (wire' # wire => Waiting' = Waiting)
    BY <1>1, <1>4, SendKeepsOrder
  <2>2. UNCHANGED <<logged, logCache>> /\ flushing = "send"
    BY <1>4 DEF SendBatch, proxy, repository
  <2>3. CASE failed' = TRUE
    <3>1. LossyLog!Fail
      BY <2>1, <2>2, <2>3 DEF LossyLog!Fail
    <3> QED
      BY <3>1 DEF LossyLog!Next
  <2>4. CASE failed' # TRUE
    <3>1. ~failed /\ failed' = failed
      BY <1>1, <1>4, <2>4 DEF SendBatch, TypeOK
    <3>2. service # Null /\ loggerService = service
      BY <1>1, <2>2, <3>1 DEF ConnectionInv
    <3>3. wire' = Append(wire, batch) /\ wire \in Seq(Seq(Entries)) /\ batch \in Seq(Entries)
      BY <1>1, <1>4, <2>4, <3>2 DEF SendBatch, TypeOK
    <3>4. wire' # wire
      BY <3>3
    <3> QED
      BY <2>1, <2>2, <3>1, <3>4 DEF LossyLog!vars
  <2> QED
    BY <2>3, <2>4
<1>5. CASE ServiceDies
  <2>1. Waiting' \subseteq Waiting
    BY <1>1, <1>5, ServiceDiesKeepsOrder
  <2>2. LossyLog!Fail
    BY <1>5, <2>1 DEF ServiceDies, LossyLog!Fail
  <2> QED
    BY <2>2 DEF LossyLog!Next
<1>6. CASE SetState
  <2>1. Waiting' = Waiting
    BY <1>1, <1>6, OthersKeepPlaces, OrderStays DEF Connection
  <2>2. UNCHANGED <<logged, logCache>> /\ (failed' = failed \/ failed' = FALSE)
    BY <1>1, <1>6 DEF SetState, repository, TypeOK
  <2>3. LossyLog!Restore \/ UNCHANGED LossyLog!vars
    BY <2>1, <2>2 DEF LossyLog!Restore, LossyLog!vars
  <2> QED
    BY <2>3 DEF LossyLog!Next
<1>7. CASE clearLogs
  <2>1. Waiting' = Waiting
    BY <1>1, <1>7, ScreenKeepsPlaces, OrderStays DEF Screen
  <2>2. LossyLog!Clear
    BY <1>7, <2>1 DEF clearLogs, LossyLog!Clear, proxy
  <2> QED
    BY <2>2 DEF LossyLog!Next
<1>8. CASE ReceiveEntry
  BY <1>1, <1>8, ReceiveKeepsOrder DEF ReceiveEntry, LossyLog!vars, repository
<1>9. CASE logBatch
  BY <1>1, <1>9, LogBatchKeepsOrder DEF logBatch, LossyLog!vars, proxy
<1>10. ASSUME NEW job \in jobs, Emit(job)
       PROVE  UNCHANGED LossyLog!vars
  BY <1>1, <1>10, EmitKeepsPlaces, OrderStays DEF Emit, LossyLog!vars, proxy
<1>11. CASE bindToService \/ SetService \/ BeginFlush \/ EndReceive \/ StartService
  <2>1. Waiting' = Waiting
    BY <1>1, <1>11, OthersKeepPlaces, OrderStays DEF Connection
  <2>2. UNCHANGED <<logged, logCache, failed>>
    BY <1>11 DEF bindToService, SetService, BeginFlush, EndReceive, StartService, proxy, repository
  <2> QED
    BY <2>1, <2>2 DEF LossyLog!vars
<1>12. CASE Subscribe \/ loadLogs \/ processNewLogs \/ ClearScreen \/ CloseScreen \/ UNCHANGED vars
  <2>1. Waiting' = Waiting
    BY <1>1, <1>12, ScreenKeepsPlaces, OrderStays DEF Screen
  <2>2. UNCHANGED <<logged, logCache, failed>>
    BY <1>12 DEF Subscribe, loadLogs, processNewLogs, ClearScreen, CloseScreen, vars, proxy, repository
  <2> QED
    BY <2>1, <2>2 DEF LossyLog!vars
<1> QED
  BY <1>2, <1>3, <1>4, <1>5, <1>6, <1>7, <1>8, <1>9, <1>10, <1>11, <1>12
  DEF Next, Connection, flushQueue, addLogs, Screen

\* No entry is stored twice, out of the order of its batch, or lost while the connection holds and
\* there is room: the channel, the flush loop, the binder and the coroutines together are the lossy log.
THEOREM ImplementsLossyLog == Spec => LogSpec
<1>1. Init => LossyLog!Init
  <2> SUFFICES ASSUME Init PROVE LossyLog!Init
    OBVIOUS
  <2>1. Waiting = {}
    BY NoElements DEF Init, Waiting
  <2> QED
    BY <2>1 DEF Init, LossyLog!Init
<1>2. LogInv /\ [Next]_vars => [LossyLog!Next]_(LossyLog!vars)
  BY StepImplementsLog
<1> QED
  BY LogInvariant, <1>1, <1>2, PTL DEF Spec, LogSpec, LossyLog!Spec
=============================================================================
