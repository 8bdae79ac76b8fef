--------------------------- MODULE Http2ConnProofs ---------------------------
(* What holds of Http2Conn for any number of streams and any frames.       *)
EXTENDS Http2Conn, TLAPS

\* The parts of a frame that the steps look at.
LEMMA FrameParts ==
    ASSUME NEW f \in Frame
    PROVE  /\ f.stream \in Streams
           /\ f.end \in BOOLEAN /\ f.fin \in BOOLEAN
           /\ f.kind \in {"HEADERS", "CONTINUATION", "PUSH_PROMISE", "DATA", "RST_STREAM"}
           /\ f.kind = "CONTINUATION" => f.fin
           /\ f.kind = "PUSH_PROMISE" => ~f.end
           /\ f.kind \in {"DATA", "RST_STREAM"} => ~f.fin
  BY Http2Assumption DEF Frame

\* A stream afresh, and what the handlers make of a stream, are streams.
LEMMA NewStreamType == NewStream \in Http2Stream
  BY DEF NewStream, Http2Stream

\* What process_frame works on is a stream, be it found or new.
LEMMA CurrentType ==
    ASSUME TypeOK, NEW s \in Streams, NEW gone
    PROVE  Current(s, gone) \in Http2Stream
  BY NewStreamType DEF Current, TypeOK

\* Keep writes one stream and empties those that leave.
LEMMA KeepType ==
    ASSUME TypeOK, NEW s \in Streams, NEW st \in Http2Stream, NEW stays \in BOOLEAN,
           NEW gone, Keep(s, st, stays, gone)
    PROVE  /\ live' \subseteq Streams
           /\ streams' \in [Streams -> Http2Stream]
           /\ \A x \in Streams \ live' : streams'[x] = NewStream
           /\ \A x \in Streams : streams'[x] = IF x = s /\ stays THEN st
                                               ELSE IF x \in gone \cup {s} THEN NewStream
                                               ELSE streams[x]
  BY NewStreamType DEF Keep, TypeOK

\* A thread at the end of a verdict has the stream in its hands.
Holding ==
    \A t \in Threads :
        /\ pc[t] \in {"enqueue", "mark"} => checks[t] # <<>>
        /\ pc[t] = "enqueueReport" => reports[t] # <<>>

\* What a frame does to the table keeps its types.
LEMMA FrameKeepsTypes ==
    ASSUME TypeOK, NEW t \in Threads, NEW f \in Frame,
           ResetFrame(f) \/ IgnoreFrame(t, f) \/ AcceptFrame(t, f)
    PROVE  /\ live' \subseteq Streams
           /\ streams' \in [Streams -> Http2Stream]
           /\ \A s \in Streams \ live' : streams'[s] = NewStream
           /\ early_checks' \in Seq(Streams) /\ completed' \in Seq(Streams)
           /\ snapshots' \in [Streams -> 0..3]
           /\ inStep' \in [Threads -> BOOLEAN]
           /\ evictions' \in Nat
           /\ alive' \in BOOLEAN
<1> USE FrameParts
<1>1. CASE ResetFrame(f)
  BY <1>1, NewStreamType, KeepType DEF ResetFrame, TypeOK
<1>2. CASE IgnoreFrame(t, f)
  <2>1. inStep' \in [Threads -> BOOLEAN]
    BY <1>2 DEF IgnoreFrame, TypeOK, HoldsBlock, HoldsHeaders
  <2> QED
    BY <1>2, <2>1 DEF IgnoreFrame, TypeOK
<1>3. CASE AcceptFrame(t, f)
  <2>1. PICK gone \in SUBSET live :
           /\ Evicted(gone)
           /\ \/ f.kind = "DATA" /\ DataFrame(t, f, gone)
              \/ f.kind = "PUSH_PROMISE" /\ PromiseFrame(t, f, gone)
              \/ HoldsHeaders(f) /\ ~f.fin /\ OpenBlock(t, f, gone)
              \/ HoldsHeaders(f) /\ f.fin /\ CloseBlock(t, f, gone)
    BY <1>3 DEF AcceptFrame
  <2> DEFINE cur == Current(f.stream, gone)
  <2>2. cur \in Http2Stream
    BY CurrentType
  <2>3. evictions' \in Nat
    BY <2>1 DEF Evicted, TypeOK
  <2>4. ASSUME snapshot_stream(f.stream)
        PROVE  completed' \in Seq(Streams) /\ snapshots' \in [Streams -> 0..3]
    BY <2>4 DEF snapshot_stream, TypeOK
  <2>5. CASE DataFrame(t, f, gone)
    <3> DEFINE st == [cur EXCEPT !.req_end_stream = @ \/ t = "writer",
                                 !.resp_end_stream = @ \/ t = "reader"]
    <3>1. st \in Http2Stream /\ is_complete(st) \in BOOLEAN
      BY <2>2 DEF Http2Stream, is_complete
    <3>2. Keep(f.stream, st, ~is_complete(st), gone)
      BY <2>5 DEF DataFrame
    <3>3. /\ live' \subseteq Streams /\ streams' \in [Streams -> Http2Stream]
          /\ \A s \in Streams \ live' : streams'[s] = NewStream
      BY <3>1, <3>2, KeepType
    <3>4. completed' \in Seq(Streams) /\ snapshots' \in [Streams -> 0..3]
      BY <2>4, <2>5 DEF DataFrame, TypeOK
    <3>5. UNCHANGED <<early_checks, inStep, alive>>
      BY <2>5 DEF DataFrame
    <3> QED
      BY <2>3, <3>3, <3>4, <3>5 DEF TypeOK
  <2>6. CASE OpenBlock(t, f, gone) /\ HoldsHeaders(f)
    <3> DEFINE st == [cur EXCEPT !.pending_header_block = @ \cup {<<t, f.kind>>}]
    <3>1. st \in Http2Stream
      BY <2>2, <2>6 DEF Http2Stream, Fragment, HoldsHeaders
    <3>2. Keep(f.stream, st, TRUE, gone)
      BY <2>6 DEF OpenBlock
    <3> QED
      BY <2>3, <2>6, <3>1, <3>2, KeepType DEF OpenBlock, TypeOK
  <2>7. CASE CloseBlock(t, f, gone)
    <3> DEFINE st == Decoded(t, f, cur)
               erased == is_complete(st) /\ (t = "writer" \/ f.end)
    <3>1. st \in Http2Stream /\ is_complete(st) \in BOOLEAN
      BY <2>2 DEF Http2Stream, is_complete, Decoded
    <3>2. Keep(f.stream, st, ~erased, gone)
      BY <2>7 DEF CloseBlock
    <3>3. early_checks' \in Seq(Streams) /\ completed' \in Seq(Streams)
          /\ snapshots' \in [Streams -> 0..3]
      BY <2>4, <2>7 DEF CloseBlock, TypeOK
    <3>4. inStep' \in [Threads -> BOOLEAN] /\ alive' \in BOOLEAN
      BY <2>7 DEF CloseBlock, TypeOK
    <3> QED
      BY <2>3, <3>1, <3>2, <3>3, <3>4, KeepType
  <2>8. CASE PromiseFrame(t, f, gone)
    BY <2>2, <2>3, <2>8, KeepType DEF PromiseFrame, TypeOK
  <2> QED
    BY <2>1, <2>5, <2>6, <2>7, <2>8
<1> QED
  BY <1>1, <1>2, <1>3

\* A peer's state after a frame.
LEMMA SentType ==
    ASSUME TypeOK, NEW t \in Threads, NEW f \in Frame
    PROVE  Sent(t, f) \in PeerState
  BY FrameParts DEF Sent, PeerState, TypeOK

\* The application promises nothing.
LEMMA WriterPromisesNothing ==
    ASSUME TypeOK, NEW f \in Frame, Legal("writer", f)
    PROVE  f.kind # "PUSH_PROMISE" /\ Sent("writer", f) \notin {"promising", "promisingOpen"}
<1>1. f.kind # "PUSH_PROMISE"
  BY DEF Legal
<1> QED
  BY <1>1, FrameParts DEF Sent

\* The state of a thread changes alone.
LEMMA StepType ==
    ASSUME TypeOK, NEW t \in Threads, NEW from,
           NEW to \in {"idle", "feed", "check", "enqueue", "mark", "enqueueReport", "write",
                       "writeRst"},
           Step(t, from, to)
    PROVE  /\ pc[t] = from
           /\ pc' \in [Threads -> {"idle", "feed", "check", "enqueue", "mark", "enqueueReport",
                                   "write", "writeRst"}]
           /\ pc'[t] = to
           /\ \A x \in Threads \ {t} : pc'[x] = pc[x]
  BY DEF Step, TypeOK

\* Every step keeps the types and what the threads hold.
LEMMA TypesHold == TypeOK /\ Holding /\ [Next]_vars => TypeOK' /\ Holding'
<1> SUFFICES ASSUME TypeOK, Holding, [Next]_vars PROVE TypeOK' /\ Holding'
  OBVIOUS
<1>t. "writer" \in Threads /\ "reader" \in Threads
  BY DEF Threads
<1>0. CASE UNCHANGED vars
  BY <1>0 DEF vars, table, results, calls, peers, TypeOK, Holding
<1>1. ASSUME NEW f \in Frame, Compose(f) PROVE TypeOK' /\ Holding'
  <2>1. batch' \in [Threads -> Seq(Frame)]
    BY <1>1, <1>t DEF Compose, TypeOK
  <2>2. peer' \in [Threads -> [Streams -> PeerState]]
    BY <1>1, <1>t, SentType DEF Compose, TypeOK
  <2>5. /\ \A s \in Streams : peer'["writer"][s] \notin {"promising", "promisingOpen"}
        /\ \A i \in 1 .. Len(batch'["writer"]) : batch'["writer"][i].kind # "PUSH_PROMISE"
    <3>1. f.kind # "PUSH_PROMISE" /\ Sent("writer", f) \notin {"promising", "promisingOpen"}
      BY <1>1, WriterPromisesNothing DEF Compose
    <3>2. batch["writer"] \in Seq(Frame) /\ batch'["writer"] = Append(batch["writer"], f)
      BY <1>1, <1>t DEF Compose, TypeOK
    <3>3. \A i \in 1 .. Len(batch'["writer"]) :
             batch'["writer"][i] = IF i <= Len(batch["writer"]) THEN batch["writer"][i] ELSE f
      BY <3>2
    <3> QED
      BY <1>1, <1>t, <3>1, <3>2, <3>3 DEF Compose, TypeOK
  <2>3. TypeOK'
    BY <1>1, <2>1, <2>2, <2>5 DEF Compose, table, results, TypeOK
  <2>4. Holding'
    BY <1>1 DEF Compose, results, Holding
  <2> QED
    BY <2>3, <2>4
<1>2. ASSUME NEW f \in Frame, Serve(f) PROVE TypeOK' /\ Holding'
  <2>1. wireIn' \in Seq(Frame)
    BY <1>2 DEF Serve, TypeOK
  <2>2. peer' \in [Threads -> [Streams -> PeerState]]
    BY <1>2, <1>t, SentType DEF Serve, TypeOK
  <2>3. peer'["writer"] = peer["writer"] /\ promises' \in Nat
    BY <1>2, <1>t DEF Serve, TypeOK, Threads
  <2> QED
    BY <1>2, <2>1, <2>2, <2>3 DEF Serve, table, results, calls, TypeOK, Holding
<1>3. CASE BeginWrite
  BY <1>3, <1>t, StepType DEF BeginWrite, table, results, calls, peers, TypeOK, Holding
<1>4. CASE BeginRead
  <2>1. batch' \in [Threads -> Seq(Frame)] /\ next' \in [Threads -> Nat \ {0}]
    BY <1>4, <1>t DEF BeginRead, TypeOK
  <2>0. pc' \in [Threads -> {"idle", "feed", "check", "enqueue", "mark", "enqueueReport",
                             "write", "writeRst"}]
    BY <1>4, <1>t, StepType DEF BeginRead
  <2>2. TypeOK'
    BY <1>4, <2>0, <2>1 DEF BeginRead, table, results, TypeOK
  <2>3. Holding'
    BY <1>4, <1>t, StepType DEF BeginRead, results, Holding
  <2> QED
    BY <2>2, <2>3
<1>5. CASE EndRead
  <2>1. batch' \in [Threads -> Seq(Frame)]
    BY <1>5, <1>t DEF EndRead, TypeOK
  <2>2. batch'["writer"] = batch["writer"]
    BY <1>5 DEF EndRead, TypeOK, Threads
  <2>3. TypeOK'
    BY <1>5, <1>t, <2>1, <2>2, StepType DEF EndRead, table, results, peers, TypeOK
  <2> QED
    BY <1>5, <1>t, <2>3, StepType DEF EndRead, table, results, peers, TypeOK, Holding
<1>6. ASSUME NEW t \in Threads, process_frame(t) PROVE TypeOK' /\ Holding'
  <2> DEFINE f == batch[t][next[t]]
  <2>1. f \in Frame
    BY <1>6 DEF process_frame, TypeOK
  <2>2. ResetFrame(f) \/ IgnoreFrame(t, f) \/ AcceptFrame(t, f)
    BY <1>6 DEF process_frame
  <2>3. next' \in [Threads -> Nat \ {0}]
    BY <1>6 DEF process_frame, TypeOK
  <2>4. pc' = pc
    BY <1>6 DEF process_frame, Step, TypeOK
  <2> HIDE DEF f
  <2> QED
    BY <1>6, <2>1, <2>2, <2>3, <2>4, FrameKeepsTypes
       DEF process_frame, results, peers, TypeOK, Holding
<1>7. ASSUME NEW t \in Threads, TakeResults(t) PROVE TypeOK' /\ Holding'
  BY <1>7, StepType, SMTT(30) DEF TakeResults, calls, peers, TypeOK, Holding
<1>8. ASSUME NEW t \in Threads, NEW blocked \in BOOLEAN, EarlyVerdict(t, blocked)
      PROVE TypeOK' /\ Holding'
  <2>1. checks[t] \in Seq(Streams) /\ checks[t] # <<>>
    BY <1>8 DEF EarlyVerdict, TypeOK
  <2>2. Head(checks[t]) \in Streams /\ Tail(checks[t]) \in Seq(Streams)
    BY <2>1
  <2>3. verdict' \in [Streams -> {"none", "pass", "block"}]
        /\ newly_blocked' \in [Threads -> SUBSET Streams]
        /\ checks' \in [Threads -> Seq(Streams)]
    BY <1>8, <2>2 DEF EarlyVerdict, TypeOK
  <2>4. pc' \in [Threads -> {"idle", "feed", "check", "enqueue", "mark", "enqueueReport",
                             "write", "writeRst"}]
        /\ (\A x \in Threads \ {t} : pc'[x] = pc[x] /\ checks'[x] = checks[x])
        /\ (pc'[t] = "check" \/ (pc'[t] = "enqueue" /\ checks'[t] = checks[t]))
    BY <1>8, StepType DEF EarlyVerdict, TypeOK
  <2> QED
    BY <1>8, <2>1, <2>3, <2>4 DEF EarlyVerdict, table, calls, peers, TypeOK, Holding
<1>9. ASSUME NEW t \in Threads, h2_enqueue_rst_stream(t) PROVE TypeOK' /\ Holding'
  <2>1. checks[t] # <<>>
    BY <1>9, StepType DEF h2_enqueue_rst_stream, Holding
  <2>2. pending_rst' \subseteq Streams
    BY <1>9, <2>1 DEF h2_enqueue_rst_stream, EnqueueReset, TypeOK
  <2> QED
    BY <1>9, <2>1, <2>2, StepType
       DEF h2_enqueue_rst_stream, table, results, calls, peers, TypeOK, Holding
<1>10. ASSUME NEW t \in Threads, h2_block_stream(t) PROVE TypeOK' /\ Holding'
  <2>1. checks[t] # <<>>
    BY <1>10, StepType DEF h2_block_stream, Holding
  <2>2. Head(checks[t]) \in Streams /\ Tail(checks[t]) \in Seq(Streams)
    BY <2>1 DEF TypeOK
  <2>3. streams' \in [Streams -> Http2Stream]
        /\ \A s \in Streams \ live : streams'[s] = NewStream
    <3> DEFINE st == [streams[Head(checks[t])] EXCEPT !.is_blocked = TRUE]
    <3>1. streams \in [Streams -> Http2Stream]
          /\ \A s \in Streams \ live : streams[s] = NewStream
      BY DEF TypeOK
    <3>2. st \in Http2Stream
      BY <2>2, <3>1 DEF Http2Stream
    <3>3. streams' = IF Head(checks[t]) \in live
                     THEN [streams EXCEPT ![Head(checks[t])] = st] ELSE streams
      BY <1>10, <3>1 DEF h2_block_stream
    <3> HIDE DEF st
    <3> QED
      BY <2>2, <3>1, <3>2, <3>3
  <2> QED
    BY <1>10, <2>2, <2>3, StepType, SMTT(30) DEF h2_block_stream, calls, peers, TypeOK, Holding
<1>11. ASSUME NEW t \in Threads, NEW blocked \in BOOLEAN, ReportVerdict(t, blocked)
       PROVE TypeOK' /\ Holding'
  <2>0. reports[t] \in Seq(Streams) /\ reports[t] # <<>> /\ Tail(reports[t]) \in Seq(Streams)
    BY <1>11 DEF ReportVerdict, TypeOK
  <2>1. reports' \in [Threads -> Seq(Streams)]
        /\ \A x \in Threads \ {t} : reports'[x] = reports[x]
    BY <1>11, <2>0 DEF ReportVerdict, TypeOK
  <2>2. pc' \in [Threads -> {"idle", "feed", "check", "enqueue", "mark", "enqueueReport",
                             "write", "writeRst"}]
        /\ (\A x \in Threads \ {t} : pc'[x] = pc[x])
        /\ (pc'[t] = "check" \/ (pc'[t] = "enqueueReport" /\ reports'[t] # <<>>))
    BY <1>11, StepType DEF ReportVerdict, TypeOK
  <2> QED
    BY <1>11, <2>1, <2>2 DEF ReportVerdict, table, calls, peers, TypeOK, Holding
<1>12. ASSUME NEW t \in Threads, EnqueueReport(t) PROVE TypeOK' /\ Holding'
  <2>1. reports[t] # <<>>
    BY <1>12, StepType DEF EnqueueReport, Holding
  <2>2. pending_rst' \subseteq Streams /\ reports' \in [Threads -> Seq(Streams)]
        /\ \A x \in Threads \ {t} : reports'[x] = reports[x]
    BY <1>12, <2>1 DEF EnqueueReport, EnqueueReset, TypeOK
  <2> QED
    BY <1>12, <2>2, StepType DEF EnqueueReport, table, calls, peers, TypeOK, Holding
<1>13. CASE h2_take_rst_frames
  BY <1>13, <1>t, StepType DEF h2_take_rst_frames, table, results, calls, peers, TypeOK, Holding
<1>14. CASE orig_ssl_write
  <2>1. onWire' \subseteq Streams
    BY <1>14, <1>t, FrameParts DEF orig_ssl_write, TypeOK, ToSet
  <2>2. batch' \in [Threads -> Seq(Frame)] /\ next' \in [Threads -> Nat \ {0}]
    BY <1>14, <1>t DEF orig_ssl_write, TypeOK
  <2>3. \A i \in 1 .. Len(batch'["writer"]) : batch'["writer"][i].kind # "PUSH_PROMISE"
    <3>1. batch'["writer"] = <<>>
      BY <1>14, <1>t DEF orig_ssl_write, TypeOK
    <3>2. \A i \in 1 .. Len(<<>>) : FALSE
      OBVIOUS
    <3> QED
      BY <3>1, <3>2
  <2> QED
    BY <1>14, <1>t, <2>1, <2>2, <2>3, StepType DEF orig_ssl_write, table, results, TypeOK, Holding
<1>15. CASE WriteRefused
  <2>1. next' \in [Threads -> Nat \ {0}] /\ failures' \in Nat
    BY <1>15, <1>t DEF WriteRefused, TypeOK
  <2>2. TypeOK'
    BY <1>15, <1>t, <2>1, StepType DEF WriteRefused, table, results, peers, TypeOK
  <2>3. Holding'
    BY <1>15, <1>t, StepType DEF WriteRefused, results, Holding
  <2> QED
    BY <2>2, <2>3
<1>16. ASSUME NEW refused \in BOOLEAN, WriteResets(refused) PROVE TypeOK' /\ Holding'
  <2>1. resetSent' \subseteq Streams /\ failures' \in Nat
    BY <1>16 DEF WriteResets, TypeOK
  <2>2. TypeOK'
    BY <1>16, <1>t, <2>1, StepType DEF WriteResets, table, results, calls, TypeOK
  <2>3. Holding'
    BY <1>16, <1>t, StepType DEF WriteResets, results, Holding
  <2> QED
    BY <2>2, <2>3
<1> QED
  BY <1>0, <1>1, <1>2, <1>3, <1>4, <1>5, <1>6, <1>7, <1>8, <1>9, <1>10, <1>11, <1>12, <1>13,
     <1>14, <1>15, <1>16 DEF Next, Peers, Feed, Callback, Write

----------------------------------------------------------------------------
(* Resets follow headers.                                                  *)

\* Streams whose request headers are on the wire, or among the bytes of the present write.
Heard ==
    LET bytes == batch["writer"]
    IN  onWire \cup {bytes[i].stream : i \in {j \in 1 .. Len(bytes) : bytes[j].fin}}

\* All that a verdict may be asked about, or was asked about, belongs to H.
OnlyAbout(H) ==
    /\ early_checks \in Seq(H) /\ completed \in Seq(H)
    /\ \A t \in Threads : checks[t] \in Seq(H) /\ reports[t] \in Seq(H)
    /\ pending_rst \subseteq H /\ local_rst \subseteq H
    /\ \A s \in Streams : streams[s].req_headers_done => s \in H

\* The server answers only what is on the wire.
AnswersOnly ==
    /\ \A i \in 1 .. Len(wireIn) : wireIn[i].stream \in onWire
    /\ \A i \in 1 .. Len(batch["reader"]) : batch["reader"][i].stream \in onWire

\* A refused write keeps its bytes, so what was heard of once stays heard of; when the resets go
\* out, the bytes have gone.
OnlyHeard ==
    /\ OnlyAbout(Heard)
    /\ AnswersOnly
    /\ pc["writer"] = "writeRst" => batch["writer"] = <<>>
    /\ ResetAfterHeaders

\* Keep adds no stream with request headers but the one it keeps.
LEMMA KeepHeard ==
    ASSUME TypeOK, NEW s \in Streams, NEW st \in Http2Stream, NEW stays \in BOOLEAN,
           NEW gone, Keep(s, st, stays, gone), NEW H,
           \A x \in Streams : streams[x].req_headers_done => x \in H,
           st.req_headers_done /\ stays => s \in H
    PROVE  \A x \in Streams : streams'[x].req_headers_done => x \in H
<1>1. ~NewStream.req_headers_done
  BY DEF NewStream
<1> QED
  BY <1>1 DEF Keep


\* What a frame leaves among the results belongs to H, if the frame and the known streams do.
LEMMA FrameResults ==
    ASSUME TypeOK, NEW t \in Threads, NEW f \in Frame, NEW H,
           ResetFrame(f) \/ IgnoreFrame(t, f) \/ AcceptFrame(t, f),
           early_checks \in Seq(H), completed \in Seq(H),
           \A s \in Streams : streams[s].req_headers_done => s \in H,
           t = "reader" \/ f.fin => f.stream \in H
    PROVE  /\ early_checks' \in Seq(H) /\ completed' \in Seq(H)
           /\ \A s \in Streams : streams'[s].req_headers_done => s \in H
<1> USE FrameParts
<1>n. ~NewStream.req_headers_done
  BY DEF NewStream
<1>t. t \in {"writer", "reader"}
  BY DEF Threads
<1>1. CASE ResetFrame(f)
  <2>1. \A s \in Streams : streams'[s].req_headers_done => s \in H
    BY <1>1, NewStreamType, KeepHeard DEF ResetFrame
  <2> QED
    BY <1>1, <2>1 DEF ResetFrame
<1>2. CASE IgnoreFrame(t, f)
  BY <1>2 DEF IgnoreFrame
<1>3. CASE AcceptFrame(t, f)
  <2>1. PICK gone \in SUBSET live :
           \/ f.kind = "DATA" /\ DataFrame(t, f, gone)
           \/ f.kind = "PUSH_PROMISE" /\ PromiseFrame(t, f, gone)
           \/ HoldsHeaders(f) /\ ~f.fin /\ OpenBlock(t, f, gone)
           \/ HoldsHeaders(f) /\ f.fin /\ CloseBlock(t, f, gone)
    BY <1>3 DEF AcceptFrame
  <2> DEFINE cur == Current(f.stream, gone)
  <2>2. cur \in Http2Stream /\ (cur.req_headers_done => f.stream \in H)
    BY CurrentType, <1>n DEF Current
  <2>4. ASSUME snapshot_stream(f.stream), f.stream \in H
        PROVE  completed' \in Seq(H)
    BY <2>4 DEF snapshot_stream
  <2>5. CASE DataFrame(t, f, gone)
    <3> DEFINE st == [cur EXCEPT !.req_end_stream = @ \/ t = "writer",
                                 !.resp_end_stream = @ \/ t = "reader"]
    <3>1. st \in Http2Stream /\ is_complete(st) \in BOOLEAN
          /\ st.req_headers_done = cur.req_headers_done
      BY <2>2 DEF Http2Stream, is_complete
    <3>2. Keep(f.stream, st, ~is_complete(st), gone)
      BY <2>5 DEF DataFrame
    <3>3. \A s \in Streams : streams'[s].req_headers_done => s \in H
      BY <2>2, <3>1, <3>2, KeepHeard
    <3>4. completed' \in Seq(H)
      BY <2>2, <2>4, <2>5, <3>1 DEF DataFrame, is_complete
    <3> QED
      BY <2>5, <3>3, <3>4 DEF DataFrame
  <2>6. CASE OpenBlock(t, f, gone) /\ HoldsHeaders(f)
    <3> DEFINE st == [cur EXCEPT !.pending_header_block = @ \cup {<<t, f.kind>>}]
    <3>1. st \in Http2Stream /\ st.req_headers_done = cur.req_headers_done
      BY <2>2, <2>6, SMTT(30) DEF Http2Stream, Fragment, HoldsHeaders
    <3>2. Keep(f.stream, st, TRUE, gone)
      BY <2>6 DEF OpenBlock
    <3>3. \A s \in Streams : streams'[s].req_headers_done => s \in H
      BY <2>2, <3>1, <3>2, KeepHeard
    <3> QED
      BY <2>6, <3>3 DEF OpenBlock
  <2>7. CASE CloseBlock(t, f, gone) /\ f.fin
    <3> DEFINE st == Decoded(t, f, cur)
               erased == is_complete(st) /\ (t = "writer" \/ f.end)
    <3>1. st \in Http2Stream /\ is_complete(st) \in BOOLEAN
      BY <2>2 DEF Http2Stream, is_complete, Decoded
    <3>2. Keep(f.stream, st, ~erased, gone)
      BY <2>7 DEF CloseBlock
    <3>3. f.stream \in H
      BY <2>7
    <3>4. \A s \in Streams : streams'[s].req_headers_done => s \in H
      BY <3>1, <3>2, <3>3, KeepHeard
    <3>5. early_checks' \in Seq(H) /\ completed' \in Seq(H)
      BY <2>4, <2>7, <3>3 DEF CloseBlock
    <3> QED
      BY <3>4, <3>5
  <2>8. CASE PromiseFrame(t, f, gone)
    <3>1. Keep(f.stream, cur, TRUE, gone) /\ UNCHANGED <<early_checks, completed>>
      BY <2>8 DEF PromiseFrame
    <3> HIDE DEF cur
    <3>2. \A s \in Streams : streams'[s].req_headers_done => s \in H
      BY <2>2, <3>1, KeepHeard
    <3> QED
      BY <3>1, <3>2
  <2> QED
    BY <2>1, <2>5, <2>6, <2>7, <2>8
<1> QED
  BY <1>1, <1>2, <1>3

\* What is only about the streams of A is only about those of a larger set.
LEMMA OnlyAboutMore ==
    ASSUME NEW A, NEW B, A \subseteq B, OnlyAbout(A)
    PROVE  OnlyAbout(B)
  BY DEF OnlyAbout

\* Every step keeps it so: results and resets are about streams that were heard of.
LEMMA HeardHolds == TypeOK /\ Holding /\ OnlyHeard /\ [Next]_vars => OnlyHeard'
<1> SUFFICES ASSUME TypeOK, Holding, OnlyHeard, [Next]_vars PROVE OnlyHeard'
  OBVIOUS
<1>t. "writer" \in Threads /\ "reader" \in Threads /\ "writer" # "reader"
  BY DEF Threads
<1>a. ASSUME UNCHANGED <<batch, wireIn, onWire>>, OnlyAbout(Heard)',
             pc'["writer"] = "writeRst" => pc["writer"] = "writeRst", UNCHANGED resetSent
      PROVE  OnlyHeard'
  BY <1>a DEF OnlyHeard, AnswersOnly, ResetAfterHeaders
<1>b. ASSUME UNCHANGED <<batch, onWire>> PROVE Heard' = Heard
  BY <1>b DEF Heard
<1>c. OnlyAbout(Heard)
  BY DEF OnlyHeard
<1>d. ASSUME UNCHANGED <<early_checks, completed, checks, reports, pending_rst, local_rst, streams>>,
             Heard \subseteq Heard'
      PROVE  OnlyAbout(Heard)'
  <2>1. OnlyAbout(Heard')
    BY <1>c, <1>d, OnlyAboutMore
  <2> QED
    BY <1>d, <2>1 DEF OnlyAbout
<1>0. CASE UNCHANGED vars
  BY <1>0, <1>a, <1>b, <1>d DEF vars, table, results, calls, peers
<1>1. ASSUME NEW f \in Frame, Compose(f) PROVE OnlyHeard'
  <2>1. batch["writer"] \in Seq(Frame) /\ batch'["writer"] = Append(batch["writer"], f)
        /\ batch'["reader"] = batch["reader"] /\ UNCHANGED <<onWire, wireIn, pc, resetSent>>
    BY <1>1, <1>t DEF Compose, TypeOK
  <2>2. Heard \subseteq Heard'
    BY <2>1 DEF Heard
  <2>3. OnlyAbout(Heard)'
    BY <1>1, <1>d, <2>2 DEF Compose, table, results
  <2>4. pc["writer"] = "idle"
    BY <1>1 DEF Compose
  <2> QED
    BY <2>1, <2>3, <2>4 DEF OnlyHeard, AnswersOnly, ResetAfterHeaders
<1>2. ASSUME NEW f \in Frame, Serve(f) PROVE OnlyHeard'
  <2>1. wireIn \in Seq(Frame) /\ wireIn' = Append(wireIn, f) /\ f.stream \in onWire
        /\ UNCHANGED <<onWire, batch, pc, resetSent>>
    BY <1>2 DEF Serve, calls, TypeOK
  <2>2. OnlyAbout(Heard)'
    BY <1>2, <1>b, <1>d, <2>1 DEF Serve, table, results
  <2>3. AnswersOnly'
    BY <2>1 DEF OnlyHeard, AnswersOnly
  <2> QED
    BY <2>1, <2>2, <2>3 DEF OnlyHeard, ResetAfterHeaders
<1>3. CASE BeginWrite
  <2>1. pc'["writer"] = "feed"
    BY <1>3, <1>t, StepType DEF BeginWrite
  <2> QED
    BY <1>3, <1>a, <1>b, <1>d, <2>1 DEF BeginWrite, table, results, calls, peers
<1>4. CASE BeginRead
  <2>1. batch'["reader"] = wireIn /\ batch'["writer"] = batch["writer"] /\ wireIn' = <<>>
        /\ UNCHANGED <<onWire, resetSent>> /\ pc'["writer"] = pc["writer"]
    BY <1>4, <1>t, StepType DEF BeginRead, TypeOK
  <2>2. Heard' = Heard
    BY <2>1 DEF Heard
  <2>3. OnlyAbout(Heard)'
    BY <1>4, <1>d, <2>2 DEF BeginRead, table, results
  <2>4. AnswersOnly'
    BY <2>1 DEF OnlyHeard, AnswersOnly
  <2> QED
    BY <2>1, <2>3, <2>4 DEF OnlyHeard, ResetAfterHeaders
<1>5. CASE EndRead
  <2>1. batch'["reader"] = <<>> /\ batch'["writer"] = batch["writer"]
        /\ UNCHANGED <<onWire, wireIn, resetSent>> /\ pc'["writer"] = pc["writer"]
    BY <1>5, <1>t, StepType DEF EndRead, peers, TypeOK
  <2>2. Heard' = Heard
    BY <2>1 DEF Heard
  <2>3. OnlyAbout(Heard)'
    BY <1>5, <1>d, <2>2 DEF EndRead, table, results
  <2>4. AnswersOnly'
    BY <2>1 DEF OnlyHeard, AnswersOnly
  <2> QED
    BY <2>1, <2>3, <2>4 DEF OnlyHeard, ResetAfterHeaders
<1>6. ASSUME NEW t \in Threads, process_frame(t) PROVE OnlyHeard'
  <2> DEFINE f == batch[t][next[t]]
  <2>1. f \in Frame /\ next[t] \in 1 .. Len(batch[t])
    BY <1>6 DEF process_frame, TypeOK
  <2>2. ResetFrame(f) \/ IgnoreFrame(t, f) \/ AcceptFrame(t, f)
    BY <1>6 DEF process_frame
  <2>3. t = "reader" \/ f.fin => f.stream \in Heard
    BY <2>1 DEF Heard, OnlyHeard, AnswersOnly, Threads
  <2>4. UNCHANGED <<pc, pending_rst, local_rst, checks, reports, batch, wireIn, onWire, resetSent>>
    BY <1>6 DEF process_frame, Step, TypeOK, results, peers
  <2> HIDE DEF f
  <2>5. /\ early_checks' \in Seq(Heard) /\ completed' \in Seq(Heard)
        /\ \A s \in Streams : streams'[s].req_headers_done => s \in Heard
    BY <1>c, <2>1, <2>2, <2>3, FrameResults DEF OnlyAbout
  <2>6. OnlyAbout(Heard)'
    BY <1>b, <1>c, <2>4, <2>5 DEF OnlyAbout
  <2> QED
    BY <1>a, <2>4, <2>6
<1>7. ASSUME NEW t \in Threads, TakeResults(t) PROVE OnlyHeard'
  <2>1. UNCHANGED <<pending_rst, local_rst, batch, wireIn, onWire, resetSent, streams>>
    BY <1>7 DEF TakeResults, calls, peers
  <2>2. pc'["writer"] = "writeRst" => pc["writer"] = "writeRst"
    BY <1>7, <1>t, StepType DEF TakeResults
  <2>3. checks' \in [Threads -> Seq(Heard)] /\ reports' \in [Threads -> Seq(Heard)]
    BY <1>7, <1>c DEF TakeResults, OnlyAbout, TypeOK
  <2>4. OnlyAbout(Heard)'
    BY <1>7, <1>b, <1>c, <2>1, <2>3 DEF TakeResults, OnlyAbout
  <2> QED
    BY <1>a, <2>1, <2>2, <2>4
<1>8. ASSUME NEW t \in Threads, NEW blocked \in BOOLEAN, EarlyVerdict(t, blocked)
      PROVE OnlyHeard'
  <2>1. UNCHANGED <<early_checks, completed, reports, pending_rst, local_rst, batch, wireIn,
                    onWire, resetSent, streams>>
    BY <1>8 DEF EarlyVerdict, table, calls, peers
  <2>2. pc'["writer"] = "writeRst" => pc["writer"] = "writeRst"
    BY <1>8, <1>t, StepType DEF EarlyVerdict
  <2>3. checks[t] \in Seq(Heard) /\ checks[t] # <<>>
    BY <1>8, <1>c DEF EarlyVerdict, OnlyAbout
  <2>t. Tail(checks[t]) \in Seq(Heard)
    BY <2>3
  <2>4. \A x \in Threads : checks'[x] \in Seq(Heard)
    BY <1>8, <1>c, <2>t DEF EarlyVerdict, OnlyAbout, TypeOK
  <2>5. OnlyAbout(Heard)'
    BY <1>b, <1>c, <2>1, <2>4 DEF OnlyAbout
  <2> QED
    BY <1>a, <2>1, <2>2, <2>5
<1>9. ASSUME NEW t \in Threads, h2_enqueue_rst_stream(t) PROVE OnlyHeard'
  <2>1. UNCHANGED <<early_checks, completed, checks, reports, local_rst, batch, wireIn,
                    onWire, resetSent, streams>>
    BY <1>9 DEF h2_enqueue_rst_stream, table, results, calls, peers
  <2>2. pc'["writer"] = "writeRst" => pc["writer"] = "writeRst"
    BY <1>9, <1>t, StepType DEF h2_enqueue_rst_stream
  <2>3. checks[t] \in Seq(Heard) /\ checks[t] # <<>>
    BY <1>9, <1>c, StepType DEF h2_enqueue_rst_stream, OnlyAbout, Holding
  <2>4. pending_rst' \subseteq Heard
    BY <1>9, <1>c, <2>3 DEF h2_enqueue_rst_stream, EnqueueReset, OnlyAbout
  <2>5. OnlyAbout(Heard)'
    BY <1>b, <1>c, <2>1, <2>4 DEF OnlyAbout
  <2> QED
    BY <1>a, <2>1, <2>2, <2>5
<1>10. ASSUME NEW t \in Threads, h2_block_stream(t) PROVE OnlyHeard'
  <2>1. UNCHANGED <<early_checks, completed, reports, pending_rst, local_rst, batch, wireIn,
                    onWire, resetSent>>
    BY <1>10 DEF h2_block_stream, calls, peers
  <2>2. pc'["writer"] = "writeRst" => pc["writer"] = "writeRst"
    BY <1>10, <1>t, StepType DEF h2_block_stream
  <2>3. checks[t] \in Seq(Heard) /\ checks[t] # <<>>
    BY <1>10, <1>c, StepType DEF h2_block_stream, OnlyAbout, Holding
  <2>4. \A x \in Threads : checks'[x] \in Seq(Heard)
    BY <1>10, <1>c, <2>3 DEF h2_block_stream, OnlyAbout, TypeOK
  <2>5. \A s \in Streams : streams'[s].req_headers_done = streams[s].req_headers_done
    BY <1>10 DEF h2_block_stream, TypeOK, Http2Stream
  <2>6. OnlyAbout(Heard)'
    BY <1>b, <1>c, <2>1, <2>4, <2>5 DEF OnlyAbout
  <2> QED
    BY <1>a, <2>1, <2>2, <2>6
<1>11. ASSUME NEW t \in Threads, NEW blocked \in BOOLEAN, ReportVerdict(t, blocked)
       PROVE OnlyHeard'
  <2>1. UNCHANGED <<early_checks, completed, checks, pending_rst, local_rst, batch, wireIn,
                    onWire, resetSent, streams>>
    BY <1>11 DEF ReportVerdict, table, calls, peers
  <2>2. pc'["writer"] = "writeRst" => pc["writer"] = "writeRst"
    BY <1>11, <1>t, StepType DEF ReportVerdict
  <2>3. reports[t] \in Seq(Heard) /\ reports[t] # <<>>
    BY <1>11, <1>c DEF ReportVerdict, OnlyAbout
  <2>t. Tail(reports[t]) \in Seq(Heard)
    BY <2>3
  <2>4. \A x \in Threads : reports'[x] \in Seq(Heard)
    BY <1>11, <1>c, <2>t DEF ReportVerdict, OnlyAbout, TypeOK
  <2>5. OnlyAbout(Heard)'
    BY <1>b, <1>c, <2>1, <2>4 DEF OnlyAbout
  <2> QED
    BY <1>a, <2>1, <2>2, <2>5
<1>12. ASSUME NEW t \in Threads, EnqueueReport(t) PROVE OnlyHeard'
  <2>1. UNCHANGED <<early_checks, completed, checks, local_rst, batch, wireIn,
                    onWire, resetSent, streams>>
    BY <1>12 DEF EnqueueReport, table, calls, peers
  <2>2. pc'["writer"] = "writeRst" => pc["writer"] = "writeRst"
    BY <1>12, <1>t, StepType DEF EnqueueReport
  <2>3. reports[t] \in Seq(Heard) /\ reports[t] # <<>>
    BY <1>12, <1>c, StepType DEF EnqueueReport, OnlyAbout, Holding
  <2>4. pending_rst' \subseteq Heard /\ \A x \in Threads : reports'[x] \in Seq(Heard)
    BY <1>12, <1>c, <2>3 DEF EnqueueReport, EnqueueReset, OnlyAbout, TypeOK
  <2>5. OnlyAbout(Heard)'
    BY <1>b, <1>c, <2>1, <2>4 DEF OnlyAbout
  <2> QED
    BY <1>a, <2>1, <2>2, <2>5
<1>13. CASE h2_take_rst_frames
  <2>1. UNCHANGED <<early_checks, completed, checks, reports, batch, wireIn,
                    onWire, resetSent, streams>> /\ pending_rst' = {} /\ local_rst' = pending_rst
    BY <1>13 DEF h2_take_rst_frames, table, results, calls, peers
  <2>2. pc'["writer"] = "write"
    BY <1>13, <1>t, StepType DEF h2_take_rst_frames
  <2>3. OnlyAbout(Heard)'
    BY <1>b, <1>c, <2>1 DEF OnlyAbout
  <2> QED
    BY <1>a, <2>1, <2>2, <2>3
<1>14. CASE orig_ssl_write
  <2>1. batch["writer"] \in Seq(Frame) /\ batch'["writer"] = <<>>
        /\ batch'["reader"] = batch["reader"] /\ UNCHANGED <<wireIn, resetSent>>
    BY <1>14, <1>t DEF orig_ssl_write, TypeOK
  <2>2. onWire' = Heard
    BY <1>14, <2>1 DEF orig_ssl_write, Heard, ToSet
  <2>3. Heard \subseteq Heard' /\ onWire \subseteq onWire'
    BY <2>2 DEF Heard
  <2>4. OnlyAbout(Heard)'
    BY <1>14, <1>d, <2>3 DEF orig_ssl_write, table, results
  <2> QED
    BY <2>1, <2>3, <2>4 DEF OnlyHeard, AnswersOnly, ResetAfterHeaders
<1>15. CASE WriteRefused
  <2>1. UNCHANGED <<early_checks, completed, checks, reports, batch, wireIn, pending_rst,
                    onWire, resetSent, streams>> /\ local_rst' = {}
    BY <1>15 DEF WriteRefused, table, results, peers
  <2>2. pc'["writer"] = "feed"
    BY <1>15, <1>t, StepType DEF WriteRefused
  <2>3. OnlyAbout(Heard)'
    BY <1>b, <1>c, <2>1 DEF OnlyAbout
  <2> QED
    BY <1>a, <2>1, <2>2, <2>3
<1>16. ASSUME NEW refused \in BOOLEAN, WriteResets(refused) PROVE OnlyHeard'
  <2>1. UNCHANGED <<early_checks, completed, checks, reports, batch, wireIn, pending_rst,
                    onWire, streams>> /\ local_rst' = {}
    BY <1>16 DEF WriteResets, table, results, calls
  <2>2. pc["writer"] = "writeRst" /\ pc'["writer"] = "idle"
    BY <1>16, <1>t, StepType DEF WriteResets
  <2>3. OnlyAbout(Heard)'
    BY <1>b, <1>c, <2>1 DEF OnlyAbout
  <2>4. Heard = onWire
    BY <2>2 DEF OnlyHeard, Heard
  <2>5. resetSent' \subseteq onWire
    BY <1>16, <1>c, <2>4 DEF WriteResets, OnlyAbout, OnlyHeard, ResetAfterHeaders
  <2> QED
    BY <2>1, <2>2, <2>3, <2>5 DEF OnlyHeard, AnswersOnly, ResetAfterHeaders
<1> QED
  BY <1>0, <1>1, <1>2, <1>3, <1>4, <1>5, <1>6, <1>7, <1>8, <1>9, <1>10, <1>11, <1>12, <1>13,
     <1>14, <1>15, <1>16 DEF Next, Peers, Feed, Callback, Write

----------------------------------------------------------------------------
(* No denial is lost.                                                      *)

\* Between its calls the writer has no resets in its hands.
LocalResets == pc["writer"] \notin {"write", "writeRst"} => local_rst = {}

\* Every step keeps it so: the resets of a write are gone before the next.
LEMMA LocalResetsHold == TypeOK /\ LocalResets /\ [Next]_vars => LocalResets'
<1> SUFFICES ASSUME TypeOK, LocalResets, [Next]_vars PROVE LocalResets'
  OBVIOUS
<1>t. "writer" \in Threads /\ "reader" \in Threads /\ "writer" # "reader"
  BY DEF Threads
<1>a. ASSUME UNCHANGED local_rst,
             pc["writer"] \in {"write", "writeRst"} => pc'["writer"] \in {"write", "writeRst"}
      PROVE  LocalResets'
  BY <1>a DEF LocalResets
<1>0. CASE UNCHANGED vars
  BY <1>0, <1>a DEF vars
<1>1. ASSUME NEW f \in Frame, Compose(f) \/ Serve(f) PROVE LocalResets'
  BY <1>1, <1>a DEF Compose, Serve
<1>2. CASE BeginWrite
  BY <1>2, <1>t, <1>a, StepType DEF BeginWrite
<1>3. CASE BeginRead
  BY <1>3, <1>t, <1>a, StepType DEF BeginRead
<1>4. CASE EndRead
  BY <1>4, <1>t, <1>a, StepType DEF EndRead
<1>5. ASSUME NEW t \in Threads, process_frame(t) PROVE LocalResets'
  BY <1>5, <1>t, <1>a, StepType DEF process_frame
<1>6. ASSUME NEW t \in Threads, TakeResults(t) PROVE LocalResets'
  BY <1>6, <1>t, <1>a, StepType DEF TakeResults
<1>7. ASSUME NEW t \in Threads, NEW blocked \in BOOLEAN, EarlyVerdict(t, blocked)
      PROVE  LocalResets'
  BY <1>7, <1>t, <1>a, StepType DEF EarlyVerdict
<1>8. ASSUME NEW t \in Threads, h2_enqueue_rst_stream(t) PROVE LocalResets'
  BY <1>8, <1>t, <1>a, StepType DEF h2_enqueue_rst_stream
<1>9. ASSUME NEW t \in Threads, h2_block_stream(t) PROVE LocalResets'
  BY <1>9, <1>t, <1>a, StepType DEF h2_block_stream
<1>10. ASSUME NEW t \in Threads, NEW blocked \in BOOLEAN, ReportVerdict(t, blocked)
       PROVE  LocalResets'
  BY <1>10, <1>t, <1>a, StepType DEF ReportVerdict
<1>11. ASSUME NEW t \in Threads, EnqueueReport(t) PROVE LocalResets'
  BY <1>11, <1>t, <1>a, StepType DEF EnqueueReport
<1>12. CASE h2_take_rst_frames
  BY <1>12, <1>t, StepType DEF h2_take_rst_frames, LocalResets
<1>13. CASE orig_ssl_write
  BY <1>13, <1>t, <1>a, StepType DEF orig_ssl_write
<1>14. CASE WriteRefused
  BY <1>14, <1>t, StepType DEF WriteRefused, LocalResets
<1>15. ASSUME NEW refused \in BOOLEAN, WriteResets(refused) PROVE LocalResets'
  BY <1>15, <1>t, StepType DEF WriteResets, LocalResets
<1> QED
  BY <1>0, <1>1, <1>2, <1>3, <1>4, <1>5, <1>6, <1>7, <1>8, <1>9, <1>10, <1>11, <1>12, <1>13,
     <1>14, <1>15 DEF Next, Peers, Feed, Callback, Write

\* Refused writes are counted.
LEMMA FailuresCounted ==
    ASSUME TypeOK, [Next]_vars, failures' = 0
    PROVE  failures = 0
<1>1. ASSUME NEW refused \in BOOLEAN, WriteResets(refused) PROVE failures = 0
  BY <1>1 DEF WriteResets, TypeOK
<1>2. CASE WriteRefused
  BY <1>2 DEF WriteRefused, TypeOK
<1> QED
  BY <1>1, <1>2 DEF Next, vars, Peers, Compose, Serve, BeginWrite, BeginRead, EndRead, Feed,
     process_frame, TakeResults, Callback, EarlyVerdict, ReportVerdict, h2_enqueue_rst_stream,
     h2_block_stream, EnqueueReport, Write, h2_take_rst_frames, orig_ssl_write

\* While SSL takes what it is given, a reset once under way stays so or is sent.
LEMMA ResettingStays ==
    ASSUME TypeOK, LocalResets, [Next]_vars, failures' = 0, NEW s \in Streams, Resetting(s)
    PROVE  Resetting(s)'
<1>t. "writer" \in Threads /\ "reader" \in Threads /\ "writer" # "reader"
  BY DEF Threads
<1>b. ASSUME UNCHANGED <<pending_rst, local_rst, resetSent, checks>>,
             \A t \in Threads : pc[t] = "enqueue" => pc'[t] = "enqueue"
      PROVE  Resetting(s)'
  BY <1>b DEF Resetting
<1>0. CASE UNCHANGED vars
  BY <1>0, <1>b DEF vars, results, peers
<1>1. ASSUME NEW f \in Frame, Compose(f) \/ Serve(f) PROVE Resetting(s)'
  BY <1>1, <1>b DEF Compose, Serve, results
<1>2. CASE BeginWrite
  BY <1>2, <1>t, <1>b, StepType DEF BeginWrite, results, peers
<1>3. CASE BeginRead
  BY <1>3, <1>t, <1>b, StepType DEF BeginRead, results
<1>4. CASE EndRead
  BY <1>4, <1>t, <1>b, StepType DEF EndRead, results, peers
<1>5. ASSUME NEW t \in Threads, process_frame(t) PROVE Resetting(s)'
  BY <1>5, <1>b, StepType DEF process_frame, results, peers
<1>6. ASSUME NEW t \in Threads, TakeResults(t) PROVE Resetting(s)'
  <2>1. pc[t] = "feed" /\ \A x \in Threads \ {t} : pc'[x] = pc[x] /\ checks'[x] = checks[x]
    BY <1>6, StepType DEF TakeResults, TypeOK
  <2> QED
    BY <1>6, <2>1 DEF TakeResults, Resetting, peers
<1>7. ASSUME NEW t \in Threads, NEW blocked \in BOOLEAN, EarlyVerdict(t, blocked)
      PROVE  Resetting(s)'
  <2>1. pc[t] = "check" /\ \A x \in Threads \ {t} : pc'[x] = pc[x] /\ checks'[x] = checks[x]
    BY <1>7, StepType DEF EarlyVerdict, TypeOK
  <2> QED
    BY <1>7, <2>1 DEF EarlyVerdict, Resetting, peers
<1>8. ASSUME NEW t \in Threads, h2_enqueue_rst_stream(t) PROVE Resetting(s)'
  <2>1. \A x \in Threads \ {t} : pc'[x] = pc[x]
    BY <1>8, StepType DEF h2_enqueue_rst_stream
  <2> QED
    BY <1>8, <2>1 DEF h2_enqueue_rst_stream, EnqueueReset, Resetting, results, peers
<1>9. ASSUME NEW t \in Threads, h2_block_stream(t) PROVE Resetting(s)'
  <2>1. pc[t] = "mark" /\ \A x \in Threads \ {t} : pc'[x] = pc[x] /\ checks'[x] = checks[x]
    BY <1>9, StepType DEF h2_block_stream, TypeOK
  <2> QED
    BY <1>9, <2>1 DEF h2_block_stream, Resetting, peers
<1>10. ASSUME NEW t \in Threads, NEW blocked \in BOOLEAN, ReportVerdict(t, blocked)
       PROVE  Resetting(s)'
  BY <1>10, <1>b, StepType DEF ReportVerdict, peers
<1>11. ASSUME NEW t \in Threads, EnqueueReport(t) PROVE Resetting(s)'
  <2>1. pc[t] = "enqueueReport" /\ \A x \in Threads \ {t} : pc'[x] = pc[x]
    BY <1>11, StepType DEF EnqueueReport
  <2> QED
    BY <1>11, <2>1 DEF EnqueueReport, EnqueueReset, Resetting, peers
<1>12. CASE h2_take_rst_frames
  <2>1. pc["writer"] = "check" /\ \A x \in Threads \ {"writer"} : pc'[x] = pc[x]
    BY <1>12, <1>t, StepType DEF h2_take_rst_frames
  <2>2. local_rst = {}
    BY <2>1 DEF LocalResets
  <2> QED
    BY <1>12, <2>1, <2>2 DEF h2_take_rst_frames, Resetting, results, peers
<1>13. CASE orig_ssl_write
  BY <1>13, <1>t, <1>b, StepType DEF orig_ssl_write, results
<1>14. CASE WriteRefused
  BY <1>14 DEF WriteRefused, TypeOK
<1>15. ASSUME NEW refused \in BOOLEAN, WriteResets(refused) PROVE Resetting(s)'
  <2>1. ~refused
    BY <1>15 DEF WriteResets, TypeOK
  <2>2. pc["writer"] = "writeRst" /\ \A x \in Threads \ {"writer"} : pc'[x] = pc[x]
    BY <1>15, <1>t, StepType DEF WriteResets
  <2> QED
    BY <1>15, <2>1, <2>2 DEF WriteResets, Resetting, results
<1> QED
  BY <1>0, <1>1, <1>2, <1>3, <1>4, <1>5, <1>6, <1>7, <1>8, <1>9, <1>10, <1>11, <1>12, <1>13,
     <1>14, <1>15 DEF Next, Peers, Feed, Callback, Write

\* A request that was denied is being reset: its reset was under way, or the verdict has just come.
LEMMA DenialHolds ==
    TypeOK /\ Holding /\ LocalResets /\ DenialIsNotLost /\ [Next]_vars => DenialIsNotLost'
<1> SUFFICES ASSUME TypeOK, Holding, LocalResets, DenialIsNotLost, [Next]_vars, failures' = 0,
                    NEW s \in Streams, verdict'[s] = "block"
             PROVE  Resetting(s)'
  BY DEF DenialIsNotLost
<1>1. CASE verdict[s] = "block"
  BY <1>1, FailuresCounted, ResettingStays DEF DenialIsNotLost
<1>2. ASSUME NEW t \in Threads, NEW blocked \in BOOLEAN, EarlyVerdict(t, blocked)
      PROVE  Resetting(s)'
  <2>1. CASE verdict[s] # "block"
    <3>1. blocked /\ s = Head(checks[t])
      BY <1>2, <2>1 DEF EarlyVerdict, TypeOK
    <3>2. pc'[t] = "enqueue" /\ checks' = checks
      BY <1>2, <3>1, StepType DEF EarlyVerdict
    <3> QED
      BY <3>1, <3>2 DEF Resetting
  <2> QED
    BY <1>1, <2>1
<1>3. CASE UNCHANGED verdict
  BY <1>1, <1>3
<1> QED
  BY <1>2, <1>3 DEF Next, vars, Peers, Compose, Serve, BeginWrite, BeginRead, EndRead, Feed,
     process_frame, TakeResults, Callback, ReportVerdict, h2_enqueue_rst_stream, h2_block_stream,
     EnqueueReport, Write, h2_take_rst_frames, orig_ssl_write, WriteRefused, WriteResets

----------------------------------------------------------------------------
(* Verdicts come before responses.                                         *)

\* What a frame f of direction t may do to the streams: to others nothing, unless one is evicted,
\* and to its own nothing once that is blocked.  The last of the flags of a stream is a response's,
\* so that the writer's frames remove no stream without one.
LEMMA FrameFacts ==
    ASSUME TypeOK, NEW t \in Threads, NEW f \in Frame,
           ResetFrame(f) \/ IgnoreFrame(t, f) \/ AcceptFrame(t, f)
    PROVE  LET s == f.stream
           IN  /\ evictions' = 0 => evictions = 0
               /\ \/ early_checks' = early_checks
                  \/ t = "writer" /\ f.fin /\ early_checks' = Append(early_checks, s)
               /\ \A x \in Streams :
                     /\ streams'[x].is_blocked => streams[x].is_blocked
                     /\ streams'[x].req_headers_done =>
                           \/ streams[x].req_headers_done
                           \/ x = s /\ early_checks' = Append(early_checks, s)
                     /\ streams'[x].resp_headers_done =>
                           streams[x].resp_headers_done \/ (x = s /\ t = "reader")
               /\ evictions' = 0 =>
                     /\ \A x \in Streams \ {s} : /\ x \in live <=> x \in live'
                                                /\ streams'[x] = streams[x]
                                                /\ snapshots'[x] = snapshots[x]
                     /\ \/ snapshots'[s] = snapshots[s]
                        \/ t = "reader" \/ streams[s].resp_headers_done
                     /\ f.kind # "RST_STREAM" =>
                           /\ s \in live /\ streams[s].is_blocked =>
                                 UNCHANGED <<live, streams, early_checks, snapshots>>
                           /\ s \in live \/ f.kind = "HEADERS" \/ early_checks' # early_checks =>
                                 \/ s \in live' \/ t = "reader" \/ streams[s].resp_headers_done
                           /\ t = "writer" /\ f.fin /\ f.kind # "PUSH_PROMISE" =>
                                 \/ early_checks' = Append(early_checks, s)
                                 \/ s \in live /\ streams[s].is_blocked
                                 \/ s \notin live /\ f.kind = "CONTINUATION"
<1> USE FrameParts
<1>t. t \in {"writer", "reader"}
  BY DEF Threads
<1>n. NewStream.is_blocked = FALSE /\ NewStream.req_headers_done = FALSE
      /\ NewStream.resp_headers_done = FALSE
  BY DEF NewStream
<1>e. evictions \in Nat
  BY DEF TypeOK
<1>d. \A x \in Streams \ live : streams[x] = NewStream
  BY DEF TypeOK
<1>1. CASE ResetFrame(f)
  <2>1. Keep(f.stream, NewStream, FALSE, {})
    BY <1>1 DEF ResetFrame
  <2>2. \A x \in Streams : streams'[x] = IF x = f.stream THEN NewStream ELSE streams[x]
    BY <2>1 DEF Keep
  <2>3. live' = live \ {f.stream}
    BY <2>1 DEF Keep
  <2> QED
    BY <1>1, <1>n, <2>2, <2>3 DEF ResetFrame
<1>2. CASE IgnoreFrame(t, f)
  <2>1. UNCHANGED <<live, streams, early_checks, snapshots, evictions>>
    BY <1>2 DEF IgnoreFrame
  <2>2. f.kind # "RST_STREAM"
        /\ (IF f.stream \in live THEN streams[f.stream].is_blocked ELSE f.kind # "HEADERS")
    BY <1>2 DEF IgnoreFrame
  <2> QED
    BY <2>1, <2>2
<1>3. CASE AcceptFrame(t, f)
  <2>1. PICK gone \in SUBSET live :
           /\ Evicted(gone)
           /\ \/ f.kind = "DATA" /\ DataFrame(t, f, gone)
              \/ f.kind = "PUSH_PROMISE" /\ PromiseFrame(t, f, gone)
              \/ HoldsHeaders(f) /\ ~f.fin /\ OpenBlock(t, f, gone)
              \/ HoldsHeaders(f) /\ f.fin /\ CloseBlock(t, f, gone)
    BY <1>3 DEF AcceptFrame
  <2>2. f.kind # "RST_STREAM"
        /\ (IF f.stream \in live THEN ~streams[f.stream].is_blocked ELSE f.kind = "HEADERS")
    BY <1>3 DEF AcceptFrame
  <2>3. evictions' = 0 => evictions = 0 /\ gone = {}
    BY <1>e, <2>1 DEF Evicted
  <2> DEFINE cur == Current(f.stream, gone)
  <2>4. cur \in Http2Stream
    BY CurrentType
  <2>5. cur = streams[f.stream] \/ (cur = NewStream /\ gone # {})
    BY <1>d DEF Current
  <2>6. ASSUME NEW st \in Http2Stream, NEW stays \in BOOLEAN, Keep(f.stream, st, stays, gone)
        PROVE  /\ \A x \in Streams \ {f.stream} : streams'[x] \in {streams[x], NewStream}
               /\ streams'[f.stream] = IF stays THEN st ELSE NewStream
               /\ f.stream \in live' <=> stays
               /\ gone = {} => \A x \in Streams \ {f.stream} :
                                  streams'[x] = streams[x] /\ (x \in live <=> x \in live')
    BY <2>6 DEF Keep
  <2>7. ASSUME snapshot_stream(f.stream) \/ UNCHANGED snapshots
        PROVE  \A x \in Streams \ {f.stream} : snapshots'[x] = snapshots[x]
    BY <2>7 DEF snapshot_stream, TypeOK
  <2>8. CASE DataFrame(t, f, gone) /\ f.kind = "DATA"
    <3> DEFINE st == [cur EXCEPT !.req_end_stream = @ \/ t = "writer",
                                 !.resp_end_stream = @ \/ t = "reader"]
    <3>1. st \in Http2Stream /\ is_complete(st) \in BOOLEAN
          /\ st.is_blocked = cur.is_blocked /\ st.req_headers_done = cur.req_headers_done
          /\ st.resp_headers_done = cur.resp_headers_done
          /\ (is_complete(st) => cur.resp_headers_done)
      BY <2>4 DEF Http2Stream, is_complete
    <3>2. Keep(f.stream, st, ~is_complete(st), gone)
      BY <2>8 DEF DataFrame
    <3>3. early_checks' = early_checks /\ (snapshots' = snapshots \/ is_complete(st))
          /\ (snapshot_stream(f.stream) \/ UNCHANGED snapshots)
      BY <2>8 DEF DataFrame
    <3> HIDE DEF st
    <3>4. /\ \A x \in Streams \ {f.stream} : streams'[x] \in {streams[x], NewStream}
          /\ streams'[f.stream] = IF ~is_complete(st) THEN st ELSE NewStream
          /\ f.stream \in live' <=> ~is_complete(st)
          /\ gone = {} => \A x \in Streams \ {f.stream} :
                             streams'[x] = streams[x] /\ (x \in live <=> x \in live')
      BY <2>6, <3>1, <3>2
    <3>5. \A x \in Streams \ {f.stream} : snapshots'[x] = snapshots[x]
      BY <2>7, <3>3
    <3> HIDE DEF cur
    <3> QED
      BY <1>t, <1>n, <2>2, <2>3, <2>5, <2>8, <3>1, <3>3, <3>4, <3>5
  <2>9. CASE OpenBlock(t, f, gone) /\ HoldsHeaders(f) /\ ~f.fin
    <3> DEFINE st == [cur EXCEPT !.pending_header_block = @ \cup {<<t, f.kind>>}]
    <3>1. st \in Http2Stream
          /\ st.is_blocked = cur.is_blocked /\ st.req_headers_done = cur.req_headers_done
          /\ st.resp_headers_done = cur.resp_headers_done
      BY <2>4, <2>9 DEF Http2Stream, Fragment, HoldsHeaders
    <3>2. Keep(f.stream, st, TRUE, gone)
      BY <2>9 DEF OpenBlock
    <3>3. early_checks' = early_checks /\ snapshots' = snapshots
      BY <2>9 DEF OpenBlock
    <3> HIDE DEF st
    <3>4. /\ \A x \in Streams \ {f.stream} : streams'[x] \in {streams[x], NewStream}
          /\ streams'[f.stream] = st
          /\ f.stream \in live'
          /\ gone = {} => \A x \in Streams \ {f.stream} :
                             streams'[x] = streams[x] /\ (x \in live <=> x \in live')
      BY <2>6, <3>1, <3>2
    <3> HIDE DEF cur
    <3> QED
      BY <1>t, <1>n, <2>2, <2>3, <2>5, <2>9, <3>1, <3>3, <3>4
  <2>10. CASE CloseBlock(t, f, gone) /\ f.fin
    <3> DEFINE st == Decoded(t, f, cur)
               erased == is_complete(st) /\ (t = "writer" \/ f.end)
    <3>1. st \in Http2Stream /\ erased \in BOOLEAN
          /\ st.is_blocked = cur.is_blocked
          /\ (t = "reader" => st.req_headers_done = cur.req_headers_done)
          /\ (t = "writer" => st.resp_headers_done = cur.resp_headers_done)
          /\ (erased /\ t = "writer" => cur.resp_headers_done)
      BY <1>t, <2>4 DEF Http2Stream, is_complete, Decoded
    <3>2. Keep(f.stream, st, ~erased, gone)
      BY <2>10 DEF CloseBlock
    <3>3. /\ early_checks' = IF t = "writer" THEN Append(early_checks, f.stream) ELSE early_checks
          /\ snapshots' = snapshots \/ erased \/ t = "reader"
          /\ snapshot_stream(f.stream) \/ UNCHANGED snapshots
      BY <2>10 DEF CloseBlock
    <3> HIDE DEF st, erased
    <3>4. /\ \A x \in Streams \ {f.stream} : streams'[x] \in {streams[x], NewStream}
          /\ streams'[f.stream] = IF ~erased THEN st ELSE NewStream
          /\ f.stream \in live' <=> ~erased
          /\ gone = {} => \A x \in Streams \ {f.stream} :
                             streams'[x] = streams[x] /\ (x \in live <=> x \in live')
      BY <2>6, <3>1, <3>2
    <3>5. \A x \in Streams \ {f.stream} : snapshots'[x] = snapshots[x]
      BY <2>7, <3>3
    <3> HIDE DEF cur
    <3> QED
      BY <1>t, <1>n, <2>2, <2>3, <2>5, <2>10, <3>1, <3>3, <3>4, <3>5
  <2>11. CASE PromiseFrame(t, f, gone) /\ f.kind = "PUSH_PROMISE"
    <3>1. /\ Keep(f.stream, cur, TRUE, gone)
          /\ early_checks' = early_checks /\ snapshots' = snapshots
      BY <2>11 DEF PromiseFrame
    <3>2. /\ \A x \in Streams \ {f.stream} : streams'[x] \in {streams[x], NewStream}
          /\ streams'[f.stream] = cur
          /\ f.stream \in live'
          /\ gone = {} => \A x \in Streams \ {f.stream} :
                             streams'[x] = streams[x] /\ (x \in live <=> x \in live')
      BY <2>4, <2>6, <3>1
    <3> HIDE DEF cur
    <3> QED
      BY <1>t, <1>n, <2>2, <2>3, <2>5, <2>11, <3>1, <3>2
  <2> QED
    BY <2>1, <2>8, <2>9, <2>10, <2>11
<1> QED
  BY <1>1, <1>2, <1>3

\* Where a thread stands says what it has in its hands.
ThreadsInStep ==
    /\ \A t \in Threads :
          /\ pc[t] \notin {"check", "enqueue", "mark"} => checks[t] = <<>>
          /\ pc[t] \in {"enqueue", "mark"} => verdict[Head(checks[t])] # "none"
    /\ pc["writer"] # "feed" => early_checks = <<>>
    /\ pc["writer"] \in {"idle", "writeRst"} => next["writer"] = 1
    /\ pc["writer"] \notin {"idle", "feed"} => next["writer"] > Len(batch["writer"])
    /\ \A s \in Streams : streams[s].is_blocked => verdict[s] # "none"

\* A verdict stays what it was.
LEMMA FirstVerdict ==
    ASSUME TypeOK, [Next]_vars, NEW s \in Streams, verdict[s] # "none"
    PROVE  verdict'[s] = verdict[s]
<1>1. ASSUME NEW t \in Threads, NEW blocked \in BOOLEAN, EarlyVerdict(t, blocked)
      PROVE  verdict'[s] = verdict[s]
  BY <1>1 DEF EarlyVerdict, TypeOK
<1> QED
  BY <1>1 DEF Next, vars, Peers, Compose, Serve, BeginWrite, BeginRead, EndRead, Feed,
     process_frame, TakeResults, Callback, ReportVerdict, h2_enqueue_rst_stream, h2_block_stream,
     EnqueueReport, Write, h2_take_rst_frames, orig_ssl_write, WriteRefused, WriteResets

\* Every step keeps the threads in step.
LEMMA StepHolds == TypeOK /\ Holding /\ ThreadsInStep /\ [Next]_vars => ThreadsInStep'
<1> SUFFICES ASSUME TypeOK, Holding, ThreadsInStep, [Next]_vars PROVE ThreadsInStep'
  OBVIOUS
<1>t. "writer" \in Threads /\ "reader" \in Threads /\ "writer" # "reader"
  BY DEF Threads
<1>v. \A s \in Streams : verdict[s] # "none" => verdict'[s] # "none"
  BY FirstVerdict
<1>h. \A t \in Threads : pc[t] \in {"enqueue", "mark"} => Head(checks[t]) \in Streams
  BY DEF TypeOK, Holding
<1>b. ASSUME UNCHANGED <<checks, early_checks, streams, batch, next>>,
             \A t \in Threads :
                \/ pc'[t] = pc[t]
                \/ pc[t] = "enqueue" /\ pc'[t] = "mark"
                \/ pc[t] = "idle" /\ pc'[t] = "feed"
                \/ pc[t] = "check" /\ pc'[t] = "enqueueReport" /\ checks[t] = <<>>
                \/ pc[t] = "enqueueReport" /\ pc'[t] = "check"
      PROVE  ThreadsInStep'
  BY <1>b, <1>t, <1>v, <1>h DEF ThreadsInStep
<1>0. CASE UNCHANGED vars
  BY <1>0, <1>b DEF vars, table, results, calls
<1>1. ASSUME NEW f \in Frame, Compose(f) PROVE ThreadsInStep'
  BY <1>1, <1>t, <1>v, <1>h DEF Compose, ThreadsInStep, results, table
<1>2. ASSUME NEW f \in Frame, Serve(f) PROVE ThreadsInStep'
  BY <1>2, <1>b DEF Serve, results, table, calls
<1>3. CASE BeginWrite
  BY <1>3, <1>t, <1>b, StepType DEF BeginWrite, results, table, calls
<1>4. CASE BeginRead
  <2>1. pc["reader"] = "idle" /\ pc'["reader"] = "feed" /\ pc'["writer"] = pc["writer"]
    BY <1>4, <1>t, StepType DEF BeginRead
  <2>2. batch'["writer"] = batch["writer"] /\ next'["writer"] = next["writer"]
    BY <1>4, <1>t DEF BeginRead, TypeOK
  <2> QED
    BY <1>4, <1>t, <1>v, <1>h, <2>1, <2>2 DEF BeginRead, ThreadsInStep, results, table, Threads
<1>5. CASE EndRead
  <2>1. pc["reader"] = "check" /\ pc'["reader"] = "idle" /\ pc'["writer"] = pc["writer"]
    BY <1>5, <1>t, StepType DEF EndRead
  <2>2. batch'["writer"] = batch["writer"] /\ checks["reader"] = <<>>
    BY <1>5, <1>t DEF EndRead, TypeOK
  <2> QED
    BY <1>5, <1>t, <1>v, <1>h, <2>1, <2>2 DEF EndRead, ThreadsInStep, results, table, Threads
<1>6. ASSUME NEW t \in Threads, process_frame(t) PROVE ThreadsInStep'
  <2> DEFINE f == batch[t][next[t]]
  <2>1. f \in Frame
    BY <1>6 DEF process_frame, TypeOK
  <2>2. ResetFrame(f) \/ IgnoreFrame(t, f) \/ AcceptFrame(t, f)
    BY <1>6 DEF process_frame
  <2>3. pc[t] = "feed" /\ UNCHANGED <<pc, checks, batch>>
    BY <1>6 DEF process_frame, Step, TypeOK, results
  <2>4. t # "writer" => next'["writer"] = next["writer"]
    BY <1>6, <1>t DEF process_frame, TypeOK
  <2> HIDE DEF f
  <2>5. /\ early_checks' = early_checks \/ t = "writer"
        /\ \A x \in Streams : streams'[x].is_blocked => streams[x].is_blocked
    BY <2>1, <2>2, FrameFacts
  <2> QED
    BY <1>t, <1>v, <1>h, <2>3, <2>4, <2>5 DEF ThreadsInStep
<1>7. ASSUME NEW t \in Threads, TakeResults(t) PROVE ThreadsInStep'
  <2>1. pc[t] = "feed" /\ pc'[t] = "check" /\ \A x \in Threads \ {t} : pc'[x] = pc[x]
    BY <1>7, StepType DEF TakeResults
  <2>2. \A x \in Threads \ {t} : checks'[x] = checks[x]
    BY <1>7 DEF TakeResults, TypeOK
  <2>3. next[t] > Len(batch[t]) /\ early_checks' = <<>> /\ UNCHANGED <<streams, next, batch>>
    BY <1>7 DEF TakeResults, calls
  <2> QED
    BY <1>t, <1>v, <1>h, <2>1, <2>2, <2>3 DEF ThreadsInStep
<1>8. ASSUME NEW t \in Threads, NEW blocked \in BOOLEAN, EarlyVerdict(t, blocked)
      PROVE  ThreadsInStep'
  <2>1. pc[t] = "check" /\ \A x \in Threads \ {t} : pc'[x] = pc[x]
    BY <1>8, StepType DEF EarlyVerdict
  <2>2. \A x \in Threads \ {t} : checks'[x] = checks[x]
    BY <1>8 DEF EarlyVerdict, TypeOK
  <2>3. UNCHANGED <<early_checks, streams, next, batch>>
    BY <1>8 DEF EarlyVerdict, table, calls
  <2>4. checks[t] \in Seq(Streams) /\ checks[t] # <<>>
    BY <1>8 DEF EarlyVerdict, TypeOK
  <2>5. pc'[t] = "check" \/ (pc'[t] = "enqueue" /\ checks' = checks
                               /\ verdict'[Head(checks[t])] # "none")
    BY <1>8, <2>4, StepType DEF EarlyVerdict, TypeOK
  <2> QED
    BY <1>t, <1>v, <1>h, <2>1, <2>2, <2>3, <2>5 DEF ThreadsInStep
<1>9. ASSUME NEW t \in Threads, h2_enqueue_rst_stream(t) PROVE ThreadsInStep'
  BY <1>9, <1>b, StepType DEF h2_enqueue_rst_stream, results, table, calls
<1>10. ASSUME NEW t \in Threads, h2_block_stream(t) PROVE ThreadsInStep'
  <2>1. pc[t] = "mark" /\ pc'[t] = "check" /\ \A x \in Threads \ {t} : pc'[x] = pc[x]
    BY <1>10, StepType DEF h2_block_stream
  <2>2. \A x \in Threads \ {t} : checks'[x] = checks[x]
    BY <1>10 DEF h2_block_stream, TypeOK
  <2>3. UNCHANGED <<early_checks, next, batch>>
    BY <1>10 DEF h2_block_stream, calls
  <2>4. \A s \in Streams : streams'[s].is_blocked => streams[s].is_blocked \/ s = Head(checks[t])
    BY <1>10 DEF h2_block_stream, TypeOK
  <2>5. verdict[Head(checks[t])] # "none"
    BY <2>1 DEF ThreadsInStep
  <2> QED
    BY <1>t, <1>v, <1>h, <2>1, <2>2, <2>3, <2>4, <2>5 DEF ThreadsInStep
<1>11. ASSUME NEW t \in Threads, NEW blocked \in BOOLEAN, ReportVerdict(t, blocked)
       PROVE  ThreadsInStep'
  BY <1>11, <1>b, StepType DEF ReportVerdict, table, calls
<1>12. ASSUME NEW t \in Threads, EnqueueReport(t) PROVE ThreadsInStep'
  BY <1>12, <1>b, StepType DEF EnqueueReport, table, calls
<1>13. CASE h2_take_rst_frames
  <2>1. pc["writer"] = "check" /\ pc'["writer"] = "write" /\ pc'["reader"] = pc["reader"]
    BY <1>13, <1>t, StepType DEF h2_take_rst_frames
  <2> QED
    BY <1>13, <1>t, <1>v, <1>h, <2>1
       DEF h2_take_rst_frames, ThreadsInStep, results, table, calls, Threads
<1>14. CASE orig_ssl_write
  <2>1. pc["writer"] = "write" /\ pc'["writer"] = "writeRst" /\ pc'["reader"] = pc["reader"]
    BY <1>14, <1>t, StepType DEF orig_ssl_write
  <2>2. batch'["writer"] = <<>> /\ next'["writer"] = 1
    BY <1>14, <1>t DEF orig_ssl_write, TypeOK
  <2> QED
    BY <1>14, <1>t, <1>v, <1>h, <2>1, <2>2
       DEF orig_ssl_write, ThreadsInStep, results, table, Threads
<1>15. CASE WriteRefused
  <2>1. pc["writer"] = "write" /\ pc'["writer"] = "feed" /\ pc'["reader"] = pc["reader"]
    BY <1>15, <1>t, StepType DEF WriteRefused
  <2> QED
    BY <1>15, <1>t, <1>v, <1>h, <2>1
       DEF WriteRefused, ThreadsInStep, results, table, Threads
<1>16. ASSUME NEW refused \in BOOLEAN, WriteResets(refused) PROVE ThreadsInStep'
  <2>1. pc["writer"] = "writeRst" /\ pc'["writer"] = "idle" /\ pc'["reader"] = pc["reader"]
    BY <1>16, <1>t, StepType DEF WriteResets
  <2> QED
    BY <1>16, <1>t, <1>v, <1>h, <2>1
       DEF WriteResets, ThreadsInStep, results, table, calls, Threads
<1> QED
  BY <1>0, <1>1, <1>2, <1>3, <1>4, <1>5, <1>6, <1>7, <1>8, <1>9, <1>10, <1>11, <1>12, <1>13,
     <1>14, <1>15, <1>16 DEF Next, Peers, Feed, Callback, Write

\* The members of a queue.
LEMMA MembersAppend ==
    ASSUME NEW S, NEW q \in Seq(S), NEW e \in S
    PROVE  ToSet(Append(q, e)) = ToSet(q) \cup {e}
<1> DEFINE r == Append(q, e)
<1>1. r \in Seq(S) /\ Len(r) = Len(q) + 1 /\ r[Len(r)] = e /\ \A i \in 1 .. Len(q) : r[i] = q[i]
  OBVIOUS
<1>2. ToSet(r) = {r[i] : i \in 1 .. Len(r)} /\ ToSet(q) = {q[i] : i \in 1 .. Len(q)}
  BY <1>1 DEF ToSet
<1>3. Len(q) \in Nat /\ 1 .. Len(r) = (1 .. Len(q)) \cup {Len(r)}
  BY <1>1
<1> HIDE DEF r
<1>4. ToSet(r) = ToSet(q) \cup {e}
  BY <1>1, <1>2, <1>3
<1> QED
  BY <1>4 DEF r

\* The members of a sequence are its head and those of its tail.
LEMMA MembersTail ==
    ASSUME NEW S, NEW q \in Seq(S), q # <<>>
    PROVE  /\ Head(q) \in S /\ Tail(q) \in Seq(S)
           /\ ToSet(q) = {Head(q)} \cup ToSet(Tail(q))
<1> DEFINE r == Tail(q)
<1>1. /\ r \in Seq(S) /\ Len(r) = Len(q) - 1 /\ Head(q) = q[1] /\ Len(q) \in Nat \ {0}
      /\ \A i \in 1 .. Len(r) : r[i] = q[i + 1]
  OBVIOUS
<1>5. 1 \in 1 .. Len(q) /\ Head(q) \in S
  <2>1. Len(q) \in Nat \ {0} /\ Head(q) = q[1]
    BY <1>1
  <2>2. 1 \in 1 .. Len(q)
    BY <2>1
  <2>3. q[1] \in S
    BY <2>2
  <2> QED
    BY <2>1, <2>2, <2>3
<1> HIDE DEF r
<1>2. ToSet(r) = {r[i] : i \in 1 .. Len(r)} /\ ToSet(q) = {q[i] : i \in 1 .. Len(q)}
  <2>1. DOMAIN r = 1 .. Len(r) /\ DOMAIN q = 1 .. Len(q)
    BY <1>1
  <2> QED
    BY <2>1 DEF ToSet
<1>3. ASSUME NEW i \in 1 .. Len(q), i # 1 PROVE i - 1 \in 1 .. Len(r) /\ q[i] = r[i - 1]
  <2>1. i - 1 \in 1 .. Len(r) /\ (i - 1) + 1 = i
    BY <1>1, <1>3
  <2> QED
    BY <1>1, <2>1
<1>4. \A i \in 1 .. Len(r) : i + 1 \in 1 .. Len(q)
  BY <1>1
<1>5a. q[1] = Head(q) /\ 1 \in 1 .. Len(q)
  BY <1>1, <1>5
<1>5b. \A i \in 1 .. Len(r) : r[i] = q[i + 1]
  BY <1>1
<1>6. ToSet(q) = {Head(q)} \cup ToSet(r)
  <2>1. ASSUME NEW x \in ToSet(q) PROVE x \in {Head(q)} \cup ToSet(r)
    <3>1. PICK i \in 1 .. Len(q) : x = q[i]
      BY <1>2, <2>1
    <3>2. CASE i = 1
      BY <1>5a, <3>1, <3>2
    <3>3. CASE i # 1
      <4>1. i - 1 \in 1 .. Len(r) /\ x = r[i - 1]
        BY <1>3, <3>1, <3>3
      <4>2. x \in ToSet(r)
        BY <1>2, <4>1
      <4> QED
        BY <4>2
    <3> QED
      BY <3>2, <3>3
  <2>2. ToSet(r) \subseteq ToSet(q)
    <3>1. ASSUME NEW x \in ToSet(r) PROVE x \in ToSet(q)
      <4>1. PICK i \in 1 .. Len(r) : x = r[i]
        BY <1>2, <3>1
      <4>2. x = q[i + 1] /\ i + 1 \in 1 .. Len(q)
        BY <1>4, <1>5b, <4>1
      <4> QED
        BY <1>2, <4>2
    <3> QED
      BY <3>1
  <2>3. Head(q) \in ToSet(q)
    BY <1>2, <1>5a
  <2> QED
    BY <2>1, <2>2, <2>3
<1> QED
  BY <1>1, <1>5, <1>6 DEF r

\* The empty sequence has no members.
LEMMA MembersNone == ToSet(<<>>) = {}
  BY DEF ToSet

\* A verdict was given, or will be before the reader goes on; before that it was asked for.
Asked(s) == verdict[s] # "none" \/ s \in ToSet(checks["reader"])
Checked(s) == Asked(s) \/ s \in ToSet(early_checks) \/ s \in ToSet(checks["writer"])

\* What was asked about stays so.
LEMMA CheckedStays ==
    ASSUME TypeOK, Holding, ThreadsInStep, [Next]_vars, NEW s \in Streams
    PROVE  (Asked(s) => Asked(s)') /\ (Checked(s) => Checked(s)')
<1>t. "writer" \in Threads /\ "reader" \in Threads /\ "writer" # "reader"
      /\ Threads = {"writer", "reader"}
  BY DEF Threads
<1>v. verdict[s] # "none" => verdict'[s] # "none"
  BY FirstVerdict
<1>a. ASSUME UNCHANGED <<checks, early_checks>>
      PROVE  (Asked(s) => Asked(s)') /\ (Checked(s) => Checked(s)')
  BY <1>a, <1>v DEF Asked, Checked
\* A head that leaves its queue has its verdict.
<1>b. ASSUME NEW t \in Threads, checks[t] # <<>>, checks' = [checks EXCEPT ![t] = Tail(@)],
             UNCHANGED early_checks, verdict'[Head(checks[t])] # "none"
      PROVE  (Asked(s) => Asked(s)') /\ (Checked(s) => Checked(s)')
  <2>1. ToSet(checks[t]) = {Head(checks[t])} \cup ToSet(Tail(checks[t]))
    BY <1>b, MembersTail DEF TypeOK
  <2>2. checks'[t] = Tail(checks[t]) /\ \A x \in Threads \ {t} : checks'[x] = checks[x]
    BY <1>b DEF TypeOK
  <2> QED
    BY <1>b, <1>t, <1>v, <2>1, <2>2 DEF Asked, Checked
<1>1. ASSUME NEW t \in Threads, process_frame(t)
      PROVE  (Asked(s) => Asked(s)') /\ (Checked(s) => Checked(s)')
  <2> DEFINE f == batch[t][next[t]]
  <2>1. f \in Frame
    BY <1>1 DEF process_frame, TypeOK
  <2>2. ResetFrame(f) \/ IgnoreFrame(t, f) \/ AcceptFrame(t, f)
    BY <1>1 DEF process_frame
  <2> HIDE DEF f
  <2>3. early_checks' = early_checks \/ early_checks' = Append(early_checks, f.stream)
    BY <2>1, <2>2, FrameFacts
  <2>4. early_checks \in Seq(Streams) /\ f.stream \in Streams
    BY <2>1, FrameParts DEF TypeOK
  <2>5. ToSet(Append(early_checks, f.stream)) = ToSet(early_checks) \cup {f.stream}
    BY <2>4, MembersAppend
  <2>6. ToSet(early_checks) \subseteq ToSet(early_checks')
    BY <2>3, <2>5
  <2> QED
    BY <1>1, <1>v, <2>6 DEF process_frame, results, Asked, Checked
<1>2. ASSUME NEW t \in Threads, TakeResults(t)
      PROVE  (Asked(s) => Asked(s)') /\ (Checked(s) => Checked(s)')
  <2>1. checks[t] = <<>>
    BY <1>2, StepType DEF TakeResults, ThreadsInStep
  <2>2. checks'[t] = early_checks /\ \A x \in Threads \ {t} : checks'[x] = checks[x]
    BY <1>2 DEF TakeResults, TypeOK
  <2> QED
    BY <1>t, <1>v, <2>1, <2>2, MembersNone DEF Asked, Checked
<1>3. ASSUME NEW t \in Threads, NEW blocked \in BOOLEAN, EarlyVerdict(t, blocked)
      PROVE  (Asked(s) => Asked(s)') /\ (Checked(s) => Checked(s)')
  <2>1. CASE blocked
    BY <1>3, <1>a, <2>1 DEF EarlyVerdict, table
  <2>2. CASE ~blocked
    <3>1. checks[t] # <<>> /\ checks' = [checks EXCEPT ![t] = Tail(@)] /\ UNCHANGED early_checks
      BY <1>3, <2>2 DEF EarlyVerdict, table
    <3>2. verdict'[Head(checks[t])] # "none"
      BY <1>3, <3>1, MembersTail DEF EarlyVerdict, TypeOK
    <3> QED
      BY <1>b, <3>1, <3>2
  <2> QED
    BY <2>1, <2>2
<1>4. ASSUME NEW t \in Threads, h2_block_stream(t)
      PROVE  (Asked(s) => Asked(s)') /\ (Checked(s) => Checked(s)')
  <2>1. checks[t] # <<>> /\ verdict[Head(checks[t])] # "none"
    BY <1>4, StepType DEF h2_block_stream, Holding, ThreadsInStep
  <2> QED
    BY <1>4, <1>b, <2>1 DEF h2_block_stream
<1>5. CASE UNCHANGED <<checks, early_checks>>
  BY <1>5, <1>a
<1> QED
  BY <1>1, <1>2, <1>3, <1>4, <1>5 DEF Next, vars, table, results, Peers, Compose, Serve, BeginWrite,
     BeginRead, EndRead, Feed, Callback, ReportVerdict, h2_enqueue_rst_stream, EnqueueReport,
     Write, h2_take_rst_frames, orig_ssl_write, WriteRefused, WriteResets

----------------------------------------------------------------------------
(* Verdicts come before responses.                                         *)

\* Frame i of the present write ends a header block of s, or opens one.
Ends(i, s) == batch["writer"][i].stream = s /\ batch["writer"][i].fin
Opens(i, s) == batch["writer"][i].stream = s /\ batch["writer"][i].kind = "HEADERS"

\* What the bytes of a stream look like that nobody was asked about: its first header block has
\* not been fed to its end.
FirstBlockAhead(s) ==
    LET frames == 1 .. Len(batch["writer"])
    IN  /\ peer["writer"][s] \notin {"idle", "split", "splitEnd"} => \E j \in frames : Ends(j, s)
        /\ InBlock("writer", s) => s \in live \/ \E j \in frames : Opens(j, s)
        /\ \A i \in frames :
              /\ batch["writer"][i].stream = s /\ batch["writer"][i].kind = "RST_STREAM" =>
                    \E j \in 1 .. i - 1 : Ends(j, s)
              /\ batch["writer"][i].stream = s /\ batch["writer"][i].kind = "CONTINUATION" =>
                    s \in live \/ \E j \in 1 .. i - 1 : Opens(j, s)
              /\ i < next["writer"] => (Opens(i, s) => s \in live) /\ ~Ends(i, s)

\* The reader finds every request of the wire with its verdict, because the writer asks about a
\* request before its bytes go out, or leaves it to the reader.
VerdictsInTime ==
    evictions = 0 =>
        /\ \A s \in onWire : Asked(s)
        /\ \A s \in Streams :
              /\ streams[s].req_headers_done => Checked(s)
              /\ streams[s].resp_headers_done => verdict[s] # "none"
              /\ ~Checked(s) => FirstBlockAhead(s)

\* Evictions are counted.
LEMMA EvictionsCounted ==
    ASSUME TypeOK, [Next]_vars, evictions' = 0
    PROVE  evictions = 0
<1>1. ASSUME NEW t \in Threads, process_frame(t) PROVE evictions = 0
  <2> DEFINE f == batch[t][next[t]]
  <2>1. f \in Frame
    BY <1>1 DEF process_frame, TypeOK
  <2>2. ResetFrame(f) \/ IgnoreFrame(t, f) \/ AcceptFrame(t, f)
    BY <1>1 DEF process_frame
  <2> HIDE DEF f
  <2> QED
    BY <2>1, <2>2, FrameFacts
<1> QED
  BY <1>1 DEF Next, vars, table, Peers, Compose, Serve, BeginWrite, BeginRead, EndRead, Feed,
     TakeResults, Callback, EarlyVerdict, ReportVerdict, h2_enqueue_rst_stream, h2_block_stream,
     EnqueueReport, Write, h2_take_rst_frames, orig_ssl_write, WriteRefused, WriteResets

\* A composed frame of a stream nobody was asked about.
LEMMA ComposedAhead ==
    ASSUME TypeOK, NEW f \in Frame, Compose(f), next["writer"] = 1, NEW s \in Streams,
           FirstBlockAhead(s)
    PROVE  FirstBlockAhead(s)'
<1>t. "writer" \in Threads
  BY DEF Threads
<1>f. /\ f.kind \in {"HEADERS", "CONTINUATION", "PUSH_PROMISE", "DATA", "RST_STREAM"}
      /\ f.kind = "CONTINUATION" => f.fin
      /\ f.stream \in Streams
  BY FrameParts
<1>1. PICK n \in Nat : n = Len(batch["writer"])
  BY <1>t DEF TypeOK
<1>2. /\ Len(batch'["writer"]) = n + 1 /\ batch'["writer"][n + 1] = f
      /\ \A i \in 1 .. n : batch'["writer"][i] = batch["writer"][i]
  <2>1. batch'["writer"] = Append(batch["writer"], f) /\ batch["writer"] \in Seq(Frame)
    BY <1>t DEF Compose, TypeOK
  <2> QED
    BY <1>1, <2>1
<1>3. peer'["writer"][s] = IF s = f.stream THEN Sent("writer", f) ELSE peer["writer"][s]
  BY <1>t, <1>f DEF Compose, TypeOK
<1>4. Legal("writer", f) /\ next'["writer"] = 1 /\ live' = live
  BY DEF Compose, table
<1>5. /\ 1 .. Len(batch'["writer"]) = (1 .. n) \cup {n + 1}
      /\ \A i \in 1 .. n : 1 .. i - 1 \subseteq 1 .. n
  BY <1>2
<1>6. /\ \A j \in 1 .. n : (Ends(j, s) => Ends(j, s)') /\ (Opens(j, s) => Opens(j, s)')
      /\ s = f.stream /\ f.fin => Ends(n + 1, s)'
      /\ s = f.stream /\ f.kind = "HEADERS" => Opens(n + 1, s)'
  BY <1>2 DEF Ends, Opens
<1>7. /\ peer["writer"][s] \notin {"idle", "split", "splitEnd"} => \E j \in 1 .. n : Ends(j, s)
      /\ InBlock("writer", s) => s \in live \/ \E j \in 1 .. n : Opens(j, s)
      /\ \A i \in 1 .. n :
            /\ batch["writer"][i].stream = s /\ batch["writer"][i].kind = "RST_STREAM" =>
                  \E j \in 1 .. i - 1 : Ends(j, s)
            /\ batch["writer"][i].stream = s /\ batch["writer"][i].kind = "CONTINUATION" =>
                  s \in live \/ \E j \in 1 .. i - 1 : Opens(j, s)
  BY <1>1 DEF FirstBlockAhead
<1>8. peer'["writer"][s] \notin {"idle", "split", "splitEnd"} =>
         \E j \in 1 .. Len(batch'["writer"]) : Ends(j, s)'
  <2>1. CASE peer["writer"][s] \notin {"idle", "split", "splitEnd"}
    BY <1>5, <1>6, <1>7, <2>1
  <2>2. CASE s = f.stream /\ f.fin
    BY <1>5, <1>6, <2>2
  <2>3. CASE s = f.stream /\ ~f.fin /\ peer["writer"][s] \in {"idle", "split", "splitEnd"}
    <3>1. f.kind = "HEADERS" /\ peer["writer"][s] = "idle"
      BY <1>f, <1>4, <2>3 DEF Legal, InBlock
    <3> QED
      BY <1>3, <2>3, <3>1 DEF Sent
  <2> QED
    BY <1>3, <2>1, <2>2, <2>3
<1>9. InBlock("writer", s)' =>
         s \in live' \/ \E j \in 1 .. Len(batch'["writer"]) : Opens(j, s)'
  <2>1. CASE InBlock("writer", s)
    BY <1>4, <1>5, <1>6, <1>7, <2>1
  <2>2. CASE s = f.stream /\ f.kind = "HEADERS"
    BY <1>5, <1>6, <2>2
  <2>3. CASE s = f.stream /\ f.kind # "HEADERS"
    <3>1. Sent("writer", f) \in {"open", "closed", "trailed", "reset"}
      BY <1>f, <1>4, <1>t, <2>3, WriterPromisesNothing DEF Sent, TypeOK
    <3> QED
      BY <1>3, <2>3, <3>1 DEF InBlock
  <2> QED
    BY <1>3, <2>1, <2>2, <2>3 DEF InBlock
<1>10. ASSUME NEW i \in 1 .. Len(batch'["writer"]), batch'["writer"][i].stream = s
       PROVE  /\ batch'["writer"][i].kind = "RST_STREAM" => \E j \in 1 .. i - 1 : Ends(j, s)'
              /\ batch'["writer"][i].kind = "CONTINUATION" =>
                    s \in live' \/ \E j \in 1 .. i - 1 : Opens(j, s)'
  <2>1. CASE i \in 1 .. n
    <3>1. batch["writer"][i] = batch'["writer"][i] /\ 1 .. i - 1 \subseteq 1 .. n
      BY <1>2, <1>5, <2>1
    <3>2. /\ batch["writer"][i].kind = "RST_STREAM" => \E j \in 1 .. i - 1 : Ends(j, s)
          /\ batch["writer"][i].kind = "CONTINUATION" =>
                s \in live \/ \E j \in 1 .. i - 1 : Opens(j, s)
      BY <1>7, <1>10, <2>1, <3>1
    <3> QED
      BY <1>4, <1>6, <3>1, <3>2
  <2>2. CASE i = n + 1
    <3>1. batch'["writer"][i] = f /\ s = f.stream /\ 1 .. i - 1 = 1 .. n
      BY <1>2, <1>10, <2>2
    <3>2. f.kind = "RST_STREAM" => peer["writer"][s] \notin {"idle", "split", "splitEnd"}
      BY <1>4, <3>1 DEF Legal
    <3>3. f.kind = "CONTINUATION" => InBlock("writer", s)
      BY <1>4, <3>1 DEF Legal
    <3> QED
      BY <1>4, <1>6, <1>7, <3>1, <3>2, <3>3
  <2> QED
    BY <1>5, <1>10, <2>1, <2>2
<1>11. \A i \in 1 .. Len(batch'["writer"]) : ~(i < next'["writer"])
  BY <1>2, <1>4
<1> QED
  BY <1>8, <1>9, <1>10, <1>11 DEF FirstBlockAhead

\* One frame fed by either thread.
LEMMA FedInTime ==
    ASSUME TypeOK, Holding, OnlyHeard, ThreadsInStep, VerdictsInTime, NEW t \in Threads,
           process_frame(t), evictions' = 0
    PROVE  VerdictsInTime'
<1> DEFINE f == batch[t][next[t]]
<1>t. /\ "writer" \in Threads /\ "reader" \in Threads /\ "writer" # "reader"
      /\ t \in {"writer", "reader"}
  BY DEF Threads
<1>1. f \in Frame /\ next[t] \in 1 .. Len(batch[t])
  BY DEF process_frame, TypeOK
<1>2. ResetFrame(f) \/ IgnoreFrame(t, f) \/ AcceptFrame(t, f)
  BY DEF process_frame
<1>3. /\ pc[t] = "feed" /\ UNCHANGED <<verdict, onWire, peer, batch>>
      /\ next'[t] = next[t] + 1 /\ \A x \in Threads \ {t} : next'[x] = next[x]
      /\ next \in [Threads -> Nat \ {0}]
  BY DEF process_frame, peers, Step, TypeOK
<1>4. PICK q \in Streams : q = f.stream
  BY <1>1, FrameParts
<1>5. f.kind = "CONTINUATION" => f.fin
  BY <1>1, FrameParts
<1>6. t = "reader" => q \in onWire
  BY <1>1, <1>4 DEF OnlyHeard, AnswersOnly
<1>7. t = "writer" => f = batch["writer"][next["writer"]]
  OBVIOUS
<1>p. t = "writer" => f.kind # "PUSH_PROMISE"
  BY <1>1 DEF TypeOK
<1> HIDE DEF f
<1>8. evictions = 0
  BY <1>1, <1>2, FrameFacts
<1>9. \A s \in Streams : (Asked(s) => Asked(s)') /\ (Checked(s) => Checked(s)')
  <2>1. [Next]_vars
    BY DEF Next, Feed
  <2> QED
    BY <2>1, CheckedStays
\* What the reader feeds has its verdict.
<1>10. t = "reader" => verdict[q] # "none"
  <2>1. t = "reader" => checks["reader"] = <<>>
    BY <1>3 DEF ThreadsInStep
  <2>2. t = "reader" => Asked(q)
    BY <1>6, <1>8 DEF VerdictsInTime
  <2> QED
    BY <2>1, <2>2, MembersNone DEF Asked
<1>11. /\ \/ early_checks' = early_checks
          \/ early_checks' = Append(early_checks, q)
       /\ \A x \in Streams :
             /\ streams'[x].req_headers_done =>
                   \/ streams[x].req_headers_done
                   \/ x = q /\ early_checks' = Append(early_checks, q)
             /\ streams'[x].resp_headers_done =>
                   streams[x].resp_headers_done \/ (x = q /\ t = "reader")
             /\ x # q => (x \in live <=> x \in live')
       /\ f.kind # "RST_STREAM" =>
             /\ q \in live \/ f.kind = "HEADERS" =>
                   q \in live' \/ t = "reader" \/ streams[q].resp_headers_done
             /\ t = "writer" /\ f.fin =>
                   \/ early_checks' = Append(early_checks, q)
                   \/ q \in live /\ streams[q].is_blocked
                   \/ q \notin live /\ f.kind = "CONTINUATION"
  BY <1>1, <1>2, <1>4, <1>p, FrameFacts
<1>12. early_checks' = Append(early_checks, q) => Checked(q)'
  <2>1. early_checks \in Seq(Streams)
    BY DEF TypeOK
  <2>2. ToSet(Append(early_checks, q)) = ToSet(early_checks) \cup {q}
    BY <1>4, <2>1, MembersAppend
  <2> QED
    BY <2>2 DEF Checked
<1>13. ASSUME NEW s \in Streams, ~Checked(s)' PROVE FirstBlockAhead(s)'
  <2>1. ~Checked(s) /\ FirstBlockAhead(s)
    BY <1>8, <1>9, <1>13 DEF VerdictsInTime
  <2>2. verdict[s] = "none"
    BY <2>1 DEF Checked, Asked
  <2>3. CASE s # q
    <3>1. s \in live <=> s \in live'
      BY <1>11, <2>3
    <3>2. ASSUME NEW i \in 1 .. Len(batch["writer"]), i < next'["writer"],
                 batch["writer"][i].stream = s
          PROVE  i < next["writer"]
      <4>1. CASE t = "reader"
        BY <1>t, <1>3, <3>2, <4>1
      <4>2. CASE t = "writer"
        <5>1. i # next["writer"]
          BY <1>4, <1>7, <2>3, <3>2, <4>2
        <5>2. i < next["writer"] + 1 /\ next["writer"] \in Nat
          BY <1>t, <1>3, <3>2, <4>2
        <5> QED
          BY <5>1, <5>2
      <4> QED
        BY <1>t, <4>1, <4>2
    <3>3. ASSUME NEW i \in 1 .. Len(batch["writer"]), i < next'["writer"]
          PROVE  (Opens(i, s) => s \in live') /\ ~Ends(i, s)
      <4>1. batch["writer"][i].stream = s =>
               (Opens(i, s) => s \in live) /\ ~Ends(i, s)
        BY <2>1, <3>2, <3>3 DEF FirstBlockAhead
      <4> QED
        BY <3>1, <4>1 DEF Opens, Ends
    <3>4. /\ peer'["writer"][s] \notin {"idle", "split", "splitEnd"} =>
                \E j \in 1 .. Len(batch'["writer"]) : Ends(j, s)'
          /\ InBlock("writer", s)' =>
                s \in live' \/ \E j \in 1 .. Len(batch'["writer"]) : Opens(j, s)'
      BY <1>3, <2>1, <3>1 DEF FirstBlockAhead, InBlock, Ends, Opens
    <3>5. ASSUME NEW i \in 1 .. Len(batch'["writer"])
          PROVE  /\ batch'["writer"][i].stream = s /\ batch'["writer"][i].kind = "RST_STREAM" =>
                       \E j \in 1 .. i - 1 : Ends(j, s)'
                 /\ batch'["writer"][i].stream = s /\ batch'["writer"][i].kind = "CONTINUATION" =>
                       s \in live' \/ \E j \in 1 .. i - 1 : Opens(j, s)'
                 /\ i < next'["writer"] => (Opens(i, s)' => s \in live') /\ ~Ends(i, s)'
      BY <1>3, <2>1, <3>1, <3>3, <3>5 DEF FirstBlockAhead, Ends, Opens
    <3> QED
      BY <3>4, <3>5 DEF FirstBlockAhead
  <2>4. CASE s = q
    <3> DEFINE n == next["writer"]
    <3>1. t = "writer"
      BY <1>t, <1>10, <2>2, <2>4
    <3>2. f = batch["writer"][n] /\ n \in 1 .. Len(batch["writer"]) /\ next'["writer"] = n + 1
      BY <1>1, <1>3, <1>7, <3>1
    <3>3. early_checks' # Append(early_checks, q) /\ ~streams[q].is_blocked
          /\ ~streams[q].resp_headers_done
      BY <1>8, <1>12, <1>13, <2>2, <2>4 DEF ThreadsInStep, VerdictsInTime
    <3>4. \A j \in 1 .. Len(batch["writer"]) :
             j < n => ~Ends(j, s) /\ (Opens(j, s) => s \in live)
      BY <2>1 DEF FirstBlockAhead
    <3>5. \A j \in 1 .. n - 1 : j \in 1 .. Len(batch["writer"]) /\ j < n
      BY <3>2
    <3>6. f.kind # "RST_STREAM" /\ (f.kind = "CONTINUATION" => s \in live)
      BY <1>4, <2>1, <2>4, <3>2, <3>4, <3>5 DEF FirstBlockAhead
    <3>7. ~f.fin
      BY <1>11, <2>4, <3>1, <3>3, <3>6
    <3>8. s \in live \/ f.kind = "HEADERS" => s \in live'
      BY <1>11, <2>4, <3>1, <3>3, <3>6
    <3>9. ASSUME NEW i \in 1 .. Len(batch["writer"]), i < next'["writer"]
          PROVE  (Opens(i, s) => s \in live') /\ ~Ends(i, s)
      <4>1. i < n \/ i = n
        BY <3>2, <3>9
      <4> QED
        BY <3>2, <3>4, <3>7, <3>8, <4>1 DEF Opens, Ends
    <3> QED
      BY <1>3, <2>1, <3>8, <3>9 DEF FirstBlockAhead, InBlock, Ends, Opens
  <2> QED
    BY <2>3, <2>4
<1>14. \A s \in onWire' : Asked(s)'
  BY <1>3, <1>8, <1>9 DEF VerdictsInTime, TypeOK
<1>15. \A s \in Streams : /\ streams'[s].req_headers_done => Checked(s)'
                          /\ streams'[s].resp_headers_done => verdict'[s] # "none"
  BY <1>3, <1>8, <1>9, <1>10, <1>11, <1>12 DEF VerdictsInTime
<1> QED
  BY <1>13, <1>14, <1>15 DEF VerdictsInTime

\* Every step keeps the verdicts in time.
LEMMA VerdictsInTimeHold ==
    TypeOK /\ Holding /\ OnlyHeard /\ ThreadsInStep /\ VerdictsInTime /\ [Next]_vars
        => VerdictsInTime'
<1> SUFFICES ASSUME TypeOK, Holding, OnlyHeard, ThreadsInStep, VerdictsInTime, [Next]_vars,
                    evictions' = 0
             PROVE  VerdictsInTime'
  BY DEF VerdictsInTime
<1>t. "writer" \in Threads /\ "reader" \in Threads /\ "writer" # "reader"
  BY DEF Threads
<1>e. evictions = 0
  BY EvictionsCounted
<1>c. \A s \in Streams : (Asked(s) => Asked(s)') /\ (Checked(s) => Checked(s)')
  BY CheckedStays
<1>v. \A s \in Streams : verdict[s] # "none" => verdict'[s] # "none"
  BY FirstVerdict
\* Steps that leave the writer's bytes and what is known of the streams alone.
<1>a. ASSUME UNCHANGED <<batch["writer"], next["writer"], peer["writer"], live, onWire>>,
             \A s \in Streams :
                /\ streams'[s].req_headers_done => streams[s].req_headers_done
                /\ streams'[s].resp_headers_done => streams[s].resp_headers_done
      PROVE  VerdictsInTime'
  <2>1. \A s \in Streams : FirstBlockAhead(s) => FirstBlockAhead(s)'
    BY <1>a, SMTT(30) DEF FirstBlockAhead, InBlock, Ends, Opens
  <2>2. \A s \in onWire' : Asked(s)'
    BY <1>a, <1>e, <1>c DEF VerdictsInTime, TypeOK
  <2>3. \A s \in Streams :
           /\ streams'[s].req_headers_done => Checked(s)'
           /\ streams'[s].resp_headers_done => verdict'[s] # "none"
    BY <1>a, <1>e, <1>c, <1>v DEF VerdictsInTime
  <2>4. \A s \in Streams : ~Checked(s)' => FirstBlockAhead(s)'
    BY <1>e, <1>c, <2>1 DEF VerdictsInTime
  <2> QED
    BY <2>2, <2>3, <2>4 DEF VerdictsInTime
<1>0. CASE UNCHANGED vars
  BY <1>0, <1>a DEF vars, table, calls, peers
<1>1. ASSUME NEW f \in Frame, Compose(f) PROVE VerdictsInTime'
  <2>1. next["writer"] = 1
    BY <1>1 DEF Compose, ThreadsInStep
  <2>2. \A s \in Streams : FirstBlockAhead(s) => FirstBlockAhead(s)'
    BY <1>1, <2>1, ComposedAhead
  <2>3. UNCHANGED <<streams, onWire>>
    BY <1>1 DEF Compose, table
  <2> QED
    BY <1>e, <1>c, <1>v, <2>2, <2>3 DEF VerdictsInTime, TypeOK
<1>2. ASSUME NEW f \in Frame, Serve(f) PROVE VerdictsInTime'
  <2>1. peer'["writer"] = peer["writer"]
    BY <1>2, <1>t DEF Serve, TypeOK
  <2> QED
    BY <1>2, <1>a, <2>1 DEF Serve, table, calls
<1>3. CASE BeginWrite
  BY <1>3, <1>a DEF BeginWrite, table, calls, peers
<1>4. CASE BeginRead
  <2>1. batch'["writer"] = batch["writer"] /\ next'["writer"] = next["writer"]
    BY <1>4, <1>t DEF BeginRead, TypeOK
  <2> QED
    BY <1>4, <1>a, <2>1 DEF BeginRead, table
<1>5. CASE EndRead
  <2>1. batch'["writer"] = batch["writer"]
    BY <1>5, <1>t DEF EndRead, TypeOK
  <2> QED
    BY <1>5, <1>a, <2>1 DEF EndRead, table, peers
<1>6. ASSUME NEW t \in Threads, process_frame(t) PROVE VerdictsInTime'
  BY <1>6, FedInTime
<1>7. ASSUME NEW t \in Threads, TakeResults(t) PROVE VerdictsInTime'
  BY <1>7, <1>a DEF TakeResults, calls, peers
<1>8. ASSUME NEW t \in Threads, NEW blocked \in BOOLEAN, EarlyVerdict(t, blocked)
      PROVE  VerdictsInTime'
  BY <1>8, <1>a DEF EarlyVerdict, table, calls, peers
<1>9. ASSUME NEW t \in Threads, h2_enqueue_rst_stream(t) PROVE VerdictsInTime'
  BY <1>9, <1>a DEF h2_enqueue_rst_stream, table, calls, peers
<1>10. ASSUME NEW t \in Threads, h2_block_stream(t) PROVE VerdictsInTime'
  <2>1. \A s \in Streams : /\ streams'[s].req_headers_done = streams[s].req_headers_done
                           /\ streams'[s].resp_headers_done = streams[s].resp_headers_done
    BY <1>10 DEF h2_block_stream, TypeOK, Http2Stream
  <2> QED
    BY <1>10, <1>a, <2>1 DEF h2_block_stream, calls, peers
<1>11. ASSUME NEW t \in Threads, NEW blocked \in BOOLEAN, ReportVerdict(t, blocked)
       PROVE  VerdictsInTime'
  BY <1>11, <1>a DEF ReportVerdict, table, calls, peers
<1>12. ASSUME NEW t \in Threads, EnqueueReport(t) PROVE VerdictsInTime'
  BY <1>12, <1>a DEF EnqueueReport, table, calls, peers
<1>13. CASE h2_take_rst_frames
  BY <1>13, <1>a DEF h2_take_rst_frames, table, calls, peers
<1>14. CASE orig_ssl_write
  <2> DEFINE bytes == batch["writer"]
  <2>1. /\ batch'["writer"] = <<>> /\ UNCHANGED <<peer, live, streams>>
        /\ onWire' = onWire \cup {f.stream : f \in {g \in ToSet(bytes) : g.fin}}
    BY <1>14, <1>t DEF orig_ssl_write, table, TypeOK
  \* Every byte was fed, and every check that was found is in the reader's hands.
  <2>2. \A i \in 1 .. Len(bytes) : i < next["writer"]
    <3>1. pc["writer"] = "write"
      BY <1>14 DEF orig_ssl_write, Step
    <3>2. next["writer"] > Len(bytes)
      BY <1>t, <3>1 DEF ThreadsInStep
    <3>3. bytes \in Seq(Frame) /\ next["writer"] \in Nat
      BY <1>t DEF TypeOK
    <3>4. Len(bytes) \in Nat
      BY <3>3
    <3> QED
      BY <3>2, <3>3, <3>4
  <2>3. \A s \in Streams : Checked(s) => Asked(s)
    <3>1. early_checks = <<>> /\ checks["writer"] = <<>>
      BY <1>14, <1>t, StepType DEF orig_ssl_write, ThreadsInStep
    <3> QED
      BY <3>1, MembersNone DEF Checked
  <2>4. ASSUME NEW s \in Streams, ~Checked(s)
        PROVE  /\ \A i \in 1 .. Len(bytes) : ~Ends(i, s) /\ (Opens(i, s) => s \in live)
               /\ peer["writer"][s] \in {"idle", "split", "splitEnd"}
               /\ InBlock("writer", s) => s \in live
    BY <1>e, <2>2, <2>4 DEF VerdictsInTime, FirstBlockAhead
  <2>5. ASSUME NEW s \in Streams, ~Checked(s)' PROVE FirstBlockAhead(s)'
    <3>1. ~Checked(s)
      BY <1>c, <2>5
    <3> QED
      BY <2>1, <2>4, <3>1 DEF FirstBlockAhead, InBlock
  <2>6. ASSUME NEW s \in onWire' PROVE Asked(s)'
    <3>1. CASE s \in onWire
      BY <1>e, <1>c, <3>1 DEF VerdictsInTime, TypeOK
    <3>2. CASE s \notin onWire
      <4>1. PICK i \in 1 .. Len(bytes) : bytes[i].stream = s /\ bytes[i].fin
        BY <1>t, <2>1, <2>6, <3>2 DEF ToSet, TypeOK
      <4>2. s \in Streams
        BY <1>t, <4>1, FrameParts DEF TypeOK
      <4>3. Checked(s)
        BY <2>4, <4>1, <4>2 DEF Ends
      <4> QED
        BY <1>c, <2>3, <4>2, <4>3
    <3> QED
      BY <3>1, <3>2
  <2> QED
    BY <1>e, <1>c, <1>v, <2>1, <2>5, <2>6 DEF VerdictsInTime
<1>15. CASE WriteRefused
  <2>1. UNCHANGED <<batch, peer, live, streams, onWire>> /\ next'["writer"] = 1
    BY <1>15, <1>t DEF WriteRefused, table, peers, TypeOK
  <2>2. \A i \in 1 .. Len(batch["writer"]) : ~(i < next'["writer"])
    BY <1>t, <2>1 DEF TypeOK
  <2>3. \A s \in Streams : FirstBlockAhead(s) => FirstBlockAhead(s)'
    BY <2>1, <2>2 DEF FirstBlockAhead, InBlock, Ends, Opens
  <2> QED
    BY <1>e, <1>c, <1>v, <2>1, <2>3 DEF VerdictsInTime, TypeOK
<1>16. ASSUME NEW refused \in BOOLEAN, WriteResets(refused) PROVE VerdictsInTime'
  BY <1>16, <1>a DEF WriteResets, table, calls
<1> QED
  BY <1>0, <1>1, <1>2, <1>3, <1>4, <1>5, <1>6, <1>7, <1>8, <1>9, <1>10, <1>11, <1>12, <1>13,
     <1>14, <1>15, <1>16 DEF Next, Peers, Feed, Callback, Write

----------------------------------------------------------------------------
(* A denied request is not reported as an exchange.                        *)

\* A stream that no peer has reset and whose request headers are the only ones the application sent.
Clean(s) ==
    /\ peer["writer"][s] \notin {"splitTrailers", "trailed", "reset"}
    /\ peer["reader"][s] # "reset"

\* A RST_STREAM on its way shows in the state of the peer that sent it.
ResetsShow ==
    /\ \A t \in Threads : \A i \in 1 .. Len(batch[t]) :
          batch[t][i].kind = "RST_STREAM" => peer[t][batch[t][i].stream] = "reset"
    /\ \A i \in 1 .. Len(wireIn) :
          wireIn[i].kind = "RST_STREAM" => peer["reader"][wireIn[i].stream] = "reset"

\* The request headers of s are still to be composed, to be fed or to be asked about by the writer.
Ahead(s) ==
    \/ s \in ToSet(early_checks) \cup ToSet(checks["writer"])
    \/ peer["writer"][s] \in {"idle", "split", "splitEnd"}
    \/ \E i \in 1 .. Len(batch["writer"]) : Ends(i, s)

\* A thread is about to mark s as blocked; when it is the writer, the server has not seen s.
Marking(s) ==
    \E t \in Threads : /\ pc[t] \in {"enqueue", "mark"}
                       /\ Head(checks[t]) = s
                       /\ t = "writer" => s \notin onWire

\* A blocked stream stays in the table, unanswered, until it is marked, and the mark keeps its
\* frames away from it.
Denied(s) ==
    /\ snapshots[s] = 0 /\ s \in live /\ ~streams[s].resp_headers_done
    /\ streams[s].is_blocked \/ Marking(s)

\* The inductive invariant about denied streams.
DenialsHold ==
    evictions = 0 =>
        \A s \in Streams :
            /\ verdict[s] = "none" => snapshots[s] = 0
            /\ peer["writer"][s] \in {"idle", "split", "splitEnd"} =>
                  \A i \in 1 .. Len(batch["writer"]) : ~Ends(i, s)
            /\ Clean(s) =>
                  /\ Ahead(s) => s \notin onWire
                  /\ Checked(s) /\ verdict[s] = "none" => s \in live
                  /\ verdict[s] = "block" => Denied(s)

\* A peer that has reset a stream sends nothing more on it, and trailers are the last headers.
LEMMA PeerMoves ==
    ASSUME TypeOK, NEW t \in Threads, NEW f \in Frame, Legal(t, f)
    PROVE  /\ peer[t][f.stream] # "reset"
           /\ peer[t][f.stream] \in {"splitTrailers", "trailed"} =>
                 Sent(t, f) \in {"trailed", "reset"}
           /\ f.kind = "RST_STREAM" => Sent(t, f) = "reset"
           /\ t = "writer" /\ Sent(t, f) \in {"idle", "split", "splitEnd"} =>
                 peer[t][f.stream] = "idle" /\ ~f.fin
           /\ t = "writer" /\ f.fin /\ Sent(t, f) \notin {"trailed", "reset"} =>
                 peer[t][f.stream] \in {"idle", "split", "splitEnd"}
<1>1. /\ f.kind \in {"HEADERS", "CONTINUATION", "PUSH_PROMISE", "DATA", "RST_STREAM"}
      /\ f.kind = "CONTINUATION" => f.fin
      /\ f.kind \in {"DATA", "RST_STREAM"} => ~f.fin
  BY FrameParts
<1>2. CASE f.kind = "HEADERS"
  BY <1>1, <1>2 DEF Legal, Sent
<1>3. CASE f.kind = "CONTINUATION"
  <2>1. f.stream \in Streams /\ (t = "writer" => peer[t][f.stream] \notin {"promising", "promisingOpen"})
    BY FrameParts DEF TypeOK
  <2> QED
    BY <1>1, <1>3, <2>1 DEF Legal, Sent, InBlock
<1>4. CASE f.kind = "DATA"
  BY <1>1, <1>4 DEF Legal, Sent
<1>5. CASE f.kind = "RST_STREAM"
  BY <1>1, <1>5 DEF Legal, Sent
<1>6. CASE f.kind = "PUSH_PROMISE"
  BY <1>1, <1>6 DEF Legal, Sent, Threads
<1> QED
  BY <1>1, <1>2, <1>3, <1>4, <1>5, <1>6

\* A stream that is clean was clean before.
LEMMA CleanBefore ==
    ASSUME TypeOK, [Next]_vars, NEW s \in Streams, Clean(s)'
    PROVE  Clean(s)
<1>t. "writer" \in Threads /\ "reader" \in Threads /\ "writer" # "reader"
  BY DEF Threads
<1>1. ASSUME NEW f \in Frame, Compose(f) PROVE Clean(s)
  <2>1. peer'["reader"] = peer["reader"]
        /\ peer'["writer"][s] = IF s = f.stream THEN Sent("writer", f) ELSE peer["writer"][s]
    BY <1>1, <1>t, FrameParts DEF Compose, TypeOK
  <2>2. Legal("writer", f)
    BY <1>1 DEF Compose
  <2> QED
    BY <1>t, <2>1, <2>2, PeerMoves DEF Clean
<1>2. ASSUME NEW f \in Frame, Serve(f) PROVE Clean(s)
  <2>1. peer'["writer"] = peer["writer"]
        /\ peer'["reader"][s] = IF s = f.stream THEN Sent("reader", f) ELSE peer["reader"][s]
    BY <1>2, <1>t, FrameParts DEF Serve, TypeOK
  <2>2. Legal("reader", f)
    BY <1>2 DEF Serve
  <2> QED
    BY <1>t, <2>1, <2>2, PeerMoves DEF Clean
<1>3. CASE UNCHANGED peer
  BY <1>3 DEF Clean
<1> QED
  BY <1>1, <1>2, <1>3 DEF Next, vars, peers, Peers, BeginWrite, BeginRead, EndRead, Feed,
     process_frame, TakeResults, Callback, EarlyVerdict, ReportVerdict, h2_enqueue_rst_stream,
     h2_block_stream, EnqueueReport, Write, h2_take_rst_frames, orig_ssl_write, WriteRefused,
     WriteResets

\* Every step keeps it so: the peer that sends a RST_STREAM is done.
LEMMA ResetsShowHold == TypeOK /\ ResetsShow /\ [Next]_vars => ResetsShow'
<1> SUFFICES ASSUME TypeOK, ResetsShow, [Next]_vars PROVE ResetsShow'
  OBVIOUS
<1>t. /\ "writer" \in Threads /\ "reader" \in Threads /\ "writer" # "reader"
      /\ Threads = {"writer", "reader"}
  BY DEF Threads
\* A frame that a peer adds to its frames.
<1>a. ASSUME NEW t \in Threads, NEW f \in Frame, Legal(t, f), NEW q \in Seq(Frame),
             \A i \in 1 .. Len(q) : q[i].kind = "RST_STREAM" => peer[t][q[i].stream] = "reset",
             peer' = [peer EXCEPT ![t][f.stream] = Sent(t, f)]
      PROVE  /\ \A i \in 1 .. Len(Append(q, f)) :
                   Append(q, f)[i].kind = "RST_STREAM" =>
                       peer'[t][Append(q, f)[i].stream] = "reset"
             /\ \A i \in 1 .. Len(q) : q[i].kind = "RST_STREAM" =>
                   peer'[t][q[i].stream] = "reset"
             /\ \A x \in Threads \ {t} : peer'[x] = peer[x]
  <2>1. \A x \in Streams : peer'[t][x] = IF x = f.stream THEN Sent(t, f) ELSE peer[t][x]
    BY <1>a, FrameParts DEF TypeOK
  <2>2. \A i \in 1 .. Len(q) : q[i].stream \in Streams
    BY <1>a, FrameParts
  <2>3. \A i \in 1 .. Len(q) : q[i].kind = "RST_STREAM" => peer'[t][q[i].stream] = "reset"
    BY <1>a, <2>1, <2>2, PeerMoves
  <2>4. f.kind = "RST_STREAM" => peer'[t][f.stream] = "reset"
    BY <1>a, <2>1, PeerMoves, FrameParts
  <2>5. \A i \in 1 .. Len(Append(q, f)) :
           \/ i \in 1 .. Len(q) /\ Append(q, f)[i] = q[i]
           \/ Append(q, f)[i] = f
    BY <1>a
  <2>6. \A x \in Threads \ {t} : peer'[x] = peer[x]
    BY <1>a DEF TypeOK
  <2> QED
    BY <2>3, <2>4, <2>5, <2>6
<1>1. ASSUME NEW f \in Frame, Compose(f) PROVE ResetsShow'
  <2>0. PICK old \in Seq(Frame) : old = batch["writer"]
    BY <1>t DEF TypeOK
  <2>1. batch'["writer"] = Append(old, f) /\ batch'["reader"] = batch["reader"]
        /\ wireIn' = wireIn
        /\ peer' = [peer EXCEPT !["writer"][f.stream] = Sent("writer", f)]
        /\ Legal("writer", f)
    BY <1>1, <1>t, <2>0 DEF Compose, TypeOK
  <2>2. \A i \in 1 .. Len(old) : old[i].kind = "RST_STREAM" =>
           peer["writer"][old[i].stream] = "reset"
    BY <1>t, <2>0 DEF ResetsShow
  <2>3. /\ \A i \in 1 .. Len(Append(old, f)) :
              Append(old, f)[i].kind = "RST_STREAM" =>
                  peer'["writer"][Append(old, f)[i].stream] = "reset"
        /\ peer'["reader"] = peer["reader"]
    BY <1>a, <1>t, <2>1, <2>2
  <2>4. \A i \in 1 .. Len(batch'["writer"]) :
           batch'["writer"][i].kind = "RST_STREAM" =>
               peer'["writer"][batch'["writer"][i].stream] = "reset"
    BY <2>1, <2>3
  <2>5. /\ \A i \in 1 .. Len(batch'["reader"]) :
              batch'["reader"][i].kind = "RST_STREAM" =>
                  peer'["reader"][batch'["reader"][i].stream] = "reset"
        /\ \A i \in 1 .. Len(wireIn') :
              wireIn'[i].kind = "RST_STREAM" =>
                  peer'["reader"][wireIn'[i].stream] = "reset"
    <3>1. /\ \A i \in 1 .. Len(batch["reader"]) :
                batch["reader"][i].kind = "RST_STREAM" =>
                    peer["reader"][batch["reader"][i].stream] = "reset"
          /\ \A i \in 1 .. Len(wireIn) :
                wireIn[i].kind = "RST_STREAM" =>
                    peer["reader"][wireIn[i].stream] = "reset"
      BY <1>t DEF ResetsShow
    <3> QED
      BY <2>1, <2>3, <3>1
  <2> QED
    BY <1>t, <2>4, <2>5 DEF ResetsShow
<1>2. ASSUME NEW f \in Frame, Serve(f) PROVE ResetsShow'
  <2>0. PICK old \in Seq(Frame), wire \in Seq(Frame) : old = batch["reader"] /\ wire = wireIn
    BY <1>t DEF TypeOK
  <2>1. wireIn' = Append(wire, f) /\ batch' = batch
        /\ peer' = [peer EXCEPT !["reader"][f.stream] = Sent("reader", f)]
        /\ Legal("reader", f)
    BY <1>2, <1>t, <2>0 DEF Serve, calls, TypeOK
  <2>2. \A i \in 1 .. Len(old) : old[i].kind = "RST_STREAM" =>
           peer["reader"][old[i].stream] = "reset"
    BY <1>t, <2>0 DEF ResetsShow
  <2>3. \A i \in 1 .. Len(wire) : wire[i].kind = "RST_STREAM" =>
           peer["reader"][wire[i].stream] = "reset"
    BY <2>0 DEF ResetsShow
  <2>4. /\ \A i \in 1 .. Len(old) : old[i].kind = "RST_STREAM" =>
              peer'["reader"][old[i].stream] = "reset"
        /\ peer'["writer"] = peer["writer"]
    BY <1>a, <1>t, <2>1, <2>2
  <2>5. \A i \in 1 .. Len(Append(wire, f)) :
           Append(wire, f)[i].kind = "RST_STREAM" =>
               peer'["reader"][Append(wire, f)[i].stream] = "reset"
    BY <1>a, <1>t, <2>1, <2>3
  <2> QED
    BY <1>t, <2>0, <2>1, <2>4, <2>5 DEF ResetsShow
<1>3. CASE BeginRead
  BY <1>3, <1>t DEF BeginRead, ResetsShow, TypeOK
<1>4. CASE EndRead
  BY <1>4, <1>t DEF EndRead, peers, ResetsShow, TypeOK
<1>5. CASE orig_ssl_write
  BY <1>5, <1>t DEF orig_ssl_write, ResetsShow, TypeOK
<1>6. CASE UNCHANGED <<batch, wireIn, peer>>
  BY <1>6 DEF ResetsShow
<1> QED
  BY <1>1, <1>2, <1>3, <1>4, <1>5, <1>6 DEF Next, vars, calls, peers, Peers, BeginWrite, Feed,
     process_frame, TakeResults, Callback, EarlyVerdict, ReportVerdict, h2_enqueue_rst_stream,
     h2_block_stream, EnqueueReport, Write, h2_take_rst_frames, WriteRefused, WriteResets

\* One frame fed by either thread.
LEMMA FedDenials ==
    ASSUME TypeOK, Holding, OnlyHeard, ThreadsInStep, VerdictsInTime, ResetsShow, DenialsHold,
           NEW t \in Threads, process_frame(t), evictions' = 0
    PROVE  DenialsHold'
<1> DEFINE f == batch[t][next[t]]
<1>t. /\ "writer" \in Threads /\ "reader" \in Threads /\ "writer" # "reader"
      /\ t \in {"writer", "reader"}
  BY DEF Threads
<1>1. f \in Frame /\ next[t] \in 1 .. Len(batch[t])
  BY DEF process_frame, TypeOK
<1>2. ResetFrame(f) \/ IgnoreFrame(t, f) \/ AcceptFrame(t, f)
  BY DEF process_frame
<1>3. pc[t] = "feed" /\ UNCHANGED <<pc, checks, verdict, onWire, peer, batch>>
  BY DEF process_frame, peers, results, Step, TypeOK
<1>4. PICK q \in Streams : q = f.stream
  BY <1>1, FrameParts
<1>5. t = "reader" => q \in onWire
  BY <1>1, <1>4 DEF OnlyHeard, AnswersOnly
<1>6. f.kind = "RST_STREAM" => ~Clean(q)
  BY <1>t, <1>1, <1>4 DEF ResetsShow, Clean
<1>7. t = "writer" /\ f.fin => Ahead(q)
  BY <1>1, <1>4 DEF Ahead, Ends
<1> HIDE DEF f
<1>8. evictions = 0
  BY <1>1, <1>2, FrameFacts
<1>9. /\ \/ early_checks' = early_checks
         \/ t = "writer" /\ f.fin /\ early_checks' = Append(early_checks, q)
      /\ streams'[q].resp_headers_done => streams[q].resp_headers_done \/ t = "reader"
      /\ \A x \in Streams \ {q} : /\ x \in live <=> x \in live'
                                 /\ streams'[x] = streams[x]
                                 /\ snapshots'[x] = snapshots[x]
      /\ \/ snapshots'[q] = snapshots[q]
         \/ t = "reader" \/ streams[q].resp_headers_done
      /\ f.kind # "RST_STREAM" =>
            /\ q \in live /\ streams[q].is_blocked => UNCHANGED <<live, streams, snapshots>>
            /\ q \in live \/ early_checks' # early_checks =>
                  \/ q \in live' \/ t = "reader" \/ streams[q].resp_headers_done
  BY <1>1, <1>2, <1>4, FrameFacts
\* What the reader feeds has its verdict, and what has a response has it too.
<1>10. t = "reader" \/ streams[q].resp_headers_done => verdict[q] # "none"
  <2>1. t = "reader" => checks["reader"] = <<>>
    BY <1>3 DEF ThreadsInStep
  <2>2. t = "reader" => Asked(q)
    BY <1>5, <1>8 DEF VerdictsInTime
  <2> QED
    BY <1>8, <2>1, <2>2, MembersNone DEF Asked, VerdictsInTime
<1>11. ToSet(early_checks') \subseteq ToSet(early_checks) \cup {q}
       /\ (early_checks' # early_checks => t = "writer" /\ f.fin)
  <2>1. early_checks \in Seq(Streams)
    BY DEF TypeOK
  <2>2. ToSet(Append(early_checks, q)) = ToSet(early_checks) \cup {q}
    BY <2>1, MembersAppend
  <2> QED
    BY <1>9, <2>2
<1>12. ASSUME NEW s \in Streams, verdict'[s] = "none" PROVE snapshots'[s] = 0
  <2>1. snapshots[s] = 0
    BY <1>3, <1>8, <1>12 DEF DenialsHold
  <2> QED
    BY <1>3, <1>9, <1>10, <1>12, <2>1
<1>13. ASSUME NEW s \in Streams, Clean(s)', Ahead(s)' PROVE s \notin onWire'
  <2>1. Clean(s)
    BY <1>3, <1>13 DEF Clean
  <2>2. \/ Ahead(s)
        \/ s = q /\ t = "writer" /\ f.fin
    BY <1>3, <1>11, <1>13 DEF Ahead, Ends
  <2>3. Ahead(s)
    BY <1>7, <2>2
  <2> QED
    BY <1>3, <1>8, <2>1, <2>3 DEF DenialsHold
<1>14. ASSUME NEW s \in Streams, Clean(s)', Checked(s)', verdict'[s] = "none"
       PROVE  s \in live'
  <2>1. Clean(s) /\ verdict[s] = "none"
    BY <1>3, <1>14 DEF Clean
  <2>2. Checked(s) => s \in live
    BY <1>8, <2>1 DEF DenialsHold
  <2>3. Checked(s) \/ (s = q /\ early_checks' # early_checks)
    BY <1>3, <1>11, <1>14 DEF Checked, Asked
  <2> QED
    BY <1>6, <1>9, <1>10, <2>1, <2>2, <2>3
<1>15. ASSUME NEW s \in Streams, Clean(s)', verdict'[s] = "block" PROVE Denied(s)'
  <2>1. Clean(s) /\ verdict[s] = "block"
    BY <1>3, <1>15 DEF Clean
  <2>2. Denied(s)
    BY <1>8, <2>1 DEF DenialsHold
  <2>3. Marking(s) => Marking(s)'
    BY <1>3 DEF Marking
  <2>4. CASE s # q
    BY <1>9, <2>2, <2>3, <2>4 DEF Denied
  <2>5. CASE s = q /\ streams[q].is_blocked
    BY <1>6, <1>9, <2>1, <2>2, <2>5 DEF Denied
  <2>6. CASE s = q /\ ~streams[q].is_blocked
    <3>1. t = "writer"
      BY <1>t, <1>3, <1>5, <2>2, <2>6 DEF Denied, Marking, Threads
    <3> QED
      BY <1>t, <1>6, <1>9, <2>1, <2>2, <2>3, <2>6, <3>1 DEF Denied
  <2> QED
    BY <2>4, <2>5, <2>6
<1>16. \A s \in Streams : peer'["writer"][s] \in {"idle", "split", "splitEnd"} =>
          \A i \in 1 .. Len(batch'["writer"]) : ~Ends(i, s)'
  BY <1>3, <1>8 DEF DenialsHold, Ends
<1> QED
  BY <1>12, <1>13, <1>14, <1>15, <1>16 DEF DenialsHold

\* Every step keeps the denials.
LEMMA DenialsHoldOn ==
    /\ TypeOK /\ Holding /\ OnlyHeard /\ ThreadsInStep /\ VerdictsInTime /\ ResetsShow
    /\ DenialsHold /\ [Next]_vars
    => DenialsHold'
<1> SUFFICES ASSUME TypeOK, Holding, OnlyHeard, ThreadsInStep, VerdictsInTime, ResetsShow,
                    DenialsHold, [Next]_vars, evictions' = 0
             PROVE  DenialsHold'
  BY DEF DenialsHold
<1>t. /\ "writer" \in Threads /\ "reader" \in Threads /\ "writer" # "reader"
      /\ Threads = {"writer", "reader"}
  BY DEF Threads
<1>e. evictions = 0
  BY EvictionsCounted
<1>c. \A s \in Streams : Clean(s)' => Clean(s)
  BY CleanBefore
<1>v. \A s \in Streams : verdict'[s] = "none" => verdict[s] = "none"
  BY FirstVerdict
\* Steps without a frame: it is enough that no stream comes to be ahead or asked about, and that
\* the denied ones stay what they were.
<1>a. ASSUME UNCHANGED <<batch["writer"], live, snapshots, onWire>>,
             \A s \in Streams : /\ Clean(s)' /\ Ahead(s)' => Ahead(s)
                                /\ Checked(s)' /\ verdict'[s] = "none" => Checked(s)
                                /\ Clean(s)' /\ verdict'[s] = "block" => Denied(s)',
             peer'["writer"] = peer["writer"]
      PROVE  DenialsHold'
  BY <1>a, <1>e, <1>c, <1>v DEF DenialsHold, Ends
\* Steps that leave the verdicts, the checks and the table alone.
<1>b. ASSUME UNCHANGED <<batch["writer"], peer["writer"], early_checks, checks, verdict, live,
                         streams, snapshots, onWire>>,
             \A t \in Threads : pc[t] \in {"enqueue", "mark"} => pc'[t] \in {"enqueue", "mark"}
      PROVE  DenialsHold'
  <2>1. \A s \in Streams : /\ Ahead(s)' => Ahead(s)
                           /\ Checked(s)' => Checked(s)
    BY <1>b DEF Ahead, Checked, Asked, Ends
  <2>2. \A s \in Streams : Denied(s) => Denied(s)'
    BY <1>b DEF Denied, Marking
  <2>3. \A s \in Streams : Clean(s)' /\ verdict'[s] = "block" => Denied(s)'
    BY <1>b, <1>e, <1>c, <2>2 DEF DenialsHold
  <2> QED
    BY <1>a, <1>b, <2>1, <2>3
<1>0. CASE UNCHANGED vars
  BY <1>0, <1>b DEF vars, table, results, calls, peers
<1>1. ASSUME NEW f \in Frame, Compose(f) PROVE DenialsHold'
  <2> DEFINE old == batch["writer"]
             n == Len(batch["writer"])
  <2>1. /\ batch'["writer"] = Append(old, f) /\ old \in Seq(Frame) /\ n \in Nat
        /\ UNCHANGED <<pc, checks, early_checks, verdict, live, streams, snapshots, onWire>>
        /\ Legal("writer", f) /\ f.stream \in Streams
        /\ \A x \in Streams : peer'["writer"][x] = IF x = f.stream THEN Sent("writer", f)
                                                  ELSE peer["writer"][x]
    BY <1>1, <1>t, FrameParts DEF Compose, TypeOK, table, results
  <2>2. ASSUME NEW s \in Streams, NEW i \in 1 .. Len(Append(old, f)), Ends(i, s)'
        PROVE  (i \in 1 .. n /\ Ends(i, s)) \/ (s = f.stream /\ f.fin)
    <3>1. (i \in 1 .. n /\ Append(old, f)[i] = old[i]) \/ Append(old, f)[i] = f
      BY <2>1
    <3> QED
      BY <2>1, <2>2, <3>1 DEF Ends
  <2>3. \A s \in Streams : peer'["writer"][s] \in {"idle", "split", "splitEnd"} =>
           \A i \in 1 .. Len(batch'["writer"]) : ~Ends(i, s)'
    BY <1>e, <1>t, <2>1, <2>2, PeerMoves DEF DenialsHold
  <2>4. ASSUME NEW s \in Streams, Clean(s)', Ahead(s)' PROVE Ahead(s)
    <3>1. CASE s = f.stream
      <4>1. Sent("writer", f) \notin {"splitTrailers", "trailed", "reset"}
        BY <2>1, <2>4, <3>1 DEF Clean
      <4>2. Sent("writer", f) \in {"idle", "split", "splitEnd"} \/ f.fin =>
               peer["writer"][s] \in {"idle", "split", "splitEnd"}
        BY <1>t, <2>1, <3>1, <4>1, PeerMoves
      <4> QED
        BY <2>1, <2>2, <2>4, <3>1, <4>2 DEF Ahead
    <3>2. CASE s # f.stream
      BY <2>1, <2>2, <2>4, <3>2 DEF Ahead
    <3> QED
      BY <3>1, <3>2
  <2>5. \A s \in Streams : /\ Checked(s)' => Checked(s)
                           /\ Denied(s) => Denied(s)'
    BY <2>1 DEF Checked, Asked, Denied, Marking
  <2> QED
    BY <1>e, <1>c, <2>1, <2>3, <2>4, <2>5 DEF DenialsHold
<1>2. ASSUME NEW f \in Frame, Serve(f) PROVE DenialsHold'
  <2>1. peer'["writer"] = peer["writer"]
    BY <1>2, <1>t DEF Serve, TypeOK
  <2> QED
    BY <1>2, <1>b, <2>1 DEF Serve, table, results, calls
<1>3. CASE BeginWrite
  BY <1>3, <1>b, <1>t, StepType DEF BeginWrite, table, results, calls, peers
<1>4. CASE BeginRead
  <2>1. batch'["writer"] = batch["writer"]
    BY <1>4, <1>t DEF BeginRead, TypeOK
  <2> QED
    BY <1>4, <1>b, <1>t, <2>1, StepType DEF BeginRead, table, results
<1>5. CASE EndRead
  <2>1. batch'["writer"] = batch["writer"]
    BY <1>5, <1>t DEF EndRead, TypeOK
  <2> QED
    BY <1>5, <1>b, <1>t, <2>1, StepType DEF EndRead, table, results, peers
<1>6. ASSUME NEW t \in Threads, process_frame(t) PROVE DenialsHold'
  BY <1>6, FedDenials
<1>7. ASSUME NEW t \in Threads, TakeResults(t) PROVE DenialsHold'
  <2>1. pc[t] = "feed" /\ \A x \in Threads \ {t} : pc'[x] = pc[x]
    BY <1>7, StepType DEF TakeResults
  <2>2. /\ checks'[t] = early_checks /\ early_checks' = <<>>
        /\ \A x \in Threads \ {t} : checks'[x] = checks[x]
        /\ UNCHANGED <<batch, peer, verdict, live, streams, snapshots, onWire>>
    BY <1>7 DEF TakeResults, calls, peers, TypeOK
  <2>3. \A s \in Streams : /\ Ahead(s)' => Ahead(s)
                           /\ Checked(s)' => Checked(s)
    BY <1>t, <2>2, MembersNone DEF Ahead, Checked, Asked, Ends
  <2>4. \A s \in Streams : Denied(s) => Denied(s)'
    BY <2>1, <2>2 DEF Denied, Marking
  <2>5. \A s \in Streams : Clean(s)' /\ verdict'[s] = "block" => Denied(s)'
    BY <1>e, <1>c, <2>2, <2>4 DEF DenialsHold
  <2> QED
    BY <1>a, <2>2, <2>3, <2>5
<1>8. ASSUME NEW t \in Threads, NEW blocked \in BOOLEAN, EarlyVerdict(t, blocked)
      PROVE  DenialsHold'
  <2>1. pc[t] = "check" /\ \A x \in Threads \ {t} : pc'[x] = pc[x]
    BY <1>8, StepType DEF EarlyVerdict
  <2>2. /\ UNCHANGED <<batch, peer, early_checks, live, streams, snapshots, onWire>>
        /\ \A x \in Threads \ {t} : checks'[x] = checks[x]
    BY <1>8 DEF EarlyVerdict, table, calls, peers, TypeOK
  <2>3. checks[t] \in Seq(Streams) /\ checks[t] # <<>>
    BY <1>8 DEF EarlyVerdict, TypeOK
  <2> DEFINE h == Head(checks[t])
  <2>4. /\ h \in Streams /\ h \in ToSet(checks[t])
        /\ ToSet(Tail(checks[t])) \subseteq ToSet(checks[t])
    BY <2>3, MembersTail
  <2>5. checks'[t] \in {checks[t], Tail(checks[t])}
        /\ (blocked => checks'[t] = checks[t] /\ pc'[t] = "enqueue")
    BY <1>8, <2>3, StepType DEF EarlyVerdict, TypeOK
  <2>6. \A s \in Streams : verdict'[s] = verdict[s] \/ (s = h /\ verdict[s] = "none")
    BY <1>8, <2>4 DEF EarlyVerdict, TypeOK
  <2>7. verdict'[h] = "block" /\ verdict[h] = "none" => blocked
    BY <1>8, <2>4 DEF EarlyVerdict, TypeOK
  <2>8. \A x \in Threads : ToSet(checks'[x]) \subseteq ToSet(checks[x])
    BY <2>2, <2>4, <2>5
  <2>9. \A s \in Streams : /\ Ahead(s)' => Ahead(s)
                           /\ Checked(s)' /\ verdict'[s] = "none" => Checked(s)
    BY <1>t, <1>v, <2>2, <2>8 DEF Ahead, Checked, Asked, Ends
  <2>10. ASSUME NEW s \in Streams, Clean(s)', verdict'[s] = "block" PROVE Denied(s)'
    <3>1. Clean(s)
      BY <1>c, <2>10
    <3>2. CASE verdict[s] = "block"
      <4>1. Denied(s)
        BY <1>e, <3>1, <3>2 DEF DenialsHold
      <4> QED
        BY <2>1, <2>2, <4>1 DEF Denied, Marking
    <3>3. CASE verdict[s] # "block"
      <4>1. verdict[s] = "none" /\ blocked /\ s = Head(checks[t])
        BY <2>6, <2>7, <2>10, <3>3
      <4>2. Checked(s) /\ (t = "writer" => Ahead(s))
        BY <1>t, <2>4, <4>1 DEF Checked, Asked, Ahead, Threads
      <4>3. s \in live /\ (t = "writer" => s \notin onWire) /\ snapshots[s] = 0
        BY <1>e, <3>1, <4>1, <4>2 DEF DenialsHold
      <4>4. ~streams[s].resp_headers_done
        BY <1>e, <4>1 DEF VerdictsInTime
      <4>5. Marking(s)'
        BY <2>2, <2>5, <4>1, <4>3 DEF Marking
      <4> QED
        BY <2>2, <4>3, <4>4, <4>5 DEF Denied
    <3> QED
      BY <3>2, <3>3
  <2> QED
    BY <1>a, <2>2, <2>9, <2>10
<1>9. ASSUME NEW t \in Threads, h2_enqueue_rst_stream(t) PROVE DenialsHold'
  BY <1>9, <1>b, StepType DEF h2_enqueue_rst_stream, table, results, calls, peers
<1>10. ASSUME NEW t \in Threads, h2_block_stream(t) PROVE DenialsHold'
  <2>1. pc[t] = "mark" /\ \A x \in Threads \ {t} : pc'[x] = pc[x]
    BY <1>10, StepType DEF h2_block_stream
  <2>2. /\ UNCHANGED <<batch, peer, early_checks, verdict, live, snapshots, onWire>>
        /\ checks'[t] = Tail(checks[t]) /\ \A x \in Threads \ {t} : checks'[x] = checks[x]
    BY <1>10 DEF h2_block_stream, calls, peers, TypeOK
  <2>3. checks[t] \in Seq(Streams) /\ checks[t] # <<>>
    BY <2>1 DEF TypeOK, Holding
  <2>4. ToSet(Tail(checks[t])) \subseteq ToSet(checks[t])
    BY <2>3, MembersTail
  <2>5. \A s \in Streams : /\ streams'[s].resp_headers_done = streams[s].resp_headers_done
                           /\ streams[s].is_blocked => streams'[s].is_blocked
                           /\ s = Head(checks[t]) /\ s \in live => streams'[s].is_blocked
    BY <1>10 DEF h2_block_stream, TypeOK, Http2Stream
  <2>6. \A x \in Threads : ToSet(checks'[x]) \subseteq ToSet(checks[x])
    BY <2>2, <2>4
  <2>7. \A s \in Streams : /\ Ahead(s)' => Ahead(s)
                           /\ Checked(s)' => Checked(s)
    BY <1>t, <2>2, <2>6 DEF Ahead, Checked, Asked, Ends
  <2>8. \A s \in Streams : Denied(s) => Denied(s)'
    BY <2>1, <2>2, <2>5 DEF Denied, Marking
  <2>9. \A s \in Streams : Clean(s)' /\ verdict'[s] = "block" => Denied(s)'
    BY <1>e, <1>c, <2>2, <2>8 DEF DenialsHold
  <2> QED
    BY <1>a, <2>2, <2>7, <2>9
<1>11. ASSUME NEW t \in Threads, NEW blocked \in BOOLEAN, ReportVerdict(t, blocked)
       PROVE  DenialsHold'
  BY <1>11, <1>b, StepType DEF ReportVerdict, table, calls, peers
<1>12. ASSUME NEW t \in Threads, EnqueueReport(t) PROVE DenialsHold'
  BY <1>12, <1>b, StepType DEF EnqueueReport, table, calls, peers
<1>13. CASE h2_take_rst_frames
  BY <1>13, <1>b, <1>t, StepType DEF h2_take_rst_frames, table, results, calls, peers
<1>14. CASE orig_ssl_write
  <2> DEFINE bytes == batch["writer"]
  <2>1. /\ batch'["writer"] = <<>>
        /\ UNCHANGED <<peer, checks, early_checks, verdict, live, streams, snapshots>>
        /\ onWire' = onWire \cup {f.stream : f \in {g \in ToSet(bytes) : g.fin}}
    BY <1>14, <1>t DEF orig_ssl_write, table, results, TypeOK
  <2>2. early_checks = <<>> /\ checks["writer"] = <<>>
        /\ pc["writer"] = "write" /\ \A x \in Threads \ {"writer"} : pc'[x] = pc[x]
    BY <1>14, <1>t, StepType DEF orig_ssl_write, ThreadsInStep
  <2>3. ASSUME NEW s \in Streams, Clean(s)', Ahead(s)' PROVE s \notin onWire'
    <3>1. peer["writer"][s] \in {"idle", "split", "splitEnd"}
      <4>1. Len(batch'["writer"]) = 0
        BY <2>1
      <4> QED
        BY <2>1, <2>2, <2>3, <4>1, MembersNone DEF Ahead
    <3>2. s \notin onWire
      BY <1>e, <1>c, <2>3, <3>1 DEF DenialsHold, Ahead
    <3>3. \A i \in 1 .. Len(bytes) : ~(bytes[i].stream = s /\ bytes[i].fin)
      BY <1>e, <3>1 DEF DenialsHold, Ends
    <3>4. \A f \in ToSet(bytes) : f.fin => f.stream # s
      BY <1>t, <3>3 DEF ToSet, TypeOK
    <3> QED
      BY <2>1, <3>2, <3>4
  <2>4. \A s \in Streams : /\ Checked(s)' => Checked(s)
                           /\ Denied(s) => Denied(s)'
    BY <1>t, <2>1, <2>2 DEF Checked, Asked, Denied, Marking
  <2>5. \A i \in 1 .. Len(batch'["writer"]) : FALSE
    <3>1. Len(batch'["writer"]) = 0
      BY <2>1
    <3> QED
      BY <3>1
  <2> QED
    BY <1>e, <1>c, <2>1, <2>3, <2>4, <2>5 DEF DenialsHold
<1>15. CASE WriteRefused
  BY <1>15, <1>b, <1>t, StepType DEF WriteRefused, table, results, peers
<1>16. ASSUME NEW refused \in BOOLEAN, WriteResets(refused) PROVE DenialsHold'
  BY <1>16, <1>b, <1>t, StepType DEF WriteResets, table, results, calls
<1> QED
  BY <1>0, <1>1, <1>2, <1>3, <1>4, <1>5, <1>6, <1>7, <1>8, <1>9, <1>10, <1>11, <1>12, <1>13,
     <1>14, <1>15, <1>16 DEF Next, Peers, Feed, Callback, Write

----------------------------------------------------------------------------
(* Header blocks reach the inflaters whole.                                *)

\* The frames a thread will feed next: the rest of its bytes, and what is in flight to the reader.
Rest(t) == IF next[t] > Len(batch[t]) THEN 0 ELSE Len(batch[t]) - next[t] + 1
Left(t) == Rest(t) + (IF t = "reader" THEN Len(wireIn) ELSE 0)
Upcoming(t, i) == IF i <= Rest(t) THEN batch[t][next[t] - 1 + i] ELSE wireIn[i - Rest(t)]

\* A step that leaves the frames to come as they are, adds f to them, or feeds f.
SameFrames(t) == Left(t)' = Left(t) /\ \A i \in 1 .. Left(t) : Upcoming(t, i)' = Upcoming(t, i)

AddedFrame(t, f) ==
    /\ Left(t)' = Left(t) + 1
    /\ \A i \in 1 .. Left(t) + 1 :
          Upcoming(t, i)' = IF i = Left(t) + 1 THEN f ELSE Upcoming(t, i)

FedFrame(t, f) ==
    /\ Left(t) > 0 /\ Upcoming(t, 1) = f
    /\ Left(t)' = Left(t) - 1
    /\ \A i \in 1 .. Left(t) - 1 : Upcoming(t, i)' = Upcoming(t, i + 1)

\* The reader has fed all its bytes when it takes results, and holds none between its calls.
ReaderRests ==
    /\ pc["reader"] = "idle" => batch["reader"] = <<>>
    /\ pc["reader"] \notin {"idle", "feed"} => next["reader"] > Len(batch["reader"])

\* The frames to come are frames.
LEMMA UpcomingType ==
    ASSUME TypeOK, NEW t \in Threads
    PROVE  Rest(t) \in Nat /\ Left(t) \in Nat /\ \A i \in 1 .. Left(t) : Upcoming(t, i) \in Frame
<1>1. PICK b \in Seq(Frame), n \in Nat \ {0} : b = batch[t] /\ n = next[t]
  BY DEF TypeOK
<1>2. wireIn \in Seq(Frame)
  BY DEF TypeOK
<1>3. Rest(t) \in Nat /\ Left(t) \in Nat
  BY <1>1, <1>2 DEF Rest, Left
<1>4. ASSUME NEW i \in 1 .. Left(t) PROVE Upcoming(t, i) \in Frame
  <2>1. CASE i <= Rest(t)
    <3>1. n - 1 + i \in 1 .. Len(b)
      BY <1>1, <1>3, <1>4, <2>1 DEF Rest
    <3>2. Upcoming(t, i) = b[n - 1 + i]
      BY <1>1, <2>1 DEF Upcoming
    <3> QED
      BY <3>1, <3>2
  <2>2. CASE ~(i <= Rest(t))
    <3>1. t = "reader" /\ i - Rest(t) \in 1 .. Len(wireIn)
      BY <1>2, <1>3, <1>4, <2>2 DEF Left
    <3>2. Upcoming(t, i) = wireIn[i - Rest(t)]
      BY <2>2 DEF Upcoming
    <3> QED
      BY <1>2, <3>1, <3>2
  <2> QED
    BY <2>1, <2>2
<1> QED
  BY <1>3, <1>4

\* The frames of a thread whose bytes stay the same; the wire concerns only the reader.
LEMMA KeptFrames ==
    ASSUME TypeOK, NEW t \in Threads, batch'[t] = batch[t], next'[t] = next[t],
           t = "writer" \/ wireIn' = wireIn
    PROVE  SameFrames(t)
<1>1. PICK n \in Nat : n = Rest(t)
  BY UpcomingType
<1>2. Rest(t)' = n
  BY <1>1 DEF Rest
<1>3. CASE wireIn' = wireIn
  BY <1>1, <1>2, <1>3 DEF SameFrames, Left, Upcoming
<1>4. CASE t = "writer"
  <2>1. Left(t) = n /\ Left(t)' = n
    BY <1>1, <1>2, <1>4 DEF Left
  <2>2. \A i \in 1 .. n : i <= n
    OBVIOUS
  <2>3. \A i \in 1 .. n : Upcoming(t, i)' = Upcoming(t, i)
    BY <1>1, <1>2, <2>2 DEF Upcoming
  <2> QED
    BY <2>1, <2>3 DEF SameFrames
<1> QED
  BY <1>3, <1>4

\* A composed frame comes last among the writer's.
LEMMA ComposeAdds ==
    ASSUME TypeOK, ThreadsInStep, NEW f \in Frame, Compose(f)
    PROVE  AddedFrame("writer", f) /\ SameFrames("reader")
<1>t. "writer" \in Threads /\ "reader" \in Threads /\ "writer" # "reader"
  BY DEF Threads
<1>1. PICK b \in Seq(Frame) : b = batch["writer"]
  BY <1>t DEF TypeOK
<1>2. next["writer"] = 1 /\ next'["writer"] = 1 /\ batch'["writer"] = Append(b, f)
      /\ batch'["reader"] = batch["reader"] /\ next'["reader"] = next["reader"] /\ wireIn' = wireIn
  BY <1>1, <1>t DEF Compose, TypeOK, ThreadsInStep
<1>3. Left("writer") = Len(b) /\ Rest("writer") = Len(b)
  BY <1>1, <1>2, <1>t DEF Left, Rest
<1>4. Left("writer")' = Len(b) + 1 /\ Rest("writer")' = Len(b) + 1
  BY <1>1, <1>2, <1>t DEF Left, Rest
<1>5. ASSUME NEW i \in 1 .. Len(b) + 1
      PROVE  Upcoming("writer", i)' = IF i = Len(b) + 1 THEN f ELSE Upcoming("writer", i)
  <2>1. Upcoming("writer", i)' = Append(b, f)[i]
    BY <1>2, <1>4, <1>5 DEF Upcoming
  <2>2. i # Len(b) + 1 => Upcoming("writer", i) = b[i]
    BY <1>1, <1>2, <1>3, <1>5 DEF Upcoming
  <2> QED
    BY <2>1, <2>2
<1>6. AddedFrame("writer", f)
  BY <1>3, <1>4, <1>5 DEF AddedFrame
<1>7. SameFrames("reader")
  BY <1>2, <1>t, KeptFrames
<1> QED
  BY <1>6, <1>7

\* A frame of the server comes last among the reader's.
LEMMA ServeAdds ==
    ASSUME TypeOK, NEW f \in Frame, Serve(f)
    PROVE  AddedFrame("reader", f) /\ SameFrames("writer")
<1>t. "writer" \in Threads /\ "reader" \in Threads /\ "writer" # "reader"
  BY DEF Threads
<1>1. PICK w \in Seq(Frame) : w = wireIn
  BY DEF TypeOK
<1>2. batch' = batch /\ next' = next /\ wireIn' = Append(w, f)
  BY <1>1 DEF Serve, calls
<1>3. PICK n \in Nat : n = Rest("reader")
  BY <1>t, UpcomingType
<1>4. Rest("reader")' = n
  BY <1>2, <1>3 DEF Rest
<1>5. Left("reader") = n + Len(w) /\ Left("reader")' = n + Len(w) + 1
  BY <1>1, <1>2, <1>3, <1>4 DEF Left
<1>6. ASSUME NEW i \in 1 .. n + Len(w) + 1
      PROVE  Upcoming("reader", i)' = IF i = n + Len(w) + 1 THEN f ELSE Upcoming("reader", i)
  <2>1. CASE i <= n
    BY <1>2, <1>3, <1>4, <1>6, <2>1 DEF Upcoming
  <2>2. CASE ~(i <= n)
    <3>1. Upcoming("reader", i)' = Append(w, f)[i - n] /\ i - n \in 1 .. Len(w) + 1
      BY <1>2, <1>4, <1>6, <2>2 DEF Upcoming
    <3>2. Upcoming("reader", i) = w[i - n]
      BY <1>1, <1>3, <2>2 DEF Upcoming
    <3> QED
      BY <1>6, <3>1, <3>2
  <2> QED
    BY <2>1, <2>2
<1>7. AddedFrame("reader", f)
  BY <1>5, <1>6 DEF AddedFrame
<1>8. SameFrames("writer")
  BY <1>2, <1>t, KeptFrames
<1> QED
  BY <1>7, <1>8

\* A thread feeds its frames one after the other.
LEMMA FeedTakes ==
    ASSUME TypeOK, NEW t \in Threads, process_frame(t)
    PROVE  /\ FedFrame(t, batch[t][next[t]])
           /\ batch[t][next[t]] \in Frame
           /\ \A u \in Threads \ {t} : SameFrames(u)
<1>1. PICK b \in Seq(Frame), n \in Nat \ {0} : b = batch[t] /\ n = next[t]
  BY DEF TypeOK
<1>2. n <= Len(b) /\ batch' = batch /\ next'[t] = n + 1 /\ wireIn' = wireIn
      /\ \A u \in Threads \ {t} : next'[u] = next[u]
  BY <1>1 DEF process_frame, peers, TypeOK
<1>w. PICK k \in Nat : k = Len(wireIn)
  BY DEF TypeOK
<1>3. Rest(t) = Len(b) - n + 1 /\ Rest(t)' = Len(b) - n
  BY <1>1, <1>2 DEF Rest
<1>4. Left(t) > 0 /\ Left(t)' = Left(t) - 1
  <2>1. PICK l \in Nat : l = Len(b)
    BY <1>1
  <2>2. Rest(t) = l - n + 1 /\ Rest(t)' = l - n /\ n <= l
    BY <1>2, <1>3, <2>1
  <2>3. PICK r \in Nat : r = Rest(t) /\ r > 0 /\ Rest(t)' = r - 1
    <3>1. l - n + 1 \in Nat /\ l - n + 1 > 0 /\ l - n = (l - n + 1) - 1
      BY <2>2
    <3> QED
      BY <2>2, <3>1
  <2>4. CASE t = "reader"
    BY <1>w, <1>2, <2>3, <2>4 DEF Left
  <2>5. CASE t # "reader"
    BY <2>3, <2>5 DEF Left
  <2> QED
    BY <2>4, <2>5
<1>5. Upcoming(t, 1) = b[n]
  BY <1>1, <1>2, <1>3 DEF Upcoming
<1>6. ASSUME NEW i \in 1 .. Left(t) - 1 PROVE Upcoming(t, i)' = Upcoming(t, i + 1)
  <2>0. i \in Nat /\ i + 1 \in Nat
    BY <1>6
  <2>1. CASE i <= Len(b) - n
    <3>1. Upcoming(t, i)' = b[n + 1 - 1 + i]
      BY <1>1, <1>2, <1>3, <2>1 DEF Upcoming
    <3>2. Upcoming(t, i + 1) = b[n - 1 + (i + 1)]
      <4>1. Len(b) \in Int /\ i + 1 <= Len(b) - n + 1
        BY <1>1, <2>0, <2>1
      <4> QED
        BY <1>1, <1>3, <4>1 DEF Upcoming
    <3>3. n + 1 - 1 + i = n - 1 + (i + 1)
      <4>1. n \in Int /\ i \in Int
        BY <2>0, <1>1
      <4> QED
        BY <4>1
    <3> QED
      BY <3>1, <3>2, <3>3
  <2>2. CASE ~(i <= Len(b) - n)
    <3>1. Upcoming(t, i)' = wireIn[i - (Len(b) - n)]
      <4>1. Upcoming(t, i)' = wireIn'[i - Rest(t)']
        BY <1>3, <2>2 DEF Upcoming
      <4> QED
        BY <1>2, <1>3, <4>1
    <3>2. Upcoming(t, i + 1) = wireIn[(i + 1) - (Len(b) - n + 1)]
      <4>1. ~(i + 1 <= Len(b) - n + 1) /\ Rest(t) = Len(b) - n + 1
        <5>1. PICK l \in Int : l = Len(b)
          BY <1>1
        <5>2. ~(i <= l - n) /\ n \in Int
          BY <1>1, <2>2, <5>1
        <5>3. ~(i + 1 <= l - n + 1)
          BY <2>0, <5>2
        <5> QED
          BY <1>3, <5>1, <5>3
      <4> QED
        BY <4>1 DEF Upcoming
    <3>3. i - (Len(b) - n) = (i + 1) - (Len(b) - n + 1)
      <4>1. Len(b) \in Int /\ n \in Int /\ i \in Int
        BY <2>0, <1>1
      <4> QED
        BY <4>1
    <3> QED
      BY <3>1, <3>2, <3>3
  <2> QED
    BY <2>1, <2>2
<1>7. FedFrame(t, batch[t][next[t]])
  BY <1>1, <1>4, <1>5, <1>6 DEF FedFrame
<1>8. batch[t][next[t]] \in Frame
  BY <1>1, <1>2
<1>9. \A u \in Threads \ {t} : SameFrames(u)
  BY <1>2, KeptFrames
<1> QED
  BY <1>7, <1>8, <1>9

\* The steps of the calls move frames from the wire into them and drop what was fed.
LEMMA CallsMove ==
    ASSUME TypeOK, ThreadsInStep, ReaderRests, NEW t \in Threads,
           BeginRead \/ EndRead \/ orig_ssl_write \/ UNCHANGED <<batch, next, wireIn>>
    PROVE  SameFrames(t)
<1>t. "writer" \in Threads /\ "reader" \in Threads /\ "writer" # "reader"
      /\ t \in {"writer", "reader"}
  BY DEF Threads
<1>w. wireIn \in Seq(Frame) /\ batch \in [Threads -> Seq(Frame)] /\ next \in [Threads -> Nat \ {0}]
  BY DEF TypeOK
<1>1. CASE BeginRead
  <2>1. batch["reader"] = <<>> /\ batch'["reader"] = wireIn /\ next'["reader"] = 1
        /\ wireIn' = <<>> /\ batch'["writer"] = batch["writer"] /\ next'["writer"] = next["writer"]
    BY <1>1, <1>t DEF BeginRead, Step, ReaderRests, TypeOK
  <2>2. SameFrames("writer")
    BY <1>t, <2>1, KeptFrames
  <2>3. Rest("reader") = 0 /\ Left("reader") = Len(wireIn)
    BY <1>t, <1>w, <2>1 DEF Rest, Left
  <2>4. Rest("reader")' = Len(wireIn) /\ Left("reader")' = Len(wireIn)
    BY <1>t, <1>w, <2>1 DEF Rest, Left
  <2>5. ASSUME NEW i \in 1 .. Len(wireIn) PROVE Upcoming("reader", i)' = Upcoming("reader", i)
    <3>1. Upcoming("reader", i) = wireIn[i]
      BY <1>w, <2>3, <2>5 DEF Upcoming
    <3>2. Upcoming("reader", i)' = wireIn[i]
      BY <1>w, <2>1, <2>4, <2>5 DEF Upcoming
    <3> QED
      BY <3>1, <3>2
  <2> QED
    BY <1>t, <2>2, <2>3, <2>4, <2>5 DEF SameFrames
<1>2. CASE EndRead
  <2>1. next["reader"] > Len(batch["reader"]) /\ batch'["reader"] = <<>> /\ next' = next
        /\ wireIn' = wireIn /\ batch'["writer"] = batch["writer"]
    BY <1>2, <1>t DEF EndRead, Step, ReaderRests, peers, TypeOK
  <2>2. SameFrames("writer")
    BY <1>t, <2>1, KeptFrames
  <2>3. Rest("reader") = 0 /\ Rest("reader")' = 0
    BY <1>t, <1>w, <2>1 DEF Rest
  <2>4. SameFrames("reader")
    BY <2>1, <2>3, <1>w DEF SameFrames, Left, Upcoming
  <2> QED
    BY <1>t, <2>2, <2>4
<1>3. CASE orig_ssl_write
  <2>1. next["writer"] > Len(batch["writer"]) /\ batch'["writer"] = <<>> /\ next'["writer"] = 1
        /\ wireIn' = wireIn /\ batch'["reader"] = batch["reader"] /\ next'["reader"] = next["reader"]
    BY <1>3, <1>t DEF orig_ssl_write, Step, ThreadsInStep, TypeOK
  <2>2. SameFrames("reader")
    BY <1>t, <2>1, KeptFrames
  <2>3. Left("writer") = 0 /\ Left("writer")' = 0
    BY <1>t, <1>w, <2>1 DEF Rest, Left
  <2>4. SameFrames("writer")
    BY <2>3 DEF SameFrames
  <2> QED
    BY <1>t, <2>2, <2>4
<1>4. CASE UNCHANGED <<batch, next, wireIn>>
  BY <1>4, KeptFrames
<1> QED
  BY <1>1, <1>2, <1>3, <1>4

\* Its calls keep the reader so.
LEMMA ReaderRestsHolds == TypeOK /\ ReaderRests /\ [Next]_vars => ReaderRests'
<1> SUFFICES ASSUME TypeOK, ReaderRests, [Next]_vars PROVE ReaderRests'
  OBVIOUS
<1>t. "writer" \in Threads /\ "reader" \in Threads /\ "writer" # "reader"
      /\ Threads = {"writer", "reader"}
  BY DEF Threads
<1>a. ASSUME batch'["reader"] = batch["reader"], next'["reader"] = next["reader"],
             \/ pc'["reader"] = pc["reader"]
             \/ pc["reader"] \notin {"idle", "feed"} /\ pc'["reader"] \notin {"idle", "feed"}
             \/ pc'["reader"] = "feed"
      PROVE  ReaderRests'
  BY <1>a DEF ReaderRests
<1>0. CASE UNCHANGED vars
  BY <1>0, <1>a DEF vars, calls
<1>1. ASSUME NEW f \in Frame, Compose(f) \/ Serve(f) PROVE ReaderRests'
  <2>1. batch'["reader"] = batch["reader"] /\ UNCHANGED <<next, pc>>
    BY <1>1, <1>t DEF Compose, Serve, calls, TypeOK
  <2> QED
    BY <2>1, <1>a
<1>2. CASE BeginWrite
  BY <1>2, <1>t, <1>a, StepType DEF BeginWrite, calls
<1>3. CASE BeginRead
  BY <1>3, <1>t, StepType DEF BeginRead, ReaderRests
<1>4. CASE EndRead
  BY <1>4, <1>t, StepType DEF EndRead, ReaderRests, TypeOK
<1>5. ASSUME NEW t \in Threads, process_frame(t) PROVE ReaderRests'
  <2>1. Step(t, "feed", "feed") /\ batch' = batch
    BY <1>5 DEF process_frame
  <2>2. pc'[t] = "feed" /\ \A x \in Threads \ {t} : pc'[x] = pc[x]
    BY <2>1, StepType
  <2>3. \A x \in Threads \ {t} : next'[x] = next[x]
    BY <1>5 DEF process_frame, TypeOK
  <2> QED
    BY <2>1, <2>2, <2>3, <1>a, <1>t DEF ReaderRests
<1>6. ASSUME NEW t \in Threads, TakeResults(t) PROVE ReaderRests'
  <2>1. UNCHANGED <<batch, next>> /\ (t = "writer" => pc'["reader"] = pc["reader"])
        /\ (t = "reader" => pc'["reader"] = "check" /\ next["reader"] > Len(batch["reader"]))
    BY <1>6, <1>t, StepType DEF TakeResults, calls
  <2> QED
    BY <2>1, <1>a, <1>t DEF ReaderRests
<1>7. ASSUME NEW t \in Threads, NEW blocked \in BOOLEAN,
             EarlyVerdict(t, blocked) \/ ReportVerdict(t, blocked)
      PROVE  ReaderRests'
  <2>1. UNCHANGED <<batch, next>> /\ (t = "writer" => pc'["reader"] = pc["reader"])
        /\ (t = "reader" => pc["reader"] = "check"
                            /\ pc'["reader"] \in {"check", "enqueue", "enqueueReport"})
    BY <1>7, <1>t, StepType DEF EarlyVerdict, ReportVerdict, calls
  <2> QED
    BY <2>1, <1>a, <1>t
<1>8. ASSUME NEW t \in Threads, h2_enqueue_rst_stream(t) \/ h2_block_stream(t) \/ EnqueueReport(t)
      PROVE  ReaderRests'
  <2>1. UNCHANGED <<batch, next>> /\ (t = "writer" => pc'["reader"] = pc["reader"])
        /\ (t = "reader" => pc["reader"] \in {"enqueue", "mark", "enqueueReport"}
                            /\ pc'["reader"] \in {"check", "mark"})
    BY <1>8, <1>t, StepType DEF h2_enqueue_rst_stream, h2_block_stream, EnqueueReport, calls
  <2> QED
    BY <2>1, <1>a, <1>t
<1>9. CASE h2_take_rst_frames
  BY <1>9, <1>t, <1>a, StepType DEF h2_take_rst_frames, calls
<1>10. CASE orig_ssl_write
  BY <1>10, <1>t, <1>a, StepType DEF orig_ssl_write, TypeOK
<1>11. CASE WriteRefused
  BY <1>11, <1>t, <1>a, StepType DEF WriteRefused, TypeOK
<1>12. ASSUME NEW refused \in BOOLEAN, WriteResets(refused) PROVE ReaderRests'
  BY <1>12, <1>t, <1>a, StepType DEF WriteResets, calls
<1> QED
  BY <1>0, <1>1, <1>2, <1>3, <1>4, <1>5, <1>6, <1>7, <1>8, <1>9, <1>10, <1>11, <1>12
     DEF Next, Peers, Feed, Callback, Write

\* A stream is marked only when its reset is under way.
MarksFollow ==
    failures = 0 =>
        /\ \A t \in Threads : pc[t] = "mark" => Resetting(Head(checks[t]))
        /\ \A s \in Streams : streams[s].is_blocked => Resetting(s)

\* Every step keeps it so.
LEMMA MarksFollowHolds ==
    TypeOK /\ Holding /\ LocalResets /\ MarksFollow /\ [Next]_vars => MarksFollow'
<1> SUFFICES ASSUME TypeOK, Holding, LocalResets, MarksFollow, [Next]_vars, failures' = 0
             PROVE  /\ \A t \in Threads : pc'[t] = "mark" => Resetting(Head(checks[t]))'
                    /\ \A s \in Streams : streams'[s].is_blocked => Resetting(s)'
  BY DEF MarksFollow
<1>t. "writer" \in Threads /\ "reader" \in Threads /\ "writer" # "reader"
  BY DEF Threads
<1>f. failures = 0
  BY FailuresCounted
<1>h. \A t \in Threads : pc[t] = "mark" => Head(checks[t]) \in Streams
  BY DEF TypeOK, Holding
<1>a. ASSUME \A t \in Threads :
                pc'[t] = "mark" => /\ checks'[t] = checks[t]
                                   /\ pc[t] = "mark" \/ Head(checks[t]) \in pending_rst',
             \A s \in Streams : streams'[s].is_blocked =>
                \/ streams[s].is_blocked
                \/ \E t \in Threads : pc[t] = "mark" /\ s = Head(checks[t])
      PROVE  /\ \A t \in Threads : pc'[t] = "mark" => Resetting(Head(checks[t]))'
             /\ \A s \in Streams : streams'[s].is_blocked => Resetting(s)'
  <2>1. \A s \in Streams : Resetting(s) => Resetting(s)'
    BY ResettingStays
  <2>2. ASSUME NEW t \in Threads, pc'[t] = "mark" PROVE Resetting(Head(checks[t]))'
    <3>1. PICK h : h = Head(checks[t]) /\ h = Head(checks'[t])
      BY <1>a, <2>2
    <3>2. pc[t] = "mark" \/ h \in pending_rst'
      BY <1>a, <2>2, <3>1
    <3>3. Resetting(h)'
      <4>1. CASE h \in pending_rst'
        BY <4>1 DEF Resetting
      <4>2. CASE pc[t] = "mark"
        BY <1>f, <1>h, <2>1, <3>1, <4>2 DEF MarksFollow
      <4> QED
        BY <3>2, <4>1, <4>2
    <3> QED
      BY <3>1, <3>3 DEF Resetting
  <2> QED
    BY <1>a, <1>f, <1>h, <2>1, <2>2 DEF MarksFollow
<1>b. ASSUME \A t \in Threads : pc'[t] = "mark" => pc[t] = "mark" /\ checks'[t] = checks[t],
             \A s \in Streams : streams'[s].is_blocked => streams[s].is_blocked
      PROVE  /\ \A t \in Threads : pc'[t] = "mark" => Resetting(Head(checks[t]))'
             /\ \A s \in Streams : streams'[s].is_blocked => Resetting(s)'
  BY <1>a, <1>b
<1>0. CASE UNCHANGED vars
  BY <1>0, <1>b DEF vars, results, table
<1>1. ASSUME NEW f \in Frame, Compose(f) \/ Serve(f)
      PROVE  /\ \A t \in Threads : pc'[t] = "mark" => Resetting(Head(checks[t]))'
             /\ \A s \in Streams : streams'[s].is_blocked => Resetting(s)'
  BY <1>1, <1>b DEF Compose, Serve, results, table
<1>2. CASE BeginWrite \/ BeginRead \/ EndRead
  BY <1>2, <1>b, <1>t, StepType DEF BeginWrite, BeginRead, EndRead, results, table
<1>3. ASSUME NEW t \in Threads, process_frame(t)
      PROVE  /\ \A x \in Threads : pc'[x] = "mark" => Resetting(Head(checks[x]))'
             /\ \A s \in Streams : streams'[s].is_blocked => Resetting(s)'
  <2> DEFINE f == batch[t][next[t]]
  <2>1. f \in Frame
    BY <1>3 DEF process_frame, TypeOK
  <2>2. ResetFrame(f) \/ IgnoreFrame(t, f) \/ AcceptFrame(t, f)
    BY <1>3 DEF process_frame
  <2>3. UNCHANGED <<pc, checks>>
    BY <1>3 DEF process_frame, Step, TypeOK, results
  <2> HIDE DEF f
  <2>4. \A x \in Streams : streams'[x].is_blocked => streams[x].is_blocked
    BY <2>1, <2>2, FrameFacts
  <2> QED
    BY <1>b, <2>3, <2>4
<1>4. ASSUME NEW t \in Threads, TakeResults(t)
      PROVE  /\ \A x \in Threads : pc'[x] = "mark" => Resetting(Head(checks[x]))'
             /\ \A s \in Streams : streams'[s].is_blocked => Resetting(s)'
  <2>1. pc'[t] # "mark" /\ \A x \in Threads \ {t} : pc'[x] = pc[x] /\ checks'[x] = checks[x]
    BY <1>4, StepType DEF TakeResults, TypeOK
  <2> QED
    BY <1>4, <1>b, <2>1 DEF TakeResults
<1>5. ASSUME NEW t \in Threads, NEW blocked \in BOOLEAN, EarlyVerdict(t, blocked)
      PROVE  /\ \A x \in Threads : pc'[x] = "mark" => Resetting(Head(checks[x]))'
             /\ \A s \in Streams : streams'[s].is_blocked => Resetting(s)'
  <2>1. pc'[t] # "mark" /\ \A x \in Threads \ {t} : pc'[x] = pc[x] /\ checks'[x] = checks[x]
    BY <1>5, StepType DEF EarlyVerdict, TypeOK
  <2> QED
    BY <1>5, <1>b, <2>1 DEF EarlyVerdict, table
<1>6. ASSUME NEW t \in Threads, h2_enqueue_rst_stream(t)
      PROVE  /\ \A x \in Threads : pc'[x] = "mark" => Resetting(Head(checks[x]))'
             /\ \A s \in Streams : streams'[s].is_blocked => Resetting(s)'
  <2>1. \A x \in Threads \ {t} : pc'[x] = pc[x]
    BY <1>6, StepType DEF h2_enqueue_rst_stream
  <2> QED
    BY <1>6, <1>a, <2>1 DEF h2_enqueue_rst_stream, EnqueueReset, results, table
<1>7. ASSUME NEW t \in Threads, h2_block_stream(t)
      PROVE  /\ \A x \in Threads : pc'[x] = "mark" => Resetting(Head(checks[x]))'
             /\ \A s \in Streams : streams'[s].is_blocked => Resetting(s)'
  <2>1. /\ pc[t] = "mark" /\ pc'[t] # "mark"
        /\ \A x \in Threads \ {t} : pc'[x] = pc[x] /\ checks'[x] = checks[x]
    BY <1>7, StepType DEF h2_block_stream, TypeOK
  <2>2. \A s \in Streams : streams'[s].is_blocked => streams[s].is_blocked \/ s = Head(checks[t])
    BY <1>7 DEF h2_block_stream, TypeOK
  <2> QED
    BY <1>a, <2>1, <2>2
<1>8. ASSUME NEW t \in Threads, NEW blocked \in BOOLEAN,
             ReportVerdict(t, blocked) \/ EnqueueReport(t)
      PROVE  /\ \A x \in Threads : pc'[x] = "mark" => Resetting(Head(checks[x]))'
             /\ \A s \in Streams : streams'[s].is_blocked => Resetting(s)'
  BY <1>8, <1>b, StepType DEF ReportVerdict, EnqueueReport, table
<1>9. CASE h2_take_rst_frames \/ orig_ssl_write \/ WriteRefused
  BY <1>9, <1>b, <1>t, StepType DEF h2_take_rst_frames, orig_ssl_write, WriteRefused, results, table
<1>10. ASSUME NEW refused \in BOOLEAN, WriteResets(refused)
       PROVE  /\ \A t \in Threads : pc'[t] = "mark" => Resetting(Head(checks[t]))'
              /\ \A s \in Streams : streams'[s].is_blocked => Resetting(s)'
  BY <1>10, <1>b, <1>t, StepType DEF WriteResets, results, table
<1> QED
  BY <1>0, <1>1, <1>2, <1>3, <1>4, <1>5, <1>6, <1>7, <1>8, <1>9, <1>10
     DEF Next, Peers, Feed, Callback, Write

\* What one frame makes of its stream and of the inflater, unless a stream is evicted.
Bumped(n) == IF n < 3 THEN n + 1 ELSE n

\* The stream cur after an END_STREAM and after the first frame of a header block in direction t.
Ended(t, cur) == [cur EXCEPT !.req_end_stream = @ \/ t = "writer",
                             !.resp_end_stream = @ \/ t = "reader"]

Opened(t, cur) == [cur EXCEPT !.pending_header_block = @ \cup {<<t, "HEADERS">>}]

\* The stream st leaves the table with frame f.
Closes(t, f, st) == is_complete(st) /\ (t = "writer" \/ f.end)

\* The frame is skipped: its stream is blocked, or unknown and not opened by it.
FrameLeftOut(t, f) ==
    /\ f.kind # "RST_STREAM"
    /\ streams[f.stream].is_blocked \/ (f.stream \notin live /\ f.kind # "HEADERS")
    /\ UNCHANGED <<live, streams, snapshots>>
    /\ inStep'[t] = (inStep[t] /\ ~HoldsBlock(f))

\* The frame is processed, and what becomes of its stream.
Taken(f) ==
    /\ f.kind # "RST_STREAM"
    /\ ~streams[f.stream].is_blocked
    /\ f.stream \in live \/ f.kind = "HEADERS"

Becomes(s, st, stays) ==
    /\ s \in live' <=> stays
    /\ streams'[s] = IF stays THEN st ELSE NewStream

\* Every outcome of process_frame without an eviction.
FrameEffect(t, f) ==
    LET s == f.stream
        cur == streams[s]
    IN  \/ /\ f.kind = "RST_STREAM"
           /\ Becomes(s, cur, FALSE) /\ UNCHANGED <<snapshots, inStep>>
        \/ FrameLeftOut(t, f)
        \/ /\ f.kind = "DATA" /\ Taken(f)
           /\ Becomes(s, Ended(t, cur), ~is_complete(Ended(t, cur)))
           /\ snapshots'[s] = IF is_complete(Ended(t, cur)) THEN Bumped(snapshots[s])
                              ELSE snapshots[s]
           /\ UNCHANGED inStep
        \/ /\ f.kind = "PUSH_PROMISE" /\ Taken(f)
           /\ Becomes(s, cur, TRUE) /\ UNCHANGED snapshots
        \/ /\ f.kind = "HEADERS" /\ ~f.fin /\ Taken(f)
           /\ Becomes(s, Opened(t, cur), TRUE) /\ UNCHANGED <<snapshots, inStep>>
        \/ /\ HoldsHeaders(f) /\ f.fin /\ Taken(f)
           /\ Becomes(s, Decoded(t, f, cur), ~Closes(t, f, Decoded(t, f, cur)))
           /\ snapshots'[s] = IF Closes(t, f, Decoded(t, f, cur)) \/ (t = "reader" /\ f.end)
                              THEN Bumped(snapshots[s]) ELSE snapshots[s]
           /\ inStep'[t] = (inStep[t] /\ cur.pending_header_block \cup {<<t, f.kind>>}
                                             = {t} \X {"HEADERS", f.kind})

\* The handlers do that, and leave the other streams alone.
LEMMA FrameEffects ==
    ASSUME TypeOK, NEW t \in Threads, NEW f \in Frame, evictions' = 0,
           ResetFrame(f) \/ IgnoreFrame(t, f) \/ AcceptFrame(t, f)
    PROVE  /\ FrameEffect(t, f)
           /\ \A x \in Streams \ {f.stream} : /\ x \in live <=> x \in live'
                                             /\ streams'[x] = streams[x]
                                             /\ snapshots'[x] = snapshots[x]
           /\ \A u \in Threads \ {t} : inStep'[u] = inStep[u]
<1> USE FrameParts
<1>e. evictions \in Nat /\ inStep \in [Threads -> BOOLEAN] /\ snapshots \in [Streams -> 0 .. 3]
  BY DEF TypeOK
<1>d. /\ \A x \in Streams \ live : streams[x] = NewStream
      /\ ~NewStream.is_blocked
  BY DEF TypeOK, NewStream
<1>o. \A x \in Streams \ {f.stream} : /\ x \in live <=> x \in live'
                                      /\ streams'[x] = streams[x]
                                      /\ snapshots'[x] = snapshots[x]
  BY FrameFacts
<1>k. f.stream \in Streams /\ f.kind \in {"HEADERS", "CONTINUATION", "PUSH_PROMISE", "DATA", "RST_STREAM"}
  OBVIOUS
<1>1. CASE ResetFrame(f)
  <2>1. f.kind = "RST_STREAM" /\ Keep(f.stream, NewStream, FALSE, {})
        /\ UNCHANGED <<snapshots, inStep>>
    BY <1>1 DEF ResetFrame
  <2>2. Becomes(f.stream, streams[f.stream], FALSE)
    BY <1>k, <2>1 DEF Keep, Becomes
  <2>3. FrameEffect(t, f)
    BY <2>1, <2>2 DEF FrameEffect
  <2> QED
    BY <1>o, <2>1, <2>3
<1>2. CASE IgnoreFrame(t, f)
  <2>1. f.kind # "RST_STREAM"
        /\ (IF f.stream \in live THEN streams[f.stream].is_blocked ELSE f.kind # "HEADERS")
        /\ inStep' = [inStep EXCEPT ![t] = @ /\ ~HoldsBlock(f)]
        /\ UNCHANGED <<live, streams, snapshots>>
    BY <1>2 DEF IgnoreFrame
  <2>2. /\ inStep'[t] = (inStep[t] /\ ~HoldsBlock(f))
        /\ \A u \in Threads \ {t} : inStep'[u] = inStep[u]
    BY <1>e, <2>1
  <2>3. FrameLeftOut(t, f)
    BY <2>1, <2>2 DEF FrameLeftOut
  <2> QED
    BY <1>o, <2>2, <2>3 DEF FrameEffect
<1>3. CASE AcceptFrame(t, f)
  <2>1. PICK gone \in SUBSET live :
           /\ Evicted(gone)
           /\ \/ f.kind = "DATA" /\ DataFrame(t, f, gone)
              \/ f.kind = "PUSH_PROMISE" /\ PromiseFrame(t, f, gone)
              \/ HoldsHeaders(f) /\ ~f.fin /\ OpenBlock(t, f, gone)
              \/ HoldsHeaders(f) /\ f.fin /\ CloseBlock(t, f, gone)
    BY <1>3 DEF AcceptFrame
  <2>2. f.kind # "RST_STREAM"
        /\ (IF f.stream \in live THEN ~streams[f.stream].is_blocked ELSE f.kind = "HEADERS")
    BY <1>3 DEF AcceptFrame
  <2>3. gone = {}
    BY <1>e, <2>1 DEF Evicted
  <2>4. Current(f.stream, gone) = streams[f.stream]
    BY <1>d, <1>k, <2>3 DEF Current
  <2>5. Taken(f)
    BY <1>d, <1>k, <2>2 DEF Taken
  <2>6. ASSUME NEW st, NEW stays \in BOOLEAN, Keep(f.stream, st, stays, gone)
        PROVE  Becomes(f.stream, st, stays)
    BY <1>k, <2>3, <2>6 DEF Keep, Becomes
  <2>7. ASSUME snapshot_stream(f.stream) PROVE snapshots'[f.stream] = Bumped(snapshots[f.stream])
    BY <1>e, <1>k, <2>7 DEF snapshot_stream, Bumped
  <2>8. CASE f.kind = "DATA" /\ DataFrame(t, f, gone)
    <3> DEFINE st == Ended(t, streams[f.stream])
    <3>1. /\ Keep(f.stream, st, ~is_complete(st), gone)
          /\ IF is_complete(st) THEN snapshot_stream(f.stream) ELSE snapshots' = snapshots
          /\ inStep' = inStep
      BY <2>4, <2>8 DEF DataFrame, Ended
    <3>2. is_complete(st) \in BOOLEAN
      BY CurrentType, <1>k, <2>4 DEF is_complete, Ended, Http2Stream, TypeOK
    <3> HIDE DEF st
    <3>3. Becomes(f.stream, st, ~is_complete(st))
      BY <2>6, <3>1, <3>2
    <3>4. snapshots'[f.stream] = IF is_complete(st) THEN Bumped(snapshots[f.stream])
                                 ELSE snapshots[f.stream]
      BY <2>7, <3>1
    <3>5. FrameEffect(t, f)
      BY <2>5, <2>8, <3>1, <3>3, <3>4 DEF FrameEffect, st
    <3> QED
      BY <1>o, <3>1, <3>5
  <2>9. CASE HoldsHeaders(f) /\ ~f.fin /\ OpenBlock(t, f, gone)
    <3> DEFINE st == Opened(t, streams[f.stream])
    <3>0. f.kind = "HEADERS"
      BY <2>9 DEF HoldsHeaders
    <3>1. /\ Keep(f.stream, st, TRUE, gone)
          /\ UNCHANGED <<snapshots, inStep>>
      BY <2>4, <2>9, <3>0 DEF OpenBlock, Opened
    <3> HIDE DEF st
    <3>3. Becomes(f.stream, st, TRUE)
      BY <2>6, <3>1
    <3>5. FrameEffect(t, f)
      BY <2>5, <2>9, <3>0, <3>1, <3>3 DEF FrameEffect, st
    <3> QED
      BY <1>o, <3>1, <3>5
  <2>10. CASE HoldsHeaders(f) /\ f.fin /\ CloseBlock(t, f, gone)
    <3> DEFINE st == Decoded(t, f, streams[f.stream])
               closes == Closes(t, f, st)
    <3>1. /\ Keep(f.stream, st, ~closes, gone)
          /\ IF closes \/ (t = "reader" /\ f.end) THEN snapshot_stream(f.stream)
             ELSE snapshots' = snapshots
          /\ inStep' = [inStep EXCEPT ![t] = @ /\ streams[f.stream].pending_header_block
                                  \cup {<<t, f.kind>>} = {t} \X {"HEADERS", f.kind}]
      BY <2>4, <2>10 DEF CloseBlock, Closes
    <3>2. closes \in BOOLEAN
      BY DEF Closes
    <3> HIDE DEF st, closes
    <3>3. Becomes(f.stream, st, ~closes)
      BY <2>6, <3>1, <3>2
    <3>4. snapshots'[f.stream] = IF closes \/ (t = "reader" /\ f.end)
                                 THEN Bumped(snapshots[f.stream]) ELSE snapshots[f.stream]
      BY <2>7, <3>1
    <3>6. /\ inStep'[t] = (inStep[t] /\ streams[f.stream].pending_header_block
                                  \cup {<<t, f.kind>>} = {t} \X {"HEADERS", f.kind})
          /\ \A u \in Threads \ {t} : inStep'[u] = inStep[u]
      BY <1>e, <3>1
    <3>5. FrameEffect(t, f)
      BY <2>5, <2>10, <3>3, <3>4, <3>6 DEF FrameEffect, st, closes
    <3> QED
      BY <1>o, <3>5, <3>6
  <2>11. CASE f.kind = "PUSH_PROMISE" /\ PromiseFrame(t, f, gone)
    <3>1. /\ Keep(f.stream, streams[f.stream], TRUE, gone)
          /\ UNCHANGED snapshots
          /\ \A u \in Threads \ {t} : inStep'[u] = inStep[u]
      BY <1>e, <2>4, <2>11 DEF PromiseFrame
    <3>2. Becomes(f.stream, streams[f.stream], TRUE)
      BY <2>6, <3>1
    <3>3. FrameEffect(t, f)
      BY <2>5, <2>11, <3>1, <3>2 DEF FrameEffect
    <3> QED
      BY <1>o, <3>1, <3>3
  <2> QED
    BY <2>1, <2>8, <2>9, <2>10, <2>11
<1> QED
  BY <1>1, <1>2, <1>3

\* Streams whose header block has been opened by direction t and not closed.
Mid(t) == {s \in Streams : <<t, "HEADERS">> \in streams[s].pending_header_block}

\* The frame opens a header block and does not end it.
Starts(f) == f.kind = "HEADERS" /\ ~f.fin

\* The last frame of a direction, unless a reset follows.
LastFrame(f) == f.kind = "DATA" \/ (f.kind = "HEADERS" /\ f.fin /\ f.end)

\* The stream whose block is open after i of the frames to come.
OpenAfter(t, i) ==
    IF i = 0 THEN Mid(t) ELSE IF Starts(Upcoming(t, i)) THEN {Upcoming(t, i).stream} ELSE {}

\* No block is interrupted, the last is open as the peer left it, and all are of headers.
BlocksInOrder(t) ==
    /\ \A i \in 1 .. Left(t) : Upcoming(t, i).kind # "PUSH_PROMISE"
    /\ \A s \in Streams : peer[t][s] \notin {"promising", "promisingOpen"}
    /\ \A i \in 1 .. Left(t) :
          OpenAfter(t, i - 1) = IF Upcoming(t, i).kind = "CONTINUATION" THEN {Upcoming(t, i).stream}
                                ELSE {}
    /\ \A i \in 0 .. Left(t) : i = Left(t) => {s \in Streams : InBlock(t, s)} = OpenAfter(t, i)

\* No headers of s are to come in direction t.
NoHeaders(t, s) ==
    \A i \in 1 .. Left(t) : Upcoming(t, i).stream = s => ~HoldsHeaders(Upcoming(t, i))

\* Nothing was evicted, refused, denied, reset or promised, and the application sent no trailers.
Undisturbed ==
    /\ evictions = 0 /\ failures = 0 /\ promises = 0
    /\ \A s \in Streams : /\ ~Resetting(s)
                          /\ peer["writer"][s] \notin {"splitTrailers", "trailed", "reset"}

\* A request on the wire has been sent whole.
RequestsAhead ==
    /\ \A s \in onWire : /\ s \notin Mid("writer") /\ peer["writer"][s] \in {"open", "closed"}
                         /\ NoHeaders("writer", s)
    /\ \A i \in 1 .. Len(batch["writer"]) :
          batch["writer"][i].fin => peer["writer"][batch["writer"][i].stream] \in {"open", "closed"}

\* The states of a peer that has ended a stream.
Over == {"closed", "trailed", "reset"}

\* After its last frame a response has no more headers.
LastIsLast ==
    \A i \in 1 .. Left("reader") : LastFrame(Upcoming("reader", i)) =>
          /\ peer["reader"][Upcoming("reader", i).stream] \in Over
          /\ \A j \in 1 .. Left("reader") :
                i < j /\ Upcoming("reader", j).stream = Upcoming("reader", i).stream =>
                    ~HoldsHeaders(Upcoming("reader", j))

\* After the end of a response it has no more headers.
EndsLast ==
    /\ \A s \in Streams : streams[s].resp_end_stream =>
          peer["reader"][s] \in Over /\ NoHeaders("reader", s)
    /\ LastIsLast

\* What is kept of a block is its first frame, and responses follow requests.
BlocksKept ==
    /\ \A s \in Streams : streams[s].pending_header_block \subseteq Threads \X {"HEADERS"}
    /\ \A s \in Streams : streams[s].resp_headers_done \/ s \in Mid("reader") => s \in onWire
    /\ \A s \in Streams : streams[s].resp_end_stream => s \notin Mid("reader")

\* The header blocks of both directions have gone through their inflaters whole.
WholeSoFar ==
    /\ \A t \in Threads : BlocksInOrder(t) /\ inStep[t]
    /\ BlocksKept
    /\ RequestsAhead
    /\ EndsLast

\* The inductive invariant about the inflaters.
BlocksWhole == Undisturbed => WholeSoFar

\* What is undisturbed was so before.
LEMMA UndisturbedBefore ==
    ASSUME TypeOK, LocalResets, [Next]_vars, Undisturbed'
    PROVE  Undisturbed
<1>t. "writer" \in Threads /\ "reader" \in Threads /\ "writer" # "reader"
  BY DEF Threads
<1>1. evictions' = 0 /\ failures' = 0
  BY DEF Undisturbed
<1>2. evictions = 0 /\ failures = 0
  BY <1>1, EvictionsCounted, FailuresCounted
<1>5. promises = 0
  <2>1. promises' = 0 /\ promises \in Nat
    BY DEF Undisturbed, TypeOK
  <2>2. promises' = promises \/ promises' = promises + 1
    BY DEF Next, vars, peers, Peers, Compose, Serve, BeginWrite, BeginRead, EndRead, Feed,
       process_frame, TakeResults, Callback, EarlyVerdict, ReportVerdict, h2_enqueue_rst_stream,
       h2_block_stream, EnqueueReport, Write, h2_take_rst_frames, orig_ssl_write, WriteRefused,
       WriteResets
  <2> QED
    BY <2>1, <2>2
<1>3. \A s \in Streams : ~Resetting(s)
  BY <1>1, ResettingStays DEF Undisturbed
<1>4. ASSUME NEW s \in Streams, peer["writer"][s] \in {"splitTrailers", "trailed", "reset"}
      PROVE  peer'["writer"][s] \in {"splitTrailers", "trailed", "reset"}
  <2>1. ASSUME NEW f \in Frame, Compose(f)
        PROVE  peer'["writer"][s] \in {"splitTrailers", "trailed", "reset"}
    <3>1. peer'["writer"][s] = IF s = f.stream THEN Sent("writer", f) ELSE peer["writer"][s]
      BY <2>1, <1>t, FrameParts DEF Compose, TypeOK
    <3>2. Legal("writer", f)
      BY <2>1 DEF Compose
    <3> QED
      BY <1>4, <1>t, <3>1, <3>2, PeerMoves
  <2>2. ASSUME NEW f \in Frame, Serve(f) PROVE peer'["writer"] = peer["writer"]
    BY <2>2, <1>t DEF Serve, TypeOK
  <2>3. CASE UNCHANGED peer
    BY <1>4, <2>3
  <2> QED
    BY <1>4, <2>1, <2>2, <2>3 DEF Next, vars, peers, Peers, BeginWrite, BeginRead, EndRead, Feed,
       process_frame, TakeResults, Callback, EarlyVerdict, ReportVerdict, h2_enqueue_rst_stream,
       h2_block_stream, EnqueueReport, Write, h2_take_rst_frames, orig_ssl_write, WriteRefused,
       WriteResets
<1> QED
  BY <1>2, <1>3, <1>4, <1>5 DEF Undisturbed

\* A direction whose frames, open block and peer stay the same.
LEMMA BlocksStay ==
    ASSUME TypeOK, NEW t \in Threads, SameFrames(t), Mid(t)' = Mid(t), peer'[t] = peer[t],
           BlocksInOrder(t)
    PROVE  BlocksInOrder(t)'
<1>1. PICK n \in Nat : n = Left(t)
  BY UpcomingType
<1>2. Left(t)' = n /\ \A i \in 1 .. n : Upcoming(t, i)' = Upcoming(t, i)
  BY <1>1 DEF SameFrames
<1>3. \A i \in 0 .. n : OpenAfter(t, i)' = OpenAfter(t, i)
  BY <1>2 DEF OpenAfter
<1>4. \A i \in 1 .. n : i - 1 \in 0 .. n
  OBVIOUS
<1>5. {s \in Streams : InBlock(t, s)}' = {s \in Streams : InBlock(t, s)}
  BY DEF InBlock
<1>6. /\ \A i \in 1 .. n : (Upcoming(t, i).kind)' # "PUSH_PROMISE"
      /\ \A s \in Streams : peer'[t][s] \notin {"promising", "promisingOpen"}
  BY <1>1, <1>2 DEF BlocksInOrder
<1> QED
  BY <1>1, <1>2, <1>3, <1>4, <1>5, <1>6 DEF BlocksInOrder

\* A frame that the peer adds goes on with the open block, and only with that.
LEMMA BlocksGrow ==
    ASSUME TypeOK, NEW t \in Threads, NEW f \in Frame, AddedFrame(t, f), Mid(t)' = Mid(t),
           Legal(t, f), peer' = [peer EXCEPT ![t][f.stream] = Sent(t, f)],
           BlocksInOrder(t), f.kind # "PUSH_PROMISE"
    PROVE  BlocksInOrder(t)'
<1>f. /\ f.kind \in {"HEADERS", "CONTINUATION", "PUSH_PROMISE", "DATA", "RST_STREAM"}
      /\ f.kind = "CONTINUATION" => f.fin
      /\ f.kind \in {"DATA", "RST_STREAM"} => ~f.fin
      /\ f.fin \in BOOLEAN /\ f.end \in BOOLEAN /\ f.stream \in Streams
  BY FrameParts
<1>1. PICK n \in Nat : n = Left(t)
  BY UpcomingType
<1>2. /\ Left(t)' = n + 1 /\ Upcoming(t, n + 1)' = f
      /\ \A i \in 1 .. n : Upcoming(t, i)' = Upcoming(t, i)
  BY <1>1 DEF AddedFrame
<1>3. \A i \in 0 .. n : OpenAfter(t, i)' = OpenAfter(t, i)
  BY <1>2 DEF OpenAfter
<1>4. {s \in Streams : InBlock(t, s)} = OpenAfter(t, n)
  BY <1>1 DEF BlocksInOrder
<1>5. {s \in Streams : InBlock(t, s)} = IF f.kind = "CONTINUATION" THEN {f.stream} ELSE {}
  BY <1>f DEF Legal
<1>6. OpenAfter(t, n + 1)' = IF Starts(f) THEN {f.stream} ELSE {}
  BY <1>2 DEF OpenAfter
<1>7. \A s \in Streams : peer'[t][s] = IF s = f.stream THEN Sent(t, f) ELSE peer[t][s]
  BY <1>f DEF TypeOK
<1>0. /\ \A i \in 1 .. n : Upcoming(t, i).kind # "PUSH_PROMISE"
      /\ \A s \in Streams : peer[t][s] \notin {"promising", "promisingOpen"}
  BY <1>1 DEF BlocksInOrder
<1>8. /\ Sent(t, f) \in {"split", "splitEnd", "splitTrailers"} <=> Starts(f)
      /\ Sent(t, f) \notin {"promising", "promisingOpen"}
  BY <1>f DEF Sent, Starts
<1>12. \A s \in Streams : peer'[t][s] \notin {"promising", "promisingOpen"}
  BY <1>0, <1>7, <1>8
<1>13. \A i \in 1 .. n + 1 : (Upcoming(t, i).kind)' # "PUSH_PROMISE"
  <2>1. \A i \in 1 .. n + 1 : i \in 1 .. n \/ i = n + 1
    OBVIOUS
  <2> QED
    BY <1>0, <1>2, <2>1
<1>9. \A s \in Streams : InBlock(t, s)' <=> s = f.stream /\ Starts(f)
  BY <1>f, <1>7, <1>8 DEF Legal, InBlock
<1>10. {s \in Streams : InBlock(t, s)}' = OpenAfter(t, n + 1)'
  BY <1>f, <1>6, <1>9
<1>11. ASSUME NEW i \in 1 .. n + 1
       PROVE  OpenAfter(t, i - 1)' = (IF Upcoming(t, i).kind = "CONTINUATION"
                                      THEN {Upcoming(t, i).stream} ELSE {})'
  <2>1. CASE i \in 1 .. n
    <3>1. i - 1 \in 0 .. n
      BY <2>1
    <3>2. OpenAfter(t, i - 1) = IF Upcoming(t, i).kind = "CONTINUATION"
                                THEN {Upcoming(t, i).stream} ELSE {}
      BY <1>1, <2>1 DEF BlocksInOrder
    <3> QED
      BY <1>2, <1>3, <2>1, <3>1, <3>2
  <2>2. CASE i = n + 1
    <3>1. i - 1 = n /\ n \in 0 .. n
      BY <2>2
    <3>2. OpenAfter(t, n)' = IF f.kind = "CONTINUATION" THEN {f.stream} ELSE {}
      BY <1>3, <1>4, <1>5, <3>1
    <3> QED
      BY <1>2, <2>2, <3>1, <3>2
  <2> QED
    BY <2>1, <2>2
<1> QED
  BY <1>2, <1>10, <1>11, <1>12, <1>13 DEF BlocksInOrder

\* The next frame of a direction has been fed.
LEMMA BlocksShrink ==
    ASSUME TypeOK, NEW t \in Threads, NEW f \in Frame, FedFrame(t, f),
           Mid(t)' = (IF Starts(f) THEN {f.stream} ELSE {}), peer'[t] = peer[t],
           BlocksInOrder(t)
    PROVE  BlocksInOrder(t)'
<1>1. PICK n \in Nat : n + 1 = Left(t)
  <2>1. Left(t) \in Nat /\ Left(t) > 0
    BY UpcomingType DEF FedFrame
  <2>2. Left(t) - 1 \in Nat /\ (Left(t) - 1) + 1 = Left(t)
    BY <2>1
  <2> QED
    BY <2>2
<1>2. /\ Left(t)' = n /\ Upcoming(t, 1) = f
      /\ \A i \in 1 .. n : Upcoming(t, i)' = Upcoming(t, i + 1)
  BY <1>1 DEF FedFrame
<1>3. OpenAfter(t, 1) = IF Starts(f) THEN {f.stream} ELSE {}
  BY <1>2 DEF OpenAfter
<1>4. ASSUME NEW i \in 0 .. n PROVE OpenAfter(t, i)' = OpenAfter(t, i + 1)
  <2>1. CASE i = 0
    BY <1>3, <2>1 DEF OpenAfter
  <2>2. CASE i # 0
    <3>1. i \in 1 .. n /\ i + 1 # 0
      BY <2>2
    <3> QED
      BY <1>2, <2>2, <3>1 DEF OpenAfter
  <2> QED
    BY <2>1, <2>2
<1>5. {s \in Streams : InBlock(t, s)}' = {s \in Streams : InBlock(t, s)}
  BY DEF InBlock
<1>6. n + 1 \in 0 .. n + 1 /\ n \in 0 .. n
  OBVIOUS
<1>7. {s \in Streams : InBlock(t, s)} = OpenAfter(t, n + 1)
  BY <1>1, <1>6 DEF BlocksInOrder
<1>8. \A i \in 0 .. n : i = n => {s \in Streams : InBlock(t, s)}' = OpenAfter(t, i)'
  BY <1>4, <1>5, <1>6, <1>7
<1>9. ASSUME NEW i \in 1 .. n
      PROVE  OpenAfter(t, i - 1)' = (IF Upcoming(t, i).kind = "CONTINUATION"
                                     THEN {Upcoming(t, i).stream} ELSE {})'
  <2>1. i - 1 \in 0 .. n /\ (i - 1) + 1 = i /\ i + 1 \in 1 .. n + 1 /\ (i + 1) - 1 = i
    OBVIOUS
  <2>2. OpenAfter(t, i) = IF Upcoming(t, i + 1).kind = "CONTINUATION"
                          THEN {Upcoming(t, i + 1).stream} ELSE {}
    BY <1>1, <2>1 DEF BlocksInOrder
  <2>3. OpenAfter(t, i - 1)' = OpenAfter(t, i)
    BY <1>4, <2>1
  <2> QED
    BY <1>2, <2>2, <2>3
<1>10. \A i \in 1 .. n : (Upcoming(t, i).kind)' # "PUSH_PROMISE"
  <2>1. \A i \in 1 .. n : i + 1 \in 1 .. n + 1
    OBVIOUS
  <2> QED
    BY <1>1, <1>2, <2>1 DEF BlocksInOrder
<1>11. \A s \in Streams : peer'[t][s] \notin {"promising", "promisingOpen"}
  BY DEF BlocksInOrder
<1> QED
  BY <1>2, <1>8, <1>9, <1>10, <1>11 DEF BlocksInOrder

\* A frame of either thread leaves the other direction's blocks alone, and its own block goes to
\* the inflater whole.
LEMMA FedBlock ==
    ASSUME TypeOK, OnlyHeard, ResetsShow, MarksFollow, Undisturbed, BlocksWhole,
           NEW t \in Threads, NEW f \in Frame, process_frame(t), f = batch[t][next[t]],
           FedFrame(t, f), evictions' = 0
    PROVE  /\ Mid(t)' = IF Starts(f) THEN {f.stream} ELSE {}
           /\ \A u \in Threads \ {t} : Mid(u)' = Mid(u)
           /\ \A u \in Threads : inStep'[u]
           /\ \A x \in Streams : streams'[x].pending_header_block \subseteq Threads \X {"HEADERS"}
           /\ \A x \in Streams :
                 /\ streams'[x].resp_headers_done =>
                       streams[x].resp_headers_done \/ (x = f.stream /\ t = "reader")
                 /\ streams'[x].resp_end_stream =>
                       \/ streams[x].resp_end_stream
                       \/ x = f.stream /\ t = "reader" /\ LastFrame(f)
<1> DEFINE s == f.stream
           cur == streams[s]
           block == cur.pending_header_block
<1>t. /\ "writer" \in Threads /\ "reader" \in Threads /\ "writer" # "reader"
      /\ Threads = {"writer", "reader"}
  BY DEF Threads
<1>f. /\ f.kind \in {"HEADERS", "CONTINUATION", "PUSH_PROMISE", "DATA", "RST_STREAM"}
      /\ f.kind = "CONTINUATION" => f.fin /\ ~f.end
      /\ f.kind \in {"DATA", "RST_STREAM"} => ~f.fin
      /\ s \in Streams
  BY FrameParts DEF Frame
<1>1. /\ FrameEffect(t, f)
      /\ \A x \in Streams \ {s} : streams'[x] = streams[x]
      /\ \A u \in Threads \ {t} : inStep'[u] = inStep[u]
  <2>1. ResetFrame(f) \/ IgnoreFrame(t, f) \/ AcceptFrame(t, f)
    BY DEF process_frame
  <2> QED
    BY <2>1, FrameEffects
<1>2. /\ BlocksInOrder(t) /\ BlocksKept /\ RequestsAhead /\ EndsLast
      /\ \A u \in Threads : inStep[u]
  BY DEF BlocksWhole, WholeSoFar
<1>p. f.kind # "PUSH_PROMISE"
  <2>1. Left(t) \in Nat /\ Left(t) > 0 /\ Upcoming(t, 1) = f
    BY UpcomingType DEF FedFrame
  <2>2. 1 \in 1 .. Left(t)
    BY <2>1
  <2> QED
    BY <1>2, <2>1, <2>2 DEF BlocksInOrder
<1>3. ~cur.is_blocked
  BY <1>f DEF Undisturbed, MarksFollow
<1>4. \A u \in Threads : s \in Mid(u) <=> <<u, "HEADERS">> \in block
  BY <1>f DEF Mid
<1>5. Mid(t) = IF f.kind = "CONTINUATION" THEN {s} ELSE {}
  <2>1. Left(t) \in Nat /\ Left(t) > 0 /\ Upcoming(t, 1) = f
    BY UpcomingType DEF FedFrame
  <2>2. 1 \in 1 .. Left(t) /\ 1 - 1 = 0
    BY <2>1
  <2>3. OpenAfter(t, 0) = IF f.kind = "CONTINUATION" THEN {s} ELSE {}
    BY <1>2, <2>1, <2>2 DEF BlocksInOrder
  <2> QED
    BY <2>3 DEF OpenAfter
<1>6. t = "reader" => s \in onWire
  <2>1. next[t] \in 1 .. Len(batch[t])
    BY DEF process_frame, TypeOK
  <2> QED
    BY <2>1 DEF OnlyHeard, AnswersOnly
<1>7. f.kind = "RST_STREAM" => t = "reader"
  <2>1. next[t] \in 1 .. Len(batch[t])
    BY DEF process_frame, TypeOK
  <2>2. f.kind = "RST_STREAM" => peer[t][s] = "reset"
    BY <2>1 DEF ResetsShow
  <2> QED
    BY <1>f, <1>t, <2>2 DEF Undisturbed
<1>8. \A x \in onWire : x \notin Mid("writer")
  BY <1>2 DEF RequestsAhead
<1>9. t = "writer" /\ HoldsHeaders(f) => s \notin onWire
  <2>1. Left(t) \in Nat /\ Left(t) > 0 /\ Upcoming(t, 1) = f
    BY UpcomingType DEF FedFrame
  <2>2. 1 \in 1 .. Left(t)
    BY <2>1
  <2> QED
    BY <1>2, <2>1, <2>2 DEF RequestsAhead, NoHeaders
<1>10. \A x \in Streams : streams[x].resp_headers_done \/ x \in Mid("reader") => x \in onWire
  BY <1>2 DEF BlocksKept
<1>11. /\ block \subseteq Threads \X {"HEADERS"}
       /\ \A x \in Streams : streams[x].pending_header_block \subseteq Threads \X {"HEADERS"}
  BY <1>2, <1>f DEF BlocksKept
<1>12. cur.resp_end_stream => s \notin Mid("reader")
  BY <1>2, <1>f DEF BlocksKept
<1>13. cur \in Http2Stream
  BY <1>f DEF TypeOK
<1>n. NewStream.pending_header_block = {} /\ ~NewStream.resp_headers_done /\ ~NewStream.resp_end_stream
  BY DEF NewStream
<1>14. s \notin live => block = {}
  BY <1>f, <1>n DEF TypeOK
\* What is to be shown, of the stream of the frame alone.
<1> DEFINE new == streams'[s]
           newBlock == new.pending_header_block
           Whole == /\ <<t, "HEADERS">> \in newBlock <=> Starts(f)
                    /\ \A u \in Threads \ {t} :
                          <<u, "HEADERS">> \in newBlock <=> <<u, "HEADERS">> \in block
                    /\ newBlock \subseteq Threads \X {"HEADERS"}
                    /\ inStep'[t]
                    /\ new.resp_headers_done => cur.resp_headers_done \/ t = "reader"
                    /\ new.resp_end_stream =>
                          cur.resp_end_stream \/ (t = "reader" /\ LastFrame(f))
<1>a. ASSUME Whole
      PROVE  /\ Mid(t)' = IF Starts(f) THEN {s} ELSE {}
             /\ \A u \in Threads \ {t} : Mid(u)' = Mid(u)
             /\ \A u \in Threads : inStep'[u]
             /\ \A x \in Streams : streams'[x].pending_header_block \subseteq Threads \X {"HEADERS"}
             /\ \A x \in Streams :
                   /\ streams'[x].resp_headers_done =>
                         streams[x].resp_headers_done \/ (x = s /\ t = "reader")
                   /\ streams'[x].resp_end_stream =>
                         \/ streams[x].resp_end_stream
                         \/ x = s /\ t = "reader" /\ LastFrame(f)
  <2>1. \A u \in Threads : Mid(u)' = {x \in Streams : <<u, "HEADERS">> \in streams'[x].pending_header_block}
    BY DEF Mid
  <2>2. \A u \in Threads : Mid(u) = {x \in Streams : <<u, "HEADERS">> \in streams[x].pending_header_block}
    BY DEF Mid
  <2>3. Mid(t)' = IF Starts(f) THEN {s} ELSE {}
    <3>1. ASSUME NEW x \in Streams \ {s} PROVE x \notin Mid(t)'
      BY <1>1, <1>5, <1>t, <2>1, <2>2, <3>1
    <3>2. s \in Mid(t)' <=> Starts(f)
      BY <1>a, <1>f, <2>1
    <3>3. Mid(t)' \subseteq Streams
      BY <2>1
    <3> QED
      BY <3>1, <3>2, <3>3
  <2>4. \A u \in Threads \ {t} : Mid(u)' = Mid(u)
    <3>1. ASSUME NEW u \in Threads \ {t}, NEW x \in Streams
          PROVE  <<u, "HEADERS">> \in streams'[x].pending_header_block
                    <=> <<u, "HEADERS">> \in streams[x].pending_header_block
      BY <1>a, <1>1, <3>1
    <3> QED
      BY <2>1, <2>2, <3>1
  <2>5. \A u \in Threads : inStep'[u]
    BY <1>a, <1>1, <1>2
  <2>6. ASSUME NEW x \in Streams
        PROVE  /\ streams'[x].pending_header_block \subseteq Threads \X {"HEADERS"}
               /\ streams'[x].resp_headers_done =>
                     streams[x].resp_headers_done \/ (x = s /\ t = "reader")
               /\ streams'[x].resp_end_stream =>
                     \/ streams[x].resp_end_stream
                     \/ x = s /\ t = "reader" /\ LastFrame(f)
    <3>1. CASE x = s
      BY <1>a, <3>1
    <3>2. CASE x # s
      BY <1>1, <1>11, <3>2
    <3> QED
      BY <3>1, <3>2
  <2> QED
    BY <2>3, <2>4, <2>5, <2>6
<1>b. SUFFICES Whole
  BY <1>a
<1> HIDE DEF s, cur, block, new, newBlock
<1>15. CASE f.kind = "RST_STREAM"
  <2>1. new = NewStream /\ inStep' = inStep /\ t = "reader"
    BY <1>1, <1>7, <1>15 DEF FrameEffect, FrameLeftOut, Becomes, HoldsHeaders, new, s
  <2>2. newBlock = {} /\ ~Starts(f)
    BY <1>15, <1>n, <2>1 DEF newBlock, Starts
  <2>3. \A u \in Threads \ {t} : <<u, "HEADERS">> \notin block
    BY <1>t, <1>4, <1>6, <1>8, <2>1
  <2> QED
    BY <1>2, <1>n, <2>1, <2>2, <2>3 DEF s
<1>16. CASE FrameLeftOut(t, f)
  <2>1. f.kind = "DATA" /\ streams' = streams
    BY <1>3, <1>4, <1>5, <1>14, <1>16, <1>f, <1>p DEF FrameLeftOut, s, cur
  <2>2. inStep'[t]
    BY <1>2, <1>16, <2>1 DEF FrameLeftOut, HoldsBlock, HoldsHeaders
  <2>3. new = cur /\ newBlock = block /\ ~Starts(f) /\ <<t, "HEADERS">> \notin block
    BY <1>4, <1>5, <2>1 DEF new, cur, newBlock, block, Starts
  <2> QED
    BY <1>11, <2>2, <2>3
<1>17. CASE f.kind = "DATA" /\ Taken(f) /\ inStep' = inStep
            /\ Becomes(s, Ended(t, cur), ~is_complete(Ended(t, cur)))
  <2> DEFINE st == Ended(t, cur)
  <2>1. /\ st.pending_header_block = block
        /\ st.resp_headers_done = cur.resp_headers_done
        /\ st.resp_end_stream = (cur.resp_end_stream \/ t = "reader")
    BY <1>13 DEF Ended, Http2Stream, block
  <2>2. new = IF ~is_complete(st) THEN st ELSE NewStream
    BY <1>17 DEF Becomes, new
  <2>3. ~Starts(f) /\ LastFrame(f) /\ <<t, "HEADERS">> \notin block
    BY <1>4, <1>5, <1>17 DEF Starts, LastFrame
  <2>4. is_complete(st) => st.resp_headers_done /\ st.resp_end_stream
    BY DEF is_complete
  <2> HIDE DEF st
  <2>5. CASE ~is_complete(st)
    <3>1. newBlock = block
      BY <2>1, <2>2, <2>5 DEF newBlock
    <3> QED
      BY <1>2, <1>11, <1>17, <2>1, <2>2, <2>3, <2>5, <3>1
  <2>6. CASE is_complete(st)
    <3>1. newBlock = {} /\ new = NewStream
      BY <1>n, <2>2, <2>6 DEF newBlock
    <3>2. ASSUME NEW u \in Threads \ {t} PROVE <<u, "HEADERS">> \notin block
      <4>1. CASE u = "writer"
        BY <1>4, <1>8, <1>10, <1>f, <2>1, <2>4, <2>6, <4>1 DEF cur
      <4>2. CASE u = "reader"
        <5>1. cur.resp_end_stream
          BY <1>t, <2>1, <2>4, <2>6, <3>2, <4>2
        <5> QED
          BY <1>4, <1>12, <4>2, <5>1
      <4> QED
        BY <1>t, <3>2, <4>1, <4>2
    <3> QED
      BY <1>2, <1>n, <1>17, <2>3, <3>1, <3>2
  <2> QED
    BY <2>5, <2>6
<1>18. CASE f.kind = "HEADERS" /\ ~f.fin /\ Taken(f) /\ inStep' = inStep
            /\ Becomes(s, Opened(t, cur), TRUE)
  <2>1. new = Opened(t, cur) /\ Starts(f)
    BY <1>18 DEF Becomes, new, Starts
  <2>2. /\ newBlock = block \cup {<<t, "HEADERS">>}
        /\ new.resp_headers_done = cur.resp_headers_done
        /\ new.resp_end_stream = cur.resp_end_stream
    BY <1>13, <2>1 DEF Opened, Http2Stream, block, newBlock
  <2>3. newBlock \subseteq Threads \X {"HEADERS"} /\ <<t, "HEADERS">> \in newBlock
    BY <1>11, <2>2
  <2>4. \A u \in Threads \ {t} : <<u, "HEADERS">> \in newBlock <=> <<u, "HEADERS">> \in block
    BY <2>2
  <2> QED
    BY <1>2, <1>18, <2>1, <2>2, <2>3, <2>4
<1>19. CASE /\ HoldsHeaders(f) /\ f.fin /\ Taken(f)
            /\ Becomes(s, Decoded(t, f, cur), ~Closes(t, f, Decoded(t, f, cur)))
            /\ inStep'[t] = (inStep[t] /\ block \cup {<<t, f.kind>>} = {t} \X {"HEADERS", f.kind})
  <2> DEFINE st == Decoded(t, f, cur)
  <2>1. /\ st.pending_header_block = {}
        /\ st.resp_headers_done = (cur.resp_headers_done \/ t = "reader")
        /\ st.resp_end_stream => cur.resp_end_stream \/ (t = "reader" /\ f.end)
    BY <1>13, <1>t DEF Decoded, Http2Stream
  <2>2. new = st \/ new = NewStream
    BY <1>19 DEF Becomes, new
  <2> HIDE DEF st
  <2>3. /\ newBlock = {} /\ ~Starts(f)
        /\ new.resp_headers_done => cur.resp_headers_done \/ t = "reader"
        /\ new.resp_end_stream => cur.resp_end_stream \/ (t = "reader" /\ f.end)
    BY <1>n, <1>19, <2>1, <2>2 DEF newBlock, Starts
  <2>4. f.end => LastFrame(f)
    BY <1>f, <1>19 DEF LastFrame, HoldsHeaders
  <2>5. ASSUME NEW u \in Threads \ {t} PROVE <<u, "HEADERS">> \notin block
    <3>1. CASE u = "writer"
      BY <1>t, <1>4, <1>6, <1>8, <2>5, <3>1
    <3>2. CASE u = "reader"
      BY <1>t, <1>4, <1>9, <1>10, <1>19, <1>f, <2>5, <3>2
    <3> QED
      BY <1>t, <2>5, <3>1, <3>2
  <2>6. <<t, "HEADERS">> \in block <=> f.kind = "CONTINUATION"
    BY <1>4, <1>5
  <2>7. block = IF f.kind = "CONTINUATION" THEN {<<t, "HEADERS">>} ELSE {}
    BY <1>11, <2>5, <2>6
  <2>8. block \cup {<<t, f.kind>>} = {t} \X {"HEADERS", f.kind}
    <3>1. {t} \X {"HEADERS", f.kind} = {<<t, "HEADERS">>, <<t, f.kind>>}
      OBVIOUS
    <3> QED
      BY <1>19, <2>7, <3>1 DEF HoldsHeaders
  <2>9. inStep'[t]
    BY <1>2, <1>19, <2>8
  <2> QED
    BY <2>3, <2>4, <2>5, <2>9
<1> QED
  BY <1>1, <1>p, <1>15, <1>16, <1>17, <1>18, <1>19 DEF FrameEffect, s, cur, block

\* The frames to come stay where they are or move up by one.
LEMMA FrameMoves ==
    ASSUME TypeOK, NEW t \in Threads,
           SameFrames(t) \/ (\E f \in Frame : FedFrame(t, f))
    PROVE  \E d \in {0, 1}, n \in Nat :
              /\ Left(t)' = n /\ Left(t) = n + d
              /\ \A i \in 1 .. n : Upcoming(t, i)' = Upcoming(t, i + d)
<1>1. Left(t) \in Nat
  BY UpcomingType
<1>2. CASE SameFrames(t)
  <2>1. PICK n \in Nat : n = Left(t)
    BY <1>1
  <2>2. \A i \in 1 .. n : i + 0 = i
    OBVIOUS
  <2>3. \A i \in 1 .. n : Upcoming(t, i)' = Upcoming(t, i + 0)
    BY <1>2, <2>1, <2>2 DEF SameFrames
  <2>4. Left(t)' = n /\ Left(t) = n + 0
    BY <1>2, <2>1 DEF SameFrames
  <2> QED
    BY <2>3, <2>4
<1>3. ASSUME NEW f \in Frame, FedFrame(t, f)
      PROVE  \E d \in {0, 1}, n \in Nat :
                /\ Left(t)' = n /\ Left(t) = n + d
                /\ \A i \in 1 .. n : Upcoming(t, i)' = Upcoming(t, i + d)
  <2>1. PICK n \in Nat : n = Left(t) - 1 /\ n + 1 = Left(t)
    <3>1. Left(t) - 1 \in Nat /\ (Left(t) - 1) + 1 = Left(t)
      BY <1>1, <1>3 DEF FedFrame
    <3> QED
      BY <3>1
  <2>2. Left(t)' = n /\ \A i \in 1 .. n : Upcoming(t, i)' = Upcoming(t, i + 1)
    BY <1>3, <2>1 DEF FedFrame
  <2> QED
    BY <2>1, <2>2
<1> QED
  BY <1>2, <1>3

\* A stream without headers to come gets none while frames are fed.
LEMMA NoHeadersStay ==
    ASSUME TypeOK, NEW t \in Threads, NEW s \in Streams, NoHeaders(t, s),
           SameFrames(t) \/ (\E f \in Frame : FedFrame(t, f))
    PROVE  NoHeaders(t, s)'
<1>1. PICK d \in {0, 1}, n \in Nat :
         /\ Left(t)' = n /\ Left(t) = n + d
         /\ \A i \in 1 .. n : Upcoming(t, i)' = Upcoming(t, i + d)
  BY FrameMoves
<1>2. \A i \in 1 .. n : i + d \in 1 .. n + d
  OBVIOUS
<1> QED
  BY <1>1, <1>2 DEF NoHeaders, HoldsHeaders

\* Nor does it by a frame that holds none.
LEMMA NoHeadersAdded ==
    ASSUME TypeOK, NEW t \in Threads, NEW s \in Streams, NoHeaders(t, s), NEW f \in Frame,
           AddedFrame(t, f), f.stream = s => ~HoldsHeaders(f)
    PROVE  NoHeaders(t, s)'
<1>1. PICK n \in Nat : n = Left(t)
  BY UpcomingType
<1>2. /\ Left(t)' = n + 1 /\ Upcoming(t, n + 1)' = f
      /\ \A i \in 1 .. n : Upcoming(t, i)' = Upcoming(t, i)
  BY <1>1 DEF AddedFrame
<1>3. \A i \in 1 .. n + 1 : i \in 1 .. n \/ i = n + 1
  OBVIOUS
<1> QED
  BY <1>1, <1>2, <1>3 DEF NoHeaders, HoldsHeaders

\* Feeding keeps the last frames last.
LEMMA LastStaysLast ==
    ASSUME TypeOK, LastIsLast, peer'["reader"] = peer["reader"],
           SameFrames("reader") \/ (\E f \in Frame : FedFrame("reader", f))
    PROVE  LastIsLast'
<1>1. PICK d \in {0, 1}, n \in Nat :
         /\ Left("reader")' = n /\ Left("reader") = n + d
         /\ \A i \in 1 .. n : Upcoming("reader", i)' = Upcoming("reader", i + d)
  BY FrameMoves DEF Threads
<1>2. \A i, j \in 1 .. n : i + d \in 1 .. n + d /\ (i < j => i + d < j + d)
  OBVIOUS
<1> SUFFICES ASSUME NEW i \in 1 .. n, LastFrame(Upcoming("reader", i))'
             PROVE  /\ peer'["reader"][(Upcoming("reader", i).stream)'] \in Over
                    /\ \A j \in 1 .. n :
                          i < j /\ (Upcoming("reader", j).stream = Upcoming("reader", i).stream)'
                              => ~HoldsHeaders(Upcoming("reader", j))'
  BY <1>1 DEF LastIsLast
<1>3. LastFrame(Upcoming("reader", i + d))
  BY <1>1 DEF LastFrame
<1>4. ASSUME NEW j \in 1 .. n, i < j, (Upcoming("reader", j).stream = Upcoming("reader", i).stream)'
      PROVE  ~HoldsHeaders(Upcoming("reader", j))'
  <2>1. ~HoldsHeaders(Upcoming("reader", j + d))
    BY <1>1, <1>2, <1>3, <1>4 DEF LastIsLast
  <2> QED
    BY <1>1, <2>1 DEF HoldsHeaders
<1> QED
  BY <1>1, <1>2, <1>3, <1>4 DEF LastIsLast

\* The server sends only a reset after them.
LEMMA LastAdded ==
    ASSUME TypeOK, LastIsLast, NEW f \in Frame, AddedFrame("reader", f), Legal("reader", f),
           peer' = [peer EXCEPT !["reader"][f.stream] = Sent("reader", f)]
    PROVE  LastIsLast'
<1>t. "reader" \in Threads
  BY DEF Threads
<1>f. /\ f.kind \in {"HEADERS", "CONTINUATION", "PUSH_PROMISE", "DATA", "RST_STREAM"}
      /\ f.fin \in BOOLEAN /\ f.end \in BOOLEAN /\ f.stream \in Streams
  BY FrameParts
<1>1. PICK n \in Nat : n = Left("reader")
  BY <1>t, UpcomingType
<1>2. /\ Left("reader")' = n + 1 /\ Upcoming("reader", n + 1)' = f
      /\ \A i \in 1 .. n : Upcoming("reader", i)' = Upcoming("reader", i)
  BY <1>1 DEF AddedFrame
<1>3. \A i \in 1 .. n + 1 : i \in 1 .. n \/ i = n + 1
  OBVIOUS
<1>4. \A s \in Streams : peer'["reader"][s] = IF s = f.stream THEN Sent("reader", f) ELSE peer["reader"][s]
  BY <1>f, <1>t DEF TypeOK
<1>5. peer["reader"][f.stream] \in Over => f.kind = "RST_STREAM" /\ Sent("reader", f) = "reset"
  BY <1>f DEF Legal, Sent, InBlock, Over
<1>6. LastFrame(f) => Sent("reader", f) \in Over
  BY <1>f DEF LastFrame, Legal, Sent, Over
<1>7. \A i \in 1 .. n : Upcoming("reader", i).stream \in Streams
  BY <1>1, <1>t, UpcomingType, FrameParts
<1>8. ASSUME NEW i \in 1 .. n, LastFrame(Upcoming("reader", i))
      PROVE  /\ peer'["reader"][Upcoming("reader", i).stream] \in Over
             /\ f.stream = Upcoming("reader", i).stream => ~HoldsHeaders(f)
             /\ \A j \in 1 .. n : i < j /\ Upcoming("reader", j).stream = Upcoming("reader", i).stream
                    => ~HoldsHeaders(Upcoming("reader", j))
  <2>1. /\ peer["reader"][Upcoming("reader", i).stream] \in Over
        /\ \A j \in 1 .. n : i < j /\ Upcoming("reader", j).stream = Upcoming("reader", i).stream
               => ~HoldsHeaders(Upcoming("reader", j))
    BY <1>1, <1>8 DEF LastIsLast
  <2> QED
    BY <1>4, <1>5, <1>7, <2>1 DEF Over, HoldsHeaders
<1>9. ASSUME NEW i \in 1 .. n + 1, LastFrame(Upcoming("reader", i))'
      PROVE  /\ peer'["reader"][(Upcoming("reader", i).stream)'] \in Over
             /\ \A j \in 1 .. n + 1 :
                   i < j /\ (Upcoming("reader", j).stream = Upcoming("reader", i).stream)'
                       => ~HoldsHeaders(Upcoming("reader", j))'
  <2>1. CASE i \in 1 .. n
    <3>1. LastFrame(Upcoming("reader", i)) /\ Upcoming("reader", i)' = Upcoming("reader", i)
      BY <1>2, <1>9, <2>1 DEF LastFrame
    <3>2. ASSUME NEW j \in 1 .. n + 1, i < j,
                 (Upcoming("reader", j).stream = Upcoming("reader", i).stream)'
          PROVE  ~HoldsHeaders(Upcoming("reader", j))'
      BY <1>2, <1>3, <1>8, <2>1, <3>1, <3>2 DEF HoldsHeaders
    <3> QED
      BY <1>8, <2>1, <3>1, <3>2
  <2>2. CASE i = n + 1
    <3>1. Upcoming("reader", i)' = f /\ \A j \in 1 .. n + 1 : ~(i < j)
      BY <1>2, <2>2
    <3>2. LastFrame(f)
      BY <1>9, <3>1 DEF LastFrame
    <3> QED
      BY <1>4, <1>6, <1>f, <3>1, <3>2
  <2> QED
    BY <1>3, <2>1, <2>2
<1> QED
  BY <1>2, <1>9 DEF LastIsLast

\* A step of a thread that feeds nothing.
LEMMA QuietWhole ==
    ASSUME TypeOK, WholeSoFar, UNCHANGED <<peer, inStep>>,
           \A t \in Threads : SameFrames(t),
           \A s \in Streams :
              /\ streams'[s].pending_header_block = streams[s].pending_header_block
              /\ streams'[s].resp_headers_done = streams[s].resp_headers_done
              /\ streams'[s].resp_end_stream = streams[s].resp_end_stream,
           \/ UNCHANGED onWire /\ batch'["writer"] = batch["writer"]
           \/ orig_ssl_write /\ next["writer"] > Len(batch["writer"])
    PROVE  WholeSoFar'
<1>t. "writer" \in Threads /\ "reader" \in Threads /\ Threads = {"writer", "reader"}
  BY DEF Threads
<1>1. \A t \in Threads : Mid(t)' = Mid(t)
  BY DEF Mid
<1>2. \A t \in Threads : BlocksInOrder(t)' /\ inStep'[t]
  BY <1>1, BlocksStay DEF WholeSoFar
<1>3. onWire \subseteq onWire'
  BY DEF orig_ssl_write
<1>4. BlocksKept'
  BY <1>t, <1>1, <1>3 DEF WholeSoFar, BlocksKept
<1>5. EndsLast'
  <2>1. \A s \in Streams : NoHeaders("reader", s) => NoHeaders("reader", s)'
    BY <1>t, NoHeadersStay
  <2>2. LastIsLast'
    BY <1>t, LastStaysLast DEF WholeSoFar, EndsLast
  <2> QED
    BY <2>1, <2>2 DEF WholeSoFar, EndsLast
<1>6. RequestsAhead'
  <2>1. \A s \in Streams : NoHeaders("writer", s) => NoHeaders("writer", s)'
    BY <1>t, NoHeadersStay
  <2>2. CASE UNCHANGED onWire /\ batch'["writer"] = batch["writer"]
    BY <1>t, <1>1, <2>1, <2>2 DEF WholeSoFar, RequestsAhead, TypeOK
  <2>3. CASE orig_ssl_write /\ next["writer"] > Len(batch["writer"])
    <3>1. batch'["writer"] = <<>>
      BY <1>t, <2>3 DEF orig_ssl_write, TypeOK
    <3>2. Left("writer") = 0
      BY <1>t, <2>3 DEF Left, Rest
    <3>3. Mid("writer") = {s \in Streams : InBlock("writer", s)}
      BY <1>t, <3>2 DEF WholeSoFar, BlocksInOrder, OpenAfter
    <3>4. ASSUME NEW s \in onWire'
          PROVE  s \in Streams /\ peer["writer"][s] \in {"open", "closed"}
      <4>1. CASE s \in onWire
        BY <4>1 DEF WholeSoFar, RequestsAhead, TypeOK
      <4>2. CASE s \notin onWire
        <5>1. PICK g \in ToSet(batch["writer"]) : g.fin /\ s = g.stream
          BY <2>3, <3>4, <4>2 DEF orig_ssl_write
        <5>2. PICK i \in DOMAIN batch["writer"] : g = batch["writer"][i]
          BY <5>1 DEF ToSet
        <5>3. i \in 1 .. Len(batch["writer"]) /\ g \in Frame
          BY <1>t, <5>2 DEF TypeOK
        <5> QED
          BY <5>1, <5>2, <5>3, FrameParts DEF WholeSoFar, RequestsAhead
      <4> QED
        BY <4>1, <4>2
    <3>5. \A s \in Streams : NoHeaders("writer", s)'
      <4>1. Left("writer")' = 0
        BY <1>t, <3>2 DEF SameFrames
      <4> QED
        BY <4>1 DEF NoHeaders
    <3>6. \A s \in onWire' : s \notin Mid("writer")'
      BY <1>1, <1>t, <3>3, <3>4 DEF InBlock
    <3>7. \A i \in 1 .. Len(batch'["writer"]) : FALSE
      BY <3>1
    <3> QED
      BY <3>4, <3>5, <3>6, <3>7 DEF RequestsAhead
  <2> QED
    BY <2>2, <2>3
<1> QED
  BY <1>2, <1>4, <1>5, <1>6 DEF WholeSoFar

\* A frame composed by the application.
LEMMA ComposeWhole ==
    ASSUME TypeOK, ThreadsInStep, WholeSoFar, NEW f \in Frame, Compose(f),
           \A s \in Streams : peer'["writer"][s] \notin {"splitTrailers", "trailed", "reset"}
    PROVE  WholeSoFar'
<1>t. /\ "writer" \in Threads /\ "reader" \in Threads /\ Threads = {"writer", "reader"}
      /\ "writer" # "reader"
  BY DEF Threads
<1>f. /\ f.kind \in {"HEADERS", "CONTINUATION", "PUSH_PROMISE", "DATA", "RST_STREAM"}
      /\ f.kind \in {"DATA", "RST_STREAM"} => ~f.fin
      /\ f.fin \in BOOLEAN /\ f.end \in BOOLEAN /\ f.stream \in Streams
  BY FrameParts
<1>1. AddedFrame("writer", f) /\ SameFrames("reader")
  BY ComposeAdds
<1>2. /\ Legal("writer", f) /\ UNCHANGED <<streams, inStep, onWire>>
      /\ peer' = [peer EXCEPT !["writer"][f.stream] = Sent("writer", f)]
  BY DEF Compose, table
<1>3. /\ peer'["reader"] = peer["reader"]
      /\ \A s \in Streams :
            peer'["writer"][s] = IF s = f.stream THEN Sent("writer", f) ELSE peer["writer"][s]
  BY <1>2, <1>t, <1>f DEF TypeOK
<1>4. \A t \in Threads : Mid(t)' = Mid(t)
  BY <1>2 DEF Mid
<1>p. f.kind # "PUSH_PROMISE"
  BY <1>2, WriterPromisesNothing
<1>5. BlocksInOrder("writer")'
  BY <1>1, <1>2, <1>4, <1>p, <1>t, BlocksGrow DEF WholeSoFar
<1>6. BlocksInOrder("reader")'
  BY <1>1, <1>3, <1>4, <1>t, BlocksStay DEF WholeSoFar
<1>7. BlocksKept'
  BY <1>2, <1>4, <1>t DEF WholeSoFar, BlocksKept
<1>8. EndsLast'
  <2>1. \A s \in Streams : NoHeaders("reader", s) => NoHeaders("reader", s)'
    BY <1>1, <1>t, NoHeadersStay
  <2>2. LastIsLast'
    BY <1>1, <1>3, LastStaysLast DEF WholeSoFar, EndsLast
  <2> QED
    BY <1>2, <1>3, <2>1, <2>2 DEF WholeSoFar, EndsLast
<1>9. Sent("writer", f) \notin {"splitTrailers", "trailed", "reset"}
  BY <1>f, <1>3
<1>q. peer["writer"][f.stream] \notin {"promising", "promisingOpen"}
  BY <1>f DEF TypeOK
<1>10. f.fin => Sent("writer", f) \in {"open", "closed"}
  BY <1>f, <1>p, <1>q, <1>9 DEF Sent
<1>11. peer["writer"][f.stream] \in {"open", "closed"} =>
          ~HoldsHeaders(f) /\ Sent("writer", f) \in {"open", "closed"}
  BY <1>f, <1>p, <1>2, <1>9 DEF Legal, Sent, HoldsHeaders, InBlock
<1>12. \A s \in Streams : peer["writer"][s] \in {"open", "closed"} =>
           peer'["writer"][s] \in {"open", "closed"}
  BY <1>3, <1>11
<1>13. RequestsAhead'
  <2>1. ASSUME NEW s \in onWire
        PROVE  /\ s \notin Mid("writer")' /\ peer'["writer"][s] \in {"open", "closed"}
               /\ NoHeaders("writer", s)'
    <3>1. /\ s \in Streams /\ s \notin Mid("writer") /\ peer["writer"][s] \in {"open", "closed"}
          /\ NoHeaders("writer", s)
      BY DEF WholeSoFar, RequestsAhead, TypeOK
    <3>2. NoHeaders("writer", s)'
      BY <1>1, <1>11, <1>t, <3>1, NoHeadersAdded
    <3> QED
      BY <1>4, <1>12, <1>t, <3>1, <3>2
  <2>2. PICK b \in Seq(Frame) : b = batch["writer"] /\ batch'["writer"] = Append(b, f)
    BY <1>t DEF Compose, TypeOK
  <2>3. ASSUME NEW i \in 1 .. Len(batch'["writer"]), batch'["writer"][i].fin
        PROVE  peer'["writer"][batch'["writer"][i].stream] \in {"open", "closed"}
    <3>1. CASE i \in 1 .. Len(b)
      <4>1. batch'["writer"][i] = b[i] /\ b[i] \in Frame
        BY <2>2, <3>1
      <4>2. peer["writer"][b[i].stream] \in {"open", "closed"} /\ b[i].stream \in Streams
        BY <2>2, <2>3, <3>1, <4>1, FrameParts DEF WholeSoFar, RequestsAhead
      <4> QED
        BY <1>12, <4>1, <4>2
    <3>2. CASE i \notin 1 .. Len(b)
      <4>1. batch'["writer"][i] = f
        BY <2>2, <2>3, <3>2
      <4> QED
        BY <1>3, <1>10, <1>f, <2>3, <4>1
    <3> QED
      BY <3>1, <3>2
  <2> QED
    BY <1>2, <2>1, <2>3 DEF RequestsAhead
<1> QED
  BY <1>2, <1>5, <1>6, <1>7, <1>8, <1>13, <1>t DEF WholeSoFar

\* A frame of the server.
LEMMA ServeWhole ==
    ASSUME TypeOK, WholeSoFar, NEW f \in Frame, Serve(f), promises' = 0
    PROVE  WholeSoFar'
<1>t. /\ "writer" \in Threads /\ "reader" \in Threads /\ Threads = {"writer", "reader"}
      /\ "writer" # "reader"
  BY DEF Threads
<1>f. f.stream \in Streams /\ f.kind \in {"HEADERS", "CONTINUATION", "PUSH_PROMISE", "DATA", "RST_STREAM"}
  BY FrameParts
<1>1. AddedFrame("reader", f) /\ SameFrames("writer")
  BY ServeAdds
<1>2. /\ Legal("reader", f) /\ UNCHANGED <<streams, inStep, onWire, batch>>
      /\ peer' = [peer EXCEPT !["reader"][f.stream] = Sent("reader", f)]
  BY DEF Serve, table, calls
<1>3. /\ peer'["writer"] = peer["writer"]
      /\ \A s \in Streams :
            peer'["reader"][s] = IF s = f.stream THEN Sent("reader", f) ELSE peer["reader"][s]
  BY <1>2, <1>t, <1>f DEF TypeOK
<1>4. \A t \in Threads : Mid(t)' = Mid(t)
  BY <1>2 DEF Mid
<1>p. f.kind # "PUSH_PROMISE"
  BY DEF Serve, TypeOK
<1>5. BlocksInOrder("reader")'
  BY <1>1, <1>2, <1>4, <1>p, <1>t, BlocksGrow DEF WholeSoFar
<1>6. BlocksInOrder("writer")'
  BY <1>1, <1>3, <1>4, <1>t, BlocksStay DEF WholeSoFar
<1>7. BlocksKept'
  BY <1>2, <1>4, <1>t DEF WholeSoFar, BlocksKept
<1>8. peer["reader"][f.stream] \in Over => ~HoldsHeaders(f) /\ Sent("reader", f) \in Over
  BY <1>f, <1>2 DEF Legal, Sent, InBlock, Over, HoldsHeaders
<1>9. EndsLast'
  <2>1. ASSUME NEW s \in Streams, streams[s].resp_end_stream
        PROVE  peer'["reader"][s] \in Over /\ NoHeaders("reader", s)'
    <3>1. peer["reader"][s] \in Over /\ NoHeaders("reader", s)
      BY <2>1 DEF WholeSoFar, EndsLast
    <3> QED
      BY <1>1, <1>3, <1>8, <1>t, <3>1, NoHeadersAdded
  <2>2. LastIsLast'
    BY <1>1, <1>2, LastAdded DEF WholeSoFar, EndsLast
  <2> QED
    BY <1>2, <2>1, <2>2 DEF EndsLast
<1>10. RequestsAhead'
  <2>1. \A s \in Streams : NoHeaders("writer", s) => NoHeaders("writer", s)'
    BY <1>1, <1>t, NoHeadersStay
  <2> QED
    BY <1>2, <1>3, <1>4, <1>t, <2>1 DEF WholeSoFar, RequestsAhead, TypeOK
<1> QED
  BY <1>2, <1>5, <1>6, <1>7, <1>9, <1>10, <1>t DEF WholeSoFar

\* A frame fed by either thread.
LEMMA FedWhole ==
    ASSUME TypeOK, OnlyHeard, ResetsShow, MarksFollow, Undisturbed, BlocksWhole,
           NEW t \in Threads, process_frame(t), evictions' = 0
    PROVE  WholeSoFar'
<1>t. /\ "writer" \in Threads /\ "reader" \in Threads /\ Threads = {"writer", "reader"}
      /\ "writer" # "reader"
  BY DEF Threads
<1>0. WholeSoFar
  BY DEF BlocksWhole
<1>1. PICK f \in Frame : /\ f = batch[t][next[t]] /\ FedFrame(t, f)
                         /\ \A u \in Threads \ {t} : SameFrames(u)
  BY FeedTakes
<1>2. /\ Mid(t)' = IF Starts(f) THEN {f.stream} ELSE {}
      /\ \A u \in Threads \ {t} : Mid(u)' = Mid(u)
      /\ \A u \in Threads : inStep'[u]
      /\ \A x \in Streams : streams'[x].pending_header_block \subseteq Threads \X {"HEADERS"}
      /\ \A x \in Streams :
            /\ streams'[x].resp_headers_done =>
                  streams[x].resp_headers_done \/ (x = f.stream /\ t = "reader")
            /\ streams'[x].resp_end_stream =>
                  \/ streams[x].resp_end_stream
                  \/ x = f.stream /\ t = "reader" /\ LastFrame(f)
  BY <1>1, FedBlock
<1>3. UNCHANGED <<peer, onWire, batch>>
  BY DEF process_frame, peers
<1>4. \A u \in Threads : SameFrames(u) \/ \E g \in Frame : FedFrame(u, g)
  BY <1>1
<1>5. \A u \in Threads, s \in Streams : NoHeaders(u, s) => NoHeaders(u, s)'
  BY <1>4, NoHeadersStay
<1>6. \A u \in Threads : BlocksInOrder(u)'
  <2>1. BlocksInOrder(t)'
    BY <1>0, <1>1, <1>2, <1>3, BlocksShrink DEF WholeSoFar
  <2>2. \A u \in Threads \ {t} : BlocksInOrder(u)'
    BY <1>0, <1>1, <1>2, <1>3, BlocksStay DEF WholeSoFar
  <2> QED
    BY <2>1, <2>2
<1>7. t = "reader" => f.stream \in onWire
  <2>1. next[t] \in 1 .. Len(batch[t])
    BY DEF process_frame, TypeOK
  <2> QED
    BY <1>1, <2>1 DEF OnlyHeard, AnswersOnly
<1>8. Left(t) \in Nat /\ Left(t) > 0 /\ Upcoming(t, 1) = f /\ f.stream \in Streams
  BY <1>1, UpcomingType, FrameParts DEF FedFrame
<1>9. 1 \in 1 .. Left(t)
  BY <1>8
<1>10. RequestsAhead'
  <2>1. \A s \in onWire : s \notin Mid("writer")'
    <3>1. CASE t = "reader"
      BY <1>0, <1>2, <1>t, <3>1 DEF WholeSoFar, RequestsAhead
    <3>2. CASE t = "writer"
      <4>1. Starts(f) => f.stream \notin onWire
        BY <1>0, <1>8, <1>9, <3>2 DEF WholeSoFar, RequestsAhead, NoHeaders, Starts, HoldsHeaders
      <4> QED
        BY <1>2, <3>2, <4>1
    <3> QED
      BY <1>t, <3>1, <3>2
  <2> QED
    BY <1>0, <1>3, <1>5, <1>t, <2>1 DEF WholeSoFar, RequestsAhead, TypeOK
<1>11. BlocksKept'
  <2>1. \A s \in Streams : s \in Mid("reader")' => s \in onWire
    BY <1>0, <1>2, <1>7, <1>t DEF WholeSoFar, BlocksKept
  <2>2. \A s \in Streams : streams'[s].resp_headers_done => s \in onWire
    BY <1>0, <1>2, <1>7 DEF WholeSoFar, BlocksKept
  <2>3. ASSUME NEW s \in Streams, streams'[s].resp_end_stream PROVE s \notin Mid("reader")'
    <3>1. CASE t = "writer"
      BY <1>0, <1>2, <1>t, <2>3, <3>1 DEF WholeSoFar, BlocksKept
    <3>2. CASE t = "reader" /\ streams[s].resp_end_stream
      <4>1. NoHeaders("reader", s)
        BY <1>0, <3>2 DEF WholeSoFar, EndsLast
      <4>2. Starts(f) => s # f.stream
        BY <1>8, <1>9, <3>2, <4>1 DEF NoHeaders, Starts, HoldsHeaders
      <4> QED
        BY <1>2, <3>2, <4>2
    <3>3. CASE t = "reader" /\ LastFrame(f)
      BY <1>2, <3>3 DEF LastFrame, Starts
    <3> QED
      BY <1>2, <1>t, <2>3, <3>1, <3>2, <3>3
  <2> QED
    BY <1>2, <1>3, <2>1, <2>2, <2>3 DEF BlocksKept
<1>12. EndsLast'
  <2>1. LastIsLast'
    BY <1>0, <1>3, <1>4, <1>t, LastStaysLast DEF WholeSoFar, EndsLast
  <2>2. ASSUME NEW s \in Streams, streams'[s].resp_end_stream
        PROVE  peer["reader"][s] \in Over /\ NoHeaders("reader", s)'
    <3>1. CASE streams[s].resp_end_stream
      BY <1>0, <1>5, <1>t, <3>1 DEF WholeSoFar, EndsLast
    <3>2. CASE s = f.stream /\ t = "reader" /\ LastFrame(f)
      <4>1. /\ peer["reader"][s] \in Over
            /\ \A j \in 1 .. Left("reader") :
                  1 < j /\ Upcoming("reader", j).stream = s => ~HoldsHeaders(Upcoming("reader", j))
        BY <1>0, <1>8, <1>9, <3>2 DEF WholeSoFar, EndsLast, LastIsLast
      <4>2. PICK n \in Nat : n + 1 = Left("reader")
        <5>1. Left("reader") - 1 \in Nat /\ (Left("reader") - 1) + 1 = Left("reader")
          BY <1>8, <3>2
        <5> QED
          BY <5>1
      <4>3. Left("reader")' = n /\ \A i \in 1 .. n : Upcoming("reader", i)' = Upcoming("reader", i + 1)
        BY <1>1, <3>2, <4>2 DEF FedFrame
      <4>4. \A i \in 1 .. n : i + 1 \in 1 .. n + 1 /\ 1 < i + 1
        OBVIOUS
      <4>5. NoHeaders("reader", s)'
        BY <4>1, <4>2, <4>3, <4>4 DEF NoHeaders, HoldsHeaders
      <4> QED
        BY <4>1, <4>5
    <3> QED
      BY <1>2, <2>2, <3>1, <3>2
  <2> QED
    BY <1>3, <2>1, <2>2 DEF EndsLast
<1> QED
  BY <1>2, <1>6, <1>10, <1>11, <1>12 DEF WholeSoFar

\* Every step of the threads and the peers keeps the blocks whole.
LEMMA BlocksWholeHolds ==
    /\ TypeOK /\ LocalResets /\ OnlyHeard /\ ThreadsInStep /\ ResetsShow /\ ReaderRests
    /\ MarksFollow /\ BlocksWhole /\ [Next]_vars
    => BlocksWhole'
<1> SUFFICES ASSUME TypeOK, LocalResets, OnlyHeard, ThreadsInStep, ResetsShow, ReaderRests,
                    MarksFollow, BlocksWhole, [Next]_vars, Undisturbed'
             PROVE  WholeSoFar'
  BY DEF BlocksWhole
<1>t. "writer" \in Threads /\ "reader" \in Threads /\ "writer" # "reader"
  BY DEF Threads
<1>1. Undisturbed
  BY UndisturbedBefore
<1>2. WholeSoFar
  BY <1>1 DEF BlocksWhole
<1>3. evictions' = 0 /\ failures' = 0 /\ promises' = 0
      /\ \A s \in Streams : peer'["writer"][s] \notin {"splitTrailers", "trailed", "reset"}
  BY DEF Undisturbed
<1>a. ASSUME UNCHANGED <<peer, inStep, onWire>>, batch'["writer"] = batch["writer"],
             BeginRead \/ EndRead \/ UNCHANGED <<batch, next, wireIn>>,
             \A s \in Streams :
                /\ streams'[s].pending_header_block = streams[s].pending_header_block
                /\ streams'[s].resp_headers_done = streams[s].resp_headers_done
                /\ streams'[s].resp_end_stream = streams[s].resp_end_stream
      PROVE  WholeSoFar'
  <2>1. \A t \in Threads : SameFrames(t)
    BY <1>a, CallsMove
  <2> QED
    BY <1>2, <1>a, <2>1, QuietWhole
<1>4. ASSUME NEW f \in Frame, Compose(f) PROVE WholeSoFar'
  BY <1>2, <1>3, <1>4, ComposeWhole
<1>5. ASSUME NEW f \in Frame, Serve(f) PROVE WholeSoFar'
  BY <1>2, <1>3, <1>5, ServeWhole
<1>6. ASSUME NEW t \in Threads, process_frame(t) PROVE WholeSoFar'
  BY <1>1, <1>3, <1>6, FedWhole
<1>7. CASE orig_ssl_write
  <2>1. next["writer"] > Len(batch["writer"])
    BY <1>7, <1>t DEF orig_ssl_write, Step, ThreadsInStep
  <2>2. \A t \in Threads : SameFrames(t)
    BY <1>7, CallsMove
  <2>3. UNCHANGED <<peer, inStep, streams>>
    BY <1>7 DEF orig_ssl_write, table
  <2> QED
    BY <1>2, <1>7, <2>1, <2>2, <2>3, QuietWhole
<1>8. CASE BeginRead
  BY <1>8, <1>a, <1>t DEF BeginRead, table, TypeOK
<1>9. CASE EndRead
  BY <1>9, <1>a, <1>t DEF EndRead, table, peers, TypeOK
<1>10. ASSUME NEW t \in Threads, h2_block_stream(t) PROVE WholeSoFar'
  <2>1. UNCHANGED <<peer, inStep, onWire, batch, next, wireIn>>
    BY <1>10 DEF h2_block_stream, peers, calls
  <2>2. \A s \in Streams :
           /\ streams'[s].pending_header_block = streams[s].pending_header_block
           /\ streams'[s].resp_headers_done = streams[s].resp_headers_done
           /\ streams'[s].resp_end_stream = streams[s].resp_end_stream
    BY <1>10 DEF h2_block_stream, TypeOK, Http2Stream
  <2> QED
    BY <1>a, <2>1, <2>2
<1>11. CASE WriteRefused
  BY <1>3, <1>11 DEF WriteRefused, TypeOK
<1>12. CASE UNCHANGED <<peer, inStep, onWire, batch, next, wireIn, streams>>
  BY <1>12, <1>a
<1> QED
  BY <1>4, <1>5, <1>6, <1>7, <1>8, <1>9, <1>10, <1>11, <1>12 DEF Next, vars, table, calls, peers,
     Peers, BeginWrite, Feed, TakeResults, Callback, EarlyVerdict, ReportVerdict,
     h2_enqueue_rst_stream, EnqueueReport, Write, h2_take_rst_frames, WriteResets

----------------------------------------------------------------------------
(* A finished exchange is reported.                                        *)

\* What the parser has seen of direction t of stream s; a stream that has left the table with a
\* report had everything seen.
HeadersFed(t, s) ==
    IF s \notin live THEN snapshots[s] > 0
    ELSE IF t = "writer" THEN streams[s].req_headers_done ELSE streams[s].resp_headers_done
EndFed(t, s) ==
    IF s \notin live THEN snapshots[s] > 0
    ELSE IF t = "writer" THEN streams[s].req_end_stream ELSE streams[s].resp_end_stream

\* What a peer has sent was seen or is still to come, in its order and to its end.
Following(t, s) ==
    LET Of(i) == Upcoming(t, i).stream = s
        Heads(i) == Of(i) /\ Upcoming(t, i).kind = "HEADERS"
    IN  /\ ~InBlock(t, s)
        /\ peer[t][s] # "idle" => HeadersFed(t, s) \/ \E i \in 1 .. Left(t) : Heads(i)
        /\ peer[t][s] \in {"closed", "trailed"} =>
              EndFed(t, s) \/ \E i \in 1 .. Left(t) : Of(i) /\ Upcoming(t, i).end
        /\ EndFed(t, s) => /\ peer[t][s] \in {"closed", "trailed"}
                           /\ \A i \in 1 .. Left(t) : ~Of(i)
        /\ \A i \in 1 .. Left(t) : Of(i) =>
              /\ Upcoming(t, i).kind \in {"HEADERS", "DATA", "PUSH_PROMISE"}
              /\ Upcoming(t, i).kind = "DATA" =>
                    HeadersFed(t, s) \/ \E j \in 1 .. Left(t) : j < i /\ Heads(j)
              /\ Upcoming(t, i).end => /\ peer[t][s] \in {"closed", "trailed"}
                                       /\ \A j \in 1 .. Left(t) : i < j => ~Of(j)

\* A stream in the table is not complete, and was reported at most once, on its response's end.
Finishing(s) ==
    /\ ~is_complete(streams[s])
    /\ snapshots[s] <= 2
    /\ s \in live /\ snapshots[s] > 0 => snapshots[s] = 1 /\ streams[s].resp_end_stream
    /\ \A t \in Threads : Following(t, s)

\* Nothing denied or reset the stream.
LeftAlone(s) == ~Resetting(s) /\ \A t \in Threads : peer[t][s] # "reset"

\* The inductive invariant about finished exchanges: what the peers sent was seen or is to come.
FinishInv ==
    evictions = 0 /\ failures = 0 /\ EndsHeaders = {TRUE} =>
        \A s \in Streams : LeftAlone(s) => Finishing(s)

\* A direction after frames were fed, of this stream or of others.
LEMMA FollowingStays ==
    ASSUME TypeOK, NEW t \in Threads, NEW s \in Streams, peer'[t] = peer[t], Following(t, s),
           \/ /\ SameFrames(t)
              /\ HeadersFed(t, s)' <=> HeadersFed(t, s)
              /\ EndFed(t, s)' <=> EndFed(t, s)
           \/ \E f \in Frame :
                 /\ FedFrame(t, f)
                 /\ HeadersFed(t, s)' <=> (HeadersFed(t, s) \/ (f.stream = s /\ f.kind = "HEADERS"))
                 /\ EndFed(t, s)' <=> (EndFed(t, s) \/ (f.stream = s /\ f.end))
    PROVE  Following(t, s)'
<1>1. PICK n \in Nat : n = Left(t)
  BY UpcomingType
<1>2. CASE /\ SameFrames(t)
           /\ HeadersFed(t, s)' <=> HeadersFed(t, s)
           /\ EndFed(t, s)' <=> EndFed(t, s)
  <2>1. Left(t)' = n /\ \A i \in 1 .. n : Upcoming(t, i)' = Upcoming(t, i)
    BY <1>1, <1>2 DEF SameFrames
  <2> QED
    BY <1>1, <1>2, <2>1 DEF Following, InBlock
<1>3. ASSUME NEW f \in Frame, FedFrame(t, f),
             HeadersFed(t, s)' <=> (HeadersFed(t, s) \/ (f.stream = s /\ f.kind = "HEADERS")),
             EndFed(t, s)' <=> (EndFed(t, s) \/ (f.stream = s /\ f.end))
      PROVE  Following(t, s)'
  <2>1. PICK m \in Nat : m + 1 = n
    <3>1. n - 1 \in Nat /\ (n - 1) + 1 = n
      BY <1>1, <1>3 DEF FedFrame
    <3> QED
      BY <3>1
  <2>2. /\ Left(t) = m + 1 /\ Left(t)' = m /\ Upcoming(t, 1) = f
        /\ \A i \in 1 .. m : Upcoming(t, i)' = Upcoming(t, i + 1)
    BY <1>1, <1>3, <2>1 DEF FedFrame
  <2>3. /\ \A i \in 1 .. m : i + 1 \in 1 .. m + 1
        /\ \A i, j \in 1 .. m : i < j => i + 1 < j + 1
        /\ \A i \in 1 .. m + 1 : i = 1 \/ (i - 1 \in 1 .. m /\ (i - 1) + 1 = i)
        /\ 1 \in 1 .. m + 1
    OBVIOUS
  <2>4. peer[t][s] # "idle" =>
           HeadersFed(t, s)' \/ \E j \in 1 .. m : /\ (Upcoming(t, j).stream)' = s
                                                 /\ (Upcoming(t, j).kind)' = "HEADERS"
    <3>1. peer[t][s] # "idle" =>
             HeadersFed(t, s) \/ \E j \in 1 .. m + 1 : /\ Upcoming(t, j).stream = s
                                                      /\ Upcoming(t, j).kind = "HEADERS"
      BY <2>2 DEF Following
    <3>2. ASSUME NEW j \in 1 .. m + 1, Upcoming(t, j).stream = s, Upcoming(t, j).kind = "HEADERS"
          PROVE  HeadersFed(t, s)' \/ \E i \in 1 .. m : /\ (Upcoming(t, i).stream)' = s
                                                       /\ (Upcoming(t, i).kind)' = "HEADERS"
      <4>1. CASE j = 1
        BY <1>3, <2>2, <3>2, <4>1
      <4>2. CASE j # 1
        <5>1. j - 1 \in 1 .. m /\ Upcoming(t, j - 1)' = Upcoming(t, j)
          BY <2>2, <2>3, <4>2
        <5> QED
          BY <3>2, <5>1
      <4> QED
        BY <4>1, <4>2
    <3> QED
      BY <1>3, <3>1, <3>2
  <2>5. peer[t][s] \in {"closed", "trailed"} =>
           EndFed(t, s)' \/ \E i \in 1 .. m : (Upcoming(t, i).stream)' = s /\ (Upcoming(t, i).end)'
    <3>1. peer[t][s] \in {"closed", "trailed"} =>
             EndFed(t, s) \/ \E i \in 1 .. m + 1 : Upcoming(t, i).stream = s /\ Upcoming(t, i).end
      BY <2>2 DEF Following
    <3>2. ASSUME NEW j \in 1 .. m + 1, Upcoming(t, j).stream = s, Upcoming(t, j).end
          PROVE  EndFed(t, s)' \/ \E i \in 1 .. m : /\ (Upcoming(t, i).stream)' = s
                                                   /\ (Upcoming(t, i).end)'
      <4>1. CASE j = 1
        BY <1>3, <2>2, <3>2, <4>1
      <4>2. CASE j # 1
        <5>1. j - 1 \in 1 .. m /\ Upcoming(t, j - 1)' = Upcoming(t, j)
          BY <2>2, <2>3, <4>2
        <5> QED
          BY <3>2, <5>1
      <4> QED
        BY <4>1, <4>2
    <3> QED
      BY <1>3, <3>1, <3>2
  <2>6. EndFed(t, s)' => /\ peer[t][s] \in {"closed", "trailed"}
                         /\ \A i \in 1 .. m : (Upcoming(t, i).stream)' # s
    <3>1. CASE EndFed(t, s)
      BY <2>2, <2>3, <3>1 DEF Following
    <3>2. CASE f.stream = s /\ f.end
      <4>1. \A i \in 1 .. m : 1 < i + 1
        OBVIOUS
      <4>2. /\ peer[t][s] \in {"closed", "trailed"}
            /\ \A j \in 1 .. m + 1 : 1 < j => Upcoming(t, j).stream # s
        BY <2>2, <2>3, <3>2 DEF Following
      <4> QED
        BY <2>2, <2>3, <4>1, <4>2
    <3> QED
      BY <1>3, <3>1, <3>2
  <2>7. ASSUME NEW i \in 1 .. m, (Upcoming(t, i).stream)' = s
        PROVE  /\ (Upcoming(t, i).kind)' \in {"HEADERS", "DATA", "PUSH_PROMISE"}
               /\ (Upcoming(t, i).kind)' = "DATA" =>
                     HeadersFed(t, s)' \/ \E j \in 1 .. m : /\ j < i
                                                           /\ (Upcoming(t, j).stream)' = s
                                                           /\ (Upcoming(t, j).kind)' = "HEADERS"
               /\ (Upcoming(t, i).end)' =>
                     /\ peer[t][s] \in {"closed", "trailed"}
                     /\ \A j \in 1 .. m : i < j => (Upcoming(t, j).stream)' # s
    <3>1. i + 1 \in 1 .. m + 1 /\ Upcoming(t, i)' = Upcoming(t, i + 1)
      BY <2>2, <2>3
    <3>2. /\ Upcoming(t, i + 1).kind \in {"HEADERS", "DATA", "PUSH_PROMISE"}
          /\ Upcoming(t, i + 1).kind = "DATA" =>
                HeadersFed(t, s) \/ \E j \in 1 .. m + 1 : /\ j < i + 1
                                                         /\ Upcoming(t, j).stream = s
                                                         /\ Upcoming(t, j).kind = "HEADERS"
          /\ Upcoming(t, i + 1).end =>
                /\ peer[t][s] \in {"closed", "trailed"}
                /\ \A j \in 1 .. m + 1 : i + 1 < j => Upcoming(t, j).stream # s
      BY <2>2, <2>7, <3>1 DEF Following
    <3>3. ASSUME NEW j \in 1 .. m + 1, j < i + 1, Upcoming(t, j).stream = s,
                 Upcoming(t, j).kind = "HEADERS"
          PROVE  HeadersFed(t, s)' \/ \E k \in 1 .. m : /\ k < i
                                                       /\ (Upcoming(t, k).stream)' = s
                                                       /\ (Upcoming(t, k).kind)' = "HEADERS"
      <4>1. CASE j = 1
        BY <1>3, <2>2, <3>3, <4>1
      <4>2. CASE j # 1
        <5>1. j - 1 \in 1 .. m /\ j - 1 < i /\ Upcoming(t, j - 1)' = Upcoming(t, j)
          BY <2>2, <2>3, <3>3, <4>2
        <5> QED
          BY <3>3, <5>1
      <4> QED
        BY <4>1, <4>2
    <3>4. \A j \in 1 .. m : i < j => j + 1 \in 1 .. m + 1 /\ i + 1 < j + 1
                                     /\ Upcoming(t, j)' = Upcoming(t, j + 1)
      BY <2>2, <2>3
    <3> QED
      BY <1>3, <3>1, <3>2, <3>3, <3>4
  <2>8. ~InBlock(t, s)'
    BY DEF Following, InBlock
  <2> QED
    BY <2>2, <2>4, <2>5, <2>6, <2>7, <2>8 DEF Following
<1> QED
  BY <1>2, <1>3

\* A direction after its peer sent another frame: of a stream that it has ended a peer sends only
\* resets, and header blocks come in one piece.
LEMMA FollowingGrows ==
    ASSUME TypeOK, EndsHeaders = {TRUE}, NEW t \in Threads, NEW s \in Streams, NEW f \in Frame,
           AddedFrame(t, f), Legal(t, f), peer' = [peer EXCEPT ![t][f.stream] = Sent(t, f)],
           peer'[t][s] # "reset", Following(t, s),
           HeadersFed(t, s)' <=> HeadersFed(t, s), EndFed(t, s)' <=> EndFed(t, s)
    PROVE  Following(t, s)'
<1>f. /\ f.kind \in {"HEADERS", "CONTINUATION", "PUSH_PROMISE", "DATA", "RST_STREAM"}
      /\ f.kind \in {"HEADERS", "PUSH_PROMISE"} => f.fin
      /\ f.kind = "PUSH_PROMISE" => ~f.end
      /\ f.kind = "DATA" => f.end
      /\ f.end \in BOOLEAN /\ f.stream \in Streams
  BY FrameParts DEF Frame
<1>1. PICK n \in Nat : n = Left(t)
  BY UpcomingType
<1>2. /\ Left(t)' = n + 1 /\ Upcoming(t, n + 1)' = f
      /\ \A i \in 1 .. n : Upcoming(t, i)' = Upcoming(t, i)
  BY <1>1 DEF AddedFrame
<1>3. /\ \A i \in 1 .. n + 1 : i \in 1 .. n \/ i = n + 1
      /\ \A i \in 1 .. n : i \in 1 .. n + 1 /\ i < n + 1
      /\ \A i \in 1 .. n + 1 : ~(n + 1 < i)
      /\ n + 1 \in 1 .. n + 1
  OBVIOUS
<1>4. peer'[t][s] = IF s = f.stream THEN Sent(t, f) ELSE peer[t][s]
  BY <1>f DEF TypeOK
<1>5. /\ ~InBlock(t, s)
      /\ peer[t][s] # "idle" =>
            HeadersFed(t, s) \/ \E i \in 1 .. n : /\ Upcoming(t, i).stream = s
                                                 /\ Upcoming(t, i).kind = "HEADERS"
      /\ peer[t][s] \in {"closed", "trailed"} =>
            EndFed(t, s) \/ \E i \in 1 .. n : Upcoming(t, i).stream = s /\ Upcoming(t, i).end
      /\ EndFed(t, s) => /\ peer[t][s] \in {"closed", "trailed"}
                         /\ \A i \in 1 .. n : Upcoming(t, i).stream # s
      /\ \A i \in 1 .. n : Upcoming(t, i).stream = s =>
            /\ Upcoming(t, i).kind \in {"HEADERS", "DATA", "PUSH_PROMISE"}
            /\ Upcoming(t, i).kind = "DATA" =>
                  HeadersFed(t, s) \/ \E j \in 1 .. n : /\ j < i /\ Upcoming(t, j).stream = s
                                                       /\ Upcoming(t, j).kind = "HEADERS"
            /\ Upcoming(t, i).end => /\ peer[t][s] \in {"closed", "trailed"}
                                     /\ \A j \in 1 .. n : i < j => Upcoming(t, j).stream # s
  BY <1>1 DEF Following
<1>6. CASE f.stream # s
  <2>1. peer'[t][s] = peer[t][s]
    BY <1>4, <1>6
  <2>2. /\ peer[t][s] # "idle" =>
              HeadersFed(t, s) \/ \E i \in 1 .. n + 1 : /\ (Upcoming(t, i).stream)' = s
                                                       /\ (Upcoming(t, i).kind)' = "HEADERS"
        /\ peer[t][s] \in {"closed", "trailed"} =>
              EndFed(t, s) \/ \E i \in 1 .. n + 1 : (Upcoming(t, i).stream)' = s /\ (Upcoming(t, i).end)'
        /\ EndFed(t, s) => /\ peer[t][s] \in {"closed", "trailed"}
                           /\ \A i \in 1 .. n + 1 : (Upcoming(t, i).stream)' # s
    BY <1>2, <1>3, <1>5, <1>6
  <2>3. ASSUME NEW i \in 1 .. n + 1, (Upcoming(t, i).stream)' = s
        PROVE  /\ (Upcoming(t, i).kind)' \in {"HEADERS", "DATA", "PUSH_PROMISE"}
               /\ (Upcoming(t, i).kind)' = "DATA" =>
                     HeadersFed(t, s) \/ \E j \in 1 .. n + 1 : /\ j < i
                                                              /\ (Upcoming(t, j).stream)' = s
                                                              /\ (Upcoming(t, j).kind)' = "HEADERS"
               /\ (Upcoming(t, i).end)' =>
                     /\ peer[t][s] \in {"closed", "trailed"}
                     /\ \A j \in 1 .. n + 1 : i < j => (Upcoming(t, j).stream)' # s
    BY <1>2, <1>3, <1>5, <1>6, <2>3
  <2>4. ~InBlock(t, s)'
    BY <1>5, <2>1 DEF InBlock
  <2> QED
    BY <1>2, <2>1, <2>2, <2>3, <2>4 DEF Following
<1>7. CASE f.stream = s /\ f.kind # "PUSH_PROMISE"
  <2>1. /\ peer[t][s] \in {"idle", "open"}
        /\ f.kind \in {"HEADERS", "DATA"}
        /\ f.kind = "DATA" => peer[t][s] # "idle"
        /\ peer'[t][s] \in {"open", "closed", "trailed"}
        /\ peer'[t][s] \in {"closed", "trailed"} <=> f.end
    <3>1. peer'[t][s] = Sent(t, f) /\ Sent(t, f) # "reset"
      BY <1>4, <1>7
    <3>2. f.kind # "CONTINUATION" /\ f.kind # "RST_STREAM"
      BY <1>5, <1>7, <3>1 DEF Legal, Sent
    <3>3. CASE f.kind = "HEADERS"
      BY <1>f, <1>7, <3>1, <3>3 DEF Legal, Sent
    <3>4. CASE f.kind = "DATA"
      BY <1>f, <1>7, <3>1, <3>4 DEF Legal, Sent
    <3> QED
      BY <1>f, <1>7, <3>2, <3>3, <3>4
  <2>2. ~EndFed(t, s) /\ \A i \in 1 .. n : Upcoming(t, i).stream = s => ~Upcoming(t, i).end
    BY <1>5, <2>1
  <2>3. HeadersFed(t, s) \/ \E i \in 1 .. n + 1 : /\ (Upcoming(t, i).stream)' = s
                                                 /\ (Upcoming(t, i).kind)' = "HEADERS"
    <3>1. CASE f.kind = "HEADERS"
      BY <1>2, <1>3, <1>7, <3>1
    <3>2. CASE f.kind = "DATA"
      <4>1. HeadersFed(t, s) \/ \E i \in 1 .. n : /\ Upcoming(t, i).stream = s
                                                 /\ Upcoming(t, i).kind = "HEADERS"
        BY <1>5, <2>1, <3>2
      <4> QED
        BY <1>2, <1>3, <4>1
    <3> QED
      BY <2>1, <3>1, <3>2
  <2>4. peer'[t][s] \in {"closed", "trailed"} =>
           \E i \in 1 .. n + 1 : (Upcoming(t, i).stream)' = s /\ (Upcoming(t, i).end)'
    BY <1>2, <1>3, <1>7, <2>1
  <2>5. ASSUME NEW i \in 1 .. n + 1, (Upcoming(t, i).stream)' = s
        PROVE  /\ (Upcoming(t, i).kind)' \in {"HEADERS", "DATA", "PUSH_PROMISE"}
               /\ (Upcoming(t, i).kind)' = "DATA" =>
                     HeadersFed(t, s) \/ \E j \in 1 .. n + 1 : /\ j < i
                                                              /\ (Upcoming(t, j).stream)' = s
                                                              /\ (Upcoming(t, j).kind)' = "HEADERS"
               /\ (Upcoming(t, i).end)' =>
                     /\ peer'[t][s] \in {"closed", "trailed"}
                     /\ \A j \in 1 .. n + 1 : i < j => (Upcoming(t, j).stream)' # s
    <3>1. CASE i \in 1 .. n
      BY <1>2, <1>3, <1>5, <2>2, <2>5, <3>1
    <3>2. CASE i = n + 1
      <4>1. Upcoming(t, i)' = f
        BY <1>2, <3>2
      <4>2. f.kind = "DATA" =>
               HeadersFed(t, s) \/ \E j \in 1 .. n : /\ Upcoming(t, j).stream = s
                                                    /\ Upcoming(t, j).kind = "HEADERS"
        BY <1>5, <2>1
      <4>3. f.kind = "DATA" =>
               HeadersFed(t, s) \/ \E j \in 1 .. n + 1 : /\ j < i
                                                        /\ (Upcoming(t, j).stream)' = s
                                                        /\ (Upcoming(t, j).kind)' = "HEADERS"
        BY <1>2, <1>3, <3>2, <4>2
      <4>4. \A j \in 1 .. n + 1 : ~(i < j)
        BY <1>3, <3>2
      <4> QED
        BY <2>1, <4>1, <4>3, <4>4
    <3> QED
      BY <1>3, <3>1, <3>2
  <2>6. ~InBlock(t, s)'
    BY <2>1 DEF InBlock
  <2> QED
    BY <1>2, <2>2, <2>3, <2>4, <2>5, <2>6 DEF Following
<1>8. CASE f.stream = s /\ f.kind = "PUSH_PROMISE"
  <2>1. peer[t][s] \in {"idle", "open"} /\ peer'[t][s] = peer[t][s]
    BY <1>f, <1>4, <1>8 DEF Legal, Sent
  <2>2. ~EndFed(t, s) /\ \A i \in 1 .. n : Upcoming(t, i).stream = s => ~Upcoming(t, i).end
    BY <1>5, <2>1
  <2>3. peer[t][s] # "idle" =>
            HeadersFed(t, s) \/ \E i \in 1 .. n + 1 : /\ (Upcoming(t, i).stream)' = s
                                                     /\ (Upcoming(t, i).kind)' = "HEADERS"
    BY <1>2, <1>3, <1>5
  <2>4. ASSUME NEW i \in 1 .. n + 1, (Upcoming(t, i).stream)' = s
        PROVE  /\ (Upcoming(t, i).kind)' \in {"HEADERS", "DATA", "PUSH_PROMISE"}
               /\ (Upcoming(t, i).kind)' = "DATA" =>
                     HeadersFed(t, s) \/ \E j \in 1 .. n + 1 : /\ j < i
                                                              /\ (Upcoming(t, j).stream)' = s
                                                              /\ (Upcoming(t, j).kind)' = "HEADERS"
               /\ ~(Upcoming(t, i).end)'
    <3>1. CASE i \in 1 .. n
      BY <1>2, <1>3, <1>5, <2>2, <2>4, <3>1
    <3>2. CASE i = n + 1
      BY <1>2, <1>f, <1>8, <3>2
    <3> QED
      BY <1>3, <3>1, <3>2
  <2>5. ~InBlock(t, s)'
    BY <2>1 DEF InBlock
  <2> QED
    BY <1>2, <2>1, <2>2, <2>3, <2>4, <2>5 DEF Following
<1> QED
  BY <1>6, <1>7, <1>8

\* What is left alone was so before.
LEMMA LeftAloneBefore ==
    ASSUME TypeOK, LocalResets, [Next]_vars, failures' = 0, NEW s \in Streams, LeftAlone(s)'
    PROVE  LeftAlone(s)
<1>t. "writer" \in Threads /\ "reader" \in Threads /\ Threads = {"writer", "reader"}
      /\ "writer" # "reader"
  BY DEF Threads
<1>1. ~Resetting(s)
  BY ResettingStays DEF LeftAlone
<1>2. ASSUME NEW t \in Threads, peer[t][s] = "reset" PROVE peer'[t][s] = "reset"
  <2>1. ASSUME NEW f \in Frame, Compose(f) \/ Serve(f) PROVE peer'[t][s] = "reset"
    <3>1. PICK u \in Threads : peer' = [peer EXCEPT ![u][f.stream] = Sent(u, f)] /\ Legal(u, f)
      BY <2>1, <1>t DEF Compose, Serve
    <3>2. ~(u = t /\ f.stream = s)
      BY <1>2, <3>1, PeerMoves
    <3> QED
      BY <1>2, <3>1, <3>2, FrameParts DEF TypeOK
  <2>2. CASE UNCHANGED peer
    BY <1>2, <2>2
  <2> QED
    BY <2>1, <2>2 DEF Next, vars, peers, Peers, BeginWrite, BeginRead, EndRead, Feed,
       process_frame, TakeResults, Callback, EarlyVerdict, ReportVerdict, h2_enqueue_rst_stream,
       h2_block_stream, EnqueueReport, Write, h2_take_rst_frames, orig_ssl_write, WriteRefused,
       WriteResets
<1> QED
  BY <1>1, <1>2 DEF LeftAlone

\* A stream that no step touches.
LEMMA FinishingStays ==
    ASSUME TypeOK, NEW s \in Streams, Finishing(s), peer' = peer,
           \A t \in Threads : SameFrames(t) \/ (\E f \in Frame : FedFrame(t, f) /\ f.stream # s),
           s \in live <=> s \in live', snapshots'[s] = snapshots[s],
           /\ streams'[s].req_headers_done = streams[s].req_headers_done
           /\ streams'[s].req_end_stream = streams[s].req_end_stream
           /\ streams'[s].resp_headers_done = streams[s].resp_headers_done
           /\ streams'[s].resp_end_stream = streams[s].resp_end_stream
    PROVE  Finishing(s)'
<1>1. ~is_complete(streams'[s])
  BY DEF Finishing, is_complete
<1>2. ASSUME NEW t \in Threads
      PROVE  (HeadersFed(t, s)' <=> HeadersFed(t, s)) /\ (EndFed(t, s)' <=> EndFed(t, s))
  <2>1. CASE s \in live
    BY <2>1 DEF HeadersFed, EndFed
  <2>2. CASE s \notin live
    BY <2>2 DEF HeadersFed, EndFed
  <2> QED
    BY <2>1, <2>2
<1>3. ASSUME NEW t \in Threads PROVE Following(t, s)'
  <2>0. Following(t, s)
    BY DEF Finishing
  <2>1. CASE SameFrames(t)
    BY <1>2, <2>0, <2>1, FollowingStays
  <2>2. ASSUME NEW f \in Frame, FedFrame(t, f), f.stream # s PROVE Following(t, s)'
    <3>1. /\ HeadersFed(t, s)' <=> (HeadersFed(t, s) \/ (f.stream = s /\ f.kind = "HEADERS"))
          /\ EndFed(t, s)' <=> (EndFed(t, s) \/ (f.stream = s /\ f.end))
      BY <1>2, <2>2
    <3> QED
      BY <2>0, <2>2, <3>1, FollowingStays
  <2> QED
    BY <2>1, <2>2
<1> QED
  BY <1>1, <1>3 DEF Finishing

\* The stream of a frame that was fed.
LEMMA FedFinishing ==
    ASSUME TypeOK, MarksFollow, failures = 0, evictions' = 0, EndsHeaders = {TRUE},
           NEW t \in Threads, process_frame(t), NEW f \in Frame, f = batch[t][next[t]],
           FedFrame(t, f), \A u \in Threads \ {t} : SameFrames(u),
           ~Resetting(f.stream), Finishing(f.stream)
    PROVE  Finishing(f.stream)'
<1> DEFINE s == f.stream
           cur == streams[s]
           new == streams'[s]
<1>t. /\ "writer" \in Threads /\ "reader" \in Threads /\ Threads = {"writer", "reader"}
      /\ "writer" # "reader"
  BY DEF Threads
<1>f. /\ f.kind \in {"HEADERS", "CONTINUATION", "PUSH_PROMISE", "DATA", "RST_STREAM"}
      /\ f.kind = "HEADERS" => f.fin
      /\ f.kind = "DATA" => f.end
      /\ f.kind = "PUSH_PROMISE" => ~f.end
      /\ f.end \in BOOLEAN /\ s \in Streams
  BY FrameParts DEF Frame
<1>1. FrameEffect(t, f)
  <2>1. ResetFrame(f) \/ IgnoreFrame(t, f) \/ AcceptFrame(t, f)
    BY DEF process_frame
  <2> QED
    BY <2>1, FrameEffects
<1>2. peer' = peer
  BY DEF process_frame, peers
<1>3. cur \in Http2Stream /\ snapshots[s] \in 0 .. 3 /\ ~cur.is_blocked
      /\ (s \notin live => cur = NewStream)
  BY <1>f DEF TypeOK, MarksFollow
<1>4. /\ ~is_complete(cur) /\ snapshots[s] <= 2
      /\ s \in live /\ snapshots[s] > 0 => snapshots[s] = 1 /\ cur.resp_end_stream
      /\ \A u \in Threads : Following(u, s)
  BY DEF Finishing
<1>5. Left(t) \in Nat /\ Left(t) > 0 /\ Upcoming(t, 1) = f /\ 1 \in 1 .. Left(t)
  <2>1. Left(t) \in Nat /\ Left(t) > 0 /\ Upcoming(t, 1) = f
    BY UpcomingType DEF FedFrame
  <2> QED
    BY <2>1
\* A promise changes nothing of its stream.
<1>p. CASE f.kind = "PUSH_PROMISE"
  <2>1. (s \in live <=> s \in live') /\ streams'[s] = cur /\ snapshots'[s] = snapshots[s]
    BY <1>1, <1>f, <1>p DEF FrameEffect, FrameLeftOut, Taken, Becomes, HoldsHeaders
  <2>2. ASSUME NEW u \in Threads
        PROVE  (HeadersFed(u, s)' <=> HeadersFed(u, s)) /\ (EndFed(u, s)' <=> EndFed(u, s))
    <3>1. CASE s \in live
      BY <2>1, <3>1 DEF HeadersFed, EndFed
    <3>2. CASE s \notin live
      BY <2>1, <3>2 DEF HeadersFed, EndFed
    <3> QED
      BY <3>1, <3>2
  <2>3. ASSUME NEW u \in Threads PROVE Following(u, s)'
    <3>1. /\ Following(u, s) /\ peer'[u] = peer[u] /\ s \in Streams
          /\ HeadersFed(u, s)' <=> HeadersFed(u, s)
          /\ EndFed(u, s)' <=> EndFed(u, s)
      BY <1>2, <1>4, <1>f, <2>2
    <3>2. CASE u = t
      <4>1. /\ HeadersFed(u, s)' <=> (HeadersFed(u, s) \/ (f.stream = s /\ f.kind = "HEADERS"))
            /\ EndFed(u, s)' <=> (EndFed(u, s) \/ (f.stream = s /\ f.end))
        BY <1>f, <1>p, <3>1
      <4> QED
        BY <3>1, <3>2, <4>1, FollowingStays
    <3>3. CASE u # t
      BY <3>1, <3>3, FollowingStays
    <3> QED
      BY <3>2, <3>3
  <2>4. ~is_complete(streams'[s]) /\ snapshots'[s] <= 2
        /\ (s \in live' /\ snapshots'[s] > 0 => snapshots'[s] = 1 /\ streams'[s].resp_end_stream)
    BY <1>4, <2>1
  <2> QED
    BY <2>3, <2>4 DEF Finishing
<1> SUFFICES ASSUME f.kind # "PUSH_PROMISE" PROVE Finishing(f.stream)'
  BY <1>p
\* The end was not yet seen, and data follows headers.
<1>6. /\ ~EndFed(t, s)
      /\ f.kind \in {"HEADERS", "DATA"}
      /\ f.kind = "DATA" => HeadersFed(t, s)
  <2>1. \A j \in 1 .. Left(t) : ~(j < 1)
    OBVIOUS
  <2>2. Following(t, s) /\ Upcoming(t, 1).stream = s
    BY <1>4, <1>5
  <2>3. ~EndFed(t, s)
    BY <1>5, <2>2 DEF Following
  <2>4. f.kind \in {"HEADERS", "DATA"}
    BY <1>5, <2>2 DEF Following
  <2>5. f.kind = "DATA" => HeadersFed(t, s)
    BY <1>5, <2>1, <2>2 DEF Following
  <2> QED
    BY <2>3, <2>4, <2>5
<1>7. Taken(f) /\ (s \notin live => f.kind = "HEADERS" /\ snapshots[s] = 0)
  <2>1. s \notin live => ~(snapshots[s] > 0)
    BY <1>6 DEF EndFed
  <2>2. s \notin live => f.kind # "DATA"
    BY <1>6, <2>1 DEF HeadersFed
  <2> QED
    BY <1>3, <1>6, <2>1, <2>2 DEF Taken
<1>8. s \in live => /\ t = "writer" => ~cur.req_end_stream
                    /\ t = "reader" => ~cur.resp_end_stream /\ snapshots[s] = 0
                    /\ f.kind = "DATA" /\ t = "writer" => cur.req_headers_done
                    /\ f.kind = "DATA" /\ t = "reader" => cur.resp_headers_done
  <2>1. s \in live => /\ t = "writer" => ~cur.req_end_stream
                      /\ t = "reader" => ~cur.resp_end_stream
    BY <1>6, <1>t DEF EndFed
  <2>2. s \in live => /\ f.kind = "DATA" /\ t = "writer" => cur.req_headers_done
                      /\ f.kind = "DATA" /\ t = "reader" => cur.resp_headers_done
    BY <1>6, <1>t DEF HeadersFed
  <2>3. s \in live /\ t = "reader" => snapshots[s] = 0
    BY <1>3, <1>4, <2>1
  <2> QED
    BY <2>1, <2>2, <2>3
<1>n. /\ ~NewStream.req_headers_done /\ ~NewStream.req_end_stream
      /\ ~NewStream.resp_headers_done /\ ~NewStream.resp_end_stream
  BY DEF NewStream
\* The stream after the frame.
<1>9. \E st \in Http2Stream, stays \in BOOLEAN :
         /\ Becomes(s, st, stays)
         /\ ~stays <=> is_complete(st)
         /\ st.req_headers_done <=> cur.req_headers_done \/ (t = "writer" /\ f.kind = "HEADERS")
         /\ st.req_end_stream <=> cur.req_end_stream \/ (t = "writer" /\ f.end)
         /\ st.resp_headers_done <=> cur.resp_headers_done \/ (t = "reader" /\ f.kind = "HEADERS")
         /\ st.resp_end_stream <=> cur.resp_end_stream \/ (t = "reader" /\ f.end)
         /\ \/ snapshots'[s] = Bumped(snapshots[s]) /\ (stays => t = "reader" /\ f.end)
            \/ snapshots'[s] = snapshots[s] /\ stays /\ ~(t = "reader" /\ f.end /\ f.kind = "HEADERS")
  <2>1. CASE f.kind = "DATA"
    <3> DEFINE st == Ended(t, cur)
    <3>1. /\ Becomes(s, st, ~is_complete(st))
          /\ snapshots'[s] = IF is_complete(st) THEN Bumped(snapshots[s]) ELSE snapshots[s]
      BY <1>1, <1>3, <1>7, <2>1 DEF FrameEffect, FrameLeftOut, HoldsHeaders
    <3>2. /\ st \in Http2Stream
          /\ st.req_headers_done = cur.req_headers_done
          /\ st.resp_headers_done = cur.resp_headers_done
          /\ st.req_end_stream <=> cur.req_end_stream \/ t = "writer"
          /\ st.resp_end_stream <=> cur.resp_end_stream \/ t = "reader"
      BY <1>3 DEF Ended, Http2Stream
    <3>3. is_complete(st) \in BOOLEAN
      BY <3>2 DEF is_complete, Http2Stream
    <3> HIDE DEF st, s, cur
    <3> QED
      BY <1>f, <2>1, <3>1, <3>2, <3>3
  <2>2. CASE f.kind = "HEADERS"
    <3> DEFINE st == Decoded(t, f, cur)
               closes == Closes(t, f, st)
    <3>1. /\ Becomes(s, st, ~closes)
          /\ snapshots'[s] = IF closes \/ (t = "reader" /\ f.end)
                             THEN Bumped(snapshots[s]) ELSE snapshots[s]
      BY <1>1, <1>3, <1>7, <1>f, <2>2 DEF FrameEffect, FrameLeftOut, HoldsHeaders
    <3>2. /\ st \in Http2Stream
          /\ st.req_headers_done <=> cur.req_headers_done \/ t = "writer"
          /\ st.resp_headers_done <=> cur.resp_headers_done \/ t = "reader"
          /\ st.req_end_stream <=> cur.req_end_stream \/ (t = "writer" /\ f.end)
          /\ st.resp_end_stream <=> cur.resp_end_stream \/ (t = "reader" /\ f.end)
      BY <1>3, <1>t, <1>f DEF Decoded, Http2Stream
    <3>3. closes \in BOOLEAN
      BY DEF Closes
    <3>4. closes <=> is_complete(st)
      <4>1. is_complete(st) /\ t = "reader" => f.end
        BY <1>3, <1>7, <1>8, <1>n, <3>2 DEF is_complete
      <4> QED
        BY <1>t, <4>1 DEF Closes
    <3> HIDE DEF st, closes, s, cur
    <3> QED
      BY <1>f, <2>2, <3>1, <3>2, <3>3, <3>4
  <2> QED
    BY <1>6, <2>1, <2>2
<1>10. PICK st \in Http2Stream, stays \in BOOLEAN :
         /\ Becomes(s, st, stays)
         /\ ~stays <=> is_complete(st)
         /\ st.req_headers_done <=> cur.req_headers_done \/ (t = "writer" /\ f.kind = "HEADERS")
         /\ st.req_end_stream <=> cur.req_end_stream \/ (t = "writer" /\ f.end)
         /\ st.resp_headers_done <=> cur.resp_headers_done \/ (t = "reader" /\ f.kind = "HEADERS")
         /\ st.resp_end_stream <=> cur.resp_end_stream \/ (t = "reader" /\ f.end)
         /\ \/ snapshots'[s] = Bumped(snapshots[s]) /\ (stays => t = "reader" /\ f.end)
            \/ snapshots'[s] = snapshots[s] /\ stays /\ ~(t = "reader" /\ f.end /\ f.kind = "HEADERS")
  BY <1>9
<1> HIDE DEF s, cur
<1>11. /\ s \in live' <=> stays
       /\ streams'[s] = IF stays THEN st ELSE NewStream
  BY <1>10 DEF Becomes
<1>12. ~is_complete(streams'[s])
  BY <1>10, <1>11, <1>n DEF is_complete
<1>13. snapshots[s] <= 1 /\ (t = "reader" => snapshots[s] = 0)
  BY <1>3, <1>4, <1>7, <1>8
<1>14. /\ snapshots'[s] <= 2
       /\ ~stays => snapshots'[s] > 0
       /\ stays /\ snapshots'[s] > 0 => snapshots'[s] = 1 /\ st.resp_end_stream
  <2>1. snapshots[s] \in {0, 1}
    BY <1>3, <1>13
  <2>2. CASE snapshots'[s] = snapshots[s] /\ stays
    BY <1>4, <1>7, <1>10, <2>1, <2>2
  <2>3. CASE snapshots'[s] = Bumped(snapshots[s]) /\ (stays => t = "reader" /\ f.end)
    BY <1>10, <1>13, <2>1, <2>3 DEF Bumped
  <2> QED
    BY <1>10, <2>2, <2>3
<1>15. s \in live' /\ snapshots'[s] > 0 => snapshots'[s] = 1 /\ streams'[s].resp_end_stream
  BY <1>11, <1>14
<1>16. /\ HeadersFed("writer", s)' <=> HeadersFed("writer", s) \/ (t = "writer" /\ f.kind = "HEADERS")
       /\ EndFed("writer", s)' <=> EndFed("writer", s) \/ (t = "writer" /\ f.end)
       /\ HeadersFed("reader", s)' <=> HeadersFed("reader", s) \/ (t = "reader" /\ f.kind = "HEADERS")
       /\ EndFed("reader", s)' <=> EndFed("reader", s) \/ (t = "reader" /\ f.end)
  <2>1. /\ HeadersFed("writer", s) <=> cur.req_headers_done
        /\ EndFed("writer", s) <=> cur.req_end_stream
        /\ HeadersFed("reader", s) <=> cur.resp_headers_done
        /\ EndFed("reader", s) <=> cur.resp_end_stream
    <3>1. CASE s \in live
      BY <1>t, <3>1 DEF HeadersFed, EndFed, cur
    <3>2. CASE s \notin live
      <4>1. ~(snapshots[s] > 0) /\ cur = NewStream
        BY <1>3, <1>7, <3>2
      <4> QED
        BY <1>n, <3>2, <4>1 DEF HeadersFed, EndFed
    <3> QED
      BY <3>1, <3>2
  <2>2. /\ HeadersFed("writer", s)' <=> st.req_headers_done
        /\ EndFed("writer", s)' <=> st.req_end_stream
        /\ HeadersFed("reader", s)' <=> st.resp_headers_done
        /\ EndFed("reader", s)' <=> st.resp_end_stream
    <3>1. CASE stays
      BY <1>t, <1>11, <3>1 DEF HeadersFed, EndFed
    <3>2. CASE ~stays
      <4>1. snapshots'[s] > 0 /\ is_complete(st)
        BY <1>10, <1>14, <3>2
      <4> QED
        BY <1>11, <3>2, <4>1 DEF HeadersFed, EndFed, is_complete
    <3> QED
      BY <3>1, <3>2
  <2> QED
    BY <1>10, <2>1, <2>2
<1>17. ASSUME NEW u \in Threads PROVE Following(u, s)'
  <2>1. CASE u = t
    <3>1. /\ HeadersFed(t, s)' <=> (HeadersFed(t, s) \/ (f.stream = s /\ f.kind = "HEADERS"))
          /\ EndFed(t, s)' <=> (EndFed(t, s) \/ (f.stream = s /\ f.end))
      BY <1>t, <1>16 DEF s
    <3>2. Following(t, s) /\ peer'[t] = peer[t] /\ s \in Streams
      BY <1>2, <1>4, <1>f
    <3> QED
      BY <2>1, <3>1, <3>2, FollowingStays
  <2>2. CASE u # t
    <3>1. /\ HeadersFed(u, s)' <=> HeadersFed(u, s)
          /\ EndFed(u, s)' <=> EndFed(u, s)
      BY <1>t, <1>16, <1>17, <2>2
    <3>2. Following(u, s) /\ peer'[u] = peer[u] /\ s \in Streams /\ SameFrames(u)
      BY <1>2, <1>4, <1>f, <1>17, <2>2
    <3> QED
      BY <3>1, <3>2, FollowingStays
  <2> QED
    BY <2>1, <2>2
<1>18. Finishing(s)'
  <2>1. snapshots'[s] <= 2
    BY <1>14
  <2> QED
    BY <1>12, <1>15, <1>17, <2>1 DEF Finishing
<1> QED
  BY <1>18 DEF s

\* A stream of which a peer sent a frame.
LEMMA SentFinishing ==
    ASSUME TypeOK, EndsHeaders = {TRUE}, NEW s \in Streams, Finishing(s),
           NEW t \in Threads, NEW f \in Frame, Legal(t, f), AddedFrame(t, f),
           peer' = [peer EXCEPT ![t][f.stream] = Sent(t, f)],
           \A u \in Threads \ {t} : SameFrames(u), peer'[t][s] # "reset",
           UNCHANGED <<live, streams, snapshots>>
    PROVE  Finishing(s)'
<1>1. ASSUME NEW u \in Threads
      PROVE  (HeadersFed(u, s)' <=> HeadersFed(u, s)) /\ (EndFed(u, s)' <=> EndFed(u, s))
  BY DEF HeadersFed, EndFed
<1>2. ASSUME NEW u \in Threads PROVE Following(u, s)'
  <2>1. Following(u, s)
    BY DEF Finishing
  <2>2. CASE u = t
    BY <1>1, <2>1, <2>2, FollowingGrows
  <2>3. CASE u # t
    <3>1. peer'[u] = peer[u] /\ SameFrames(u)
      BY <1>2, <2>3 DEF TypeOK
    <3> QED
      BY <1>1, <2>1, <3>1, FollowingStays
  <2> QED
    BY <2>2, <2>3
<1> QED
  BY <1>2 DEF Finishing

\* Every step keeps the streams that are left alone on their way to a report.
LEMMA FinishHolds ==
    /\ TypeOK /\ LocalResets /\ ThreadsInStep /\ ReaderRests /\ MarksFollow /\ FinishInv
    /\ [Next]_vars
    => FinishInv'
<1> SUFFICES ASSUME TypeOK, LocalResets, ThreadsInStep, ReaderRests, MarksFollow, FinishInv,
                    [Next]_vars, evictions' = 0, failures' = 0, EndsHeaders = {TRUE},
                    NEW s \in Streams, LeftAlone(s)'
             PROVE  Finishing(s)'
  BY DEF FinishInv
<1>t. "writer" \in Threads /\ "reader" \in Threads /\ "writer" # "reader"
      /\ Threads = {"writer", "reader"}
  BY DEF Threads
<1>1. evictions = 0 /\ failures = 0 /\ LeftAlone(s)
  BY EvictionsCounted, FailuresCounted, LeftAloneBefore
<1>2. Finishing(s) /\ ~Resetting(s)
  BY <1>1 DEF FinishInv, LeftAlone
<1>3. \A t \in Threads : peer'[t][s] # "reset"
  BY DEF LeftAlone
<1>a. ASSUME UNCHANGED <<peer, live, snapshots>>,
             BeginRead \/ EndRead \/ orig_ssl_write \/ UNCHANGED <<batch, next, wireIn>>,
             /\ streams'[s].req_headers_done = streams[s].req_headers_done
             /\ streams'[s].req_end_stream = streams[s].req_end_stream
             /\ streams'[s].resp_headers_done = streams[s].resp_headers_done
             /\ streams'[s].resp_end_stream = streams[s].resp_end_stream
      PROVE  Finishing(s)'
  <2>1. \A t \in Threads : SameFrames(t)
    BY <1>a, CallsMove
  <2> QED
    BY <1>2, <1>a, <2>1, FinishingStays
<1>4. ASSUME NEW f \in Frame, Compose(f) PROVE Finishing(s)'
  <2>1. /\ Legal("writer", f) /\ UNCHANGED <<live, streams, snapshots>>
        /\ peer' = [peer EXCEPT !["writer"][f.stream] = Sent("writer", f)]
    BY <1>4 DEF Compose, table
  <2>2. AddedFrame("writer", f) /\ \A u \in Threads \ {"writer"} : SameFrames(u)
    BY <1>4, <1>t, ComposeAdds
  <2> QED
    BY <1>2, <1>3, <1>t, <2>1, <2>2, SentFinishing
<1>5. ASSUME NEW f \in Frame, Serve(f) PROVE Finishing(s)'
  <2>1. /\ Legal("reader", f) /\ UNCHANGED <<live, streams, snapshots>>
        /\ peer' = [peer EXCEPT !["reader"][f.stream] = Sent("reader", f)]
    BY <1>5 DEF Serve, table
  <2>2. AddedFrame("reader", f) /\ \A u \in Threads \ {"reader"} : SameFrames(u)
    BY <1>5, <1>t, ServeAdds
  <2> QED
    BY <1>2, <1>3, <1>t, <2>1, <2>2, SentFinishing
<1>6. ASSUME NEW t \in Threads, process_frame(t) PROVE Finishing(s)'
  <2>1. PICK f \in Frame : /\ f = batch[t][next[t]] /\ FedFrame(t, f)
                           /\ \A u \in Threads \ {t} : SameFrames(u)
    BY <1>6, FeedTakes
  <2>2. CASE f.stream = s
    BY <1>1, <1>2, <1>6, <2>1, <2>2, FedFinishing
  <2>3. CASE f.stream # s
    <3>1. ResetFrame(f) \/ IgnoreFrame(t, f) \/ AcceptFrame(t, f)
      BY <1>6, <2>1 DEF process_frame
    <3>2. (s \in live <=> s \in live') /\ streams'[s] = streams[s] /\ snapshots'[s] = snapshots[s]
      BY <2>3, <3>1, FrameEffects
    <3>3. peer' = peer
      BY <1>6 DEF process_frame, peers
    <3>4. \A u \in Threads : SameFrames(u) \/ (\E g \in Frame : FedFrame(u, g) /\ g.stream # s)
      BY <2>1, <2>3
    <3> QED
      BY <1>2, <3>2, <3>3, <3>4, FinishingStays
  <2> QED
    BY <2>2, <2>3
<1>7. ASSUME NEW t \in Threads, h2_block_stream(t) PROVE Finishing(s)'
  <2>1. UNCHANGED <<peer, live, snapshots, batch, next, wireIn>>
    BY <1>7 DEF h2_block_stream, peers, calls
  <2>2. /\ streams'[s].req_headers_done = streams[s].req_headers_done
        /\ streams'[s].req_end_stream = streams[s].req_end_stream
        /\ streams'[s].resp_headers_done = streams[s].resp_headers_done
        /\ streams'[s].resp_end_stream = streams[s].resp_end_stream
    BY <1>7 DEF h2_block_stream, TypeOK, Http2Stream
  <2> QED
    BY <1>a, <2>1, <2>2
<1>8. CASE BeginRead \/ EndRead \/ orig_ssl_write
  <2>1. UNCHANGED <<peer, live, snapshots, streams>>
    BY <1>8 DEF BeginRead, EndRead, orig_ssl_write, table, peers
  <2> QED
    BY <1>8, <1>a, <2>1
<1>9. CASE WriteRefused
  BY <1>1, <1>9 DEF WriteRefused, TypeOK
<1>10. CASE UNCHANGED <<peer, live, snapshots, streams, batch, next, wireIn>>
  BY <1>10, <1>a
<1> QED
  BY <1>4, <1>5, <1>6, <1>7, <1>8, <1>9, <1>10 DEF Next, vars, table, calls, peers,
     Peers, BeginWrite, Feed, TakeResults, Callback, EarlyVerdict, ReportVerdict,
     h2_enqueue_rst_stream, EnqueueReport, Write, h2_take_rst_frames, WriteResets

\* At rest nothing is still to come.
LEMMA NothingIsMissing ==
    TypeOK /\ ThreadsInStep /\ ReaderRests /\ FinishInv => FinishedIsReported
<1> SUFFICES ASSUME TypeOK, ReaderRests, FinishInv, AtRest, evictions = 0, failures = 0,
                    EndsHeaders = {TRUE}, NEW s \in Streams, ~Resetting(s),
                    \A t \in Threads : peer[t][s] \in {"closed", "trailed"}
             PROVE  s \notin live /\ snapshots[s] \in 1 .. 2
  BY DEF FinishedIsReported
<1>t. "writer" \in Threads /\ "reader" \in Threads /\ "writer" # "reader"
      /\ Threads = {"writer", "reader"}
  BY DEF Threads
<1>1. Finishing(s)
  BY DEF FinishInv, LeftAlone
<1>2. \A t \in Threads : Left(t) = 0
  BY <1>t DEF AtRest, ReaderRests, Left, Rest, TypeOK
<1>3. \A t \in Threads : HeadersFed(t, s) /\ EndFed(t, s)
  BY <1>1, <1>2 DEF Finishing, Following
<1>4. s \notin live
  BY <1>1, <1>3, <1>t DEF Finishing, HeadersFed, EndFed, is_complete
<1>5. snapshots[s] > 0 /\ snapshots[s] <= 2 /\ snapshots[s] \in 0 .. 3
  BY <1>1, <1>3, <1>4, <1>t DEF Finishing, HeadersFed, TypeOK
<1> QED
  BY <1>4, <1>5

----------------------------------------------------------------------------
(* The invariant and what follows from it.                                 *)

\* The invariants together; each needs some of those before it.
IInv ==
    /\ TypeOK
    /\ Holding
    /\ OnlyHeard
    /\ LocalResets
    /\ DenialIsNotLost
    /\ ThreadsInStep
    /\ VerdictsInTime
    /\ ResetsShow
    /\ DenialsHold
    /\ ReaderRests
    /\ MarksFollow
    /\ BlocksWhole
    /\ FinishInv

\* They hold before the first frame.
LEMMA InitHolds == Init => IInv
<1> SUFFICES ASSUME Init PROVE IInv
  OBVIOUS
<1>t. "writer" \in Threads /\ "reader" \in Threads
  BY DEF Threads
<1>n. /\ NewStream \in Http2Stream /\ ~NewStream.req_headers_done /\ ~NewStream.resp_headers_done
      /\ ~NewStream.is_blocked
  BY NewStreamType DEF NewStream
<1>e. \A i \in 1 .. 0 : FALSE
  OBVIOUS
<1>1. TypeOK /\ Holding
  <2>1. \A i \in 1 .. Len(batch["writer"]) : FALSE
    BY <1>t DEF Init
  <2>2. \A s \in Streams : peer["writer"][s] = "idle"
    BY <1>t DEF Init
  <2>3. /\ \A s \in Streams : peer["writer"][s] \notin {"promising", "promisingOpen"}
        /\ \A i \in 1 .. Len(batch["writer"]) : batch["writer"][i].kind # "PUSH_PROMISE"
    BY <2>1, <2>2
  <2>4. peer \in [Threads -> [Streams -> PeerState]]
    BY DEF Init, PeerState
  <2>7. /\ batch \in [Threads -> Seq(Frame)] /\ next \in [Threads -> Nat \ {0}]
        /\ wireIn \in Seq(Frame) /\ promises \in Nat /\ evictions \in Nat /\ failures \in Nat
    BY DEF Init
  <2>8. /\ live \subseteq Streams /\ streams \in [Streams -> Http2Stream]
        /\ \A s \in Streams \ live : streams[s] = NewStream
        /\ verdict \in [Streams -> {"none", "pass", "block"}] /\ snapshots \in [Streams -> 0 .. 3]
        /\ inStep \in [Threads -> BOOLEAN] /\ alive \in BOOLEAN
    BY <1>n DEF Init
  <2>9. /\ early_checks \in Seq(Streams) /\ completed \in Seq(Streams)
        /\ checks \in [Threads -> Seq(Streams)] /\ reports \in [Threads -> Seq(Streams)]
        /\ newly_blocked \in [Threads -> SUBSET Streams]
    BY DEF Init
  <2>10. /\ pc \in [Threads -> {"idle", "feed", "check", "enqueue", "mark", "enqueueReport",
                                 "write", "writeRst"}]
         /\ pending_rst \subseteq Streams /\ local_rst \subseteq Streams
         /\ onWire \subseteq Streams /\ resetSent \subseteq Streams
    BY DEF Init
  <2>5. TypeOK
    BY <2>3, <2>4, <2>7, <2>8, <2>9, <2>10 DEF TypeOK
  <2>6. Holding
    BY DEF Init, Holding
  <2> QED
    BY <2>5, <2>6
<1>2. OnlyHeard
  BY <1>t, <1>n, <1>e DEF Init, OnlyHeard, OnlyAbout, AnswersOnly, ResetAfterHeaders, Heard
<1>3. LocalResets /\ DenialIsNotLost
  BY <1>t DEF Init, LocalResets, DenialIsNotLost
<1>4. ThreadsInStep /\ ResetsShow
  BY <1>t, <1>n, <1>e DEF Init, ThreadsInStep, ResetsShow
<1>5. \A s \in Streams : FirstBlockAhead(s)
  BY <1>t, <1>e DEF Init, FirstBlockAhead, InBlock
<1>6. VerdictsInTime
  BY <1>n, <1>5 DEF Init, VerdictsInTime
<1>7. \A s \in Streams : ~Checked(s) /\ verdict[s] = "none" /\ snapshots[s] = 0
                         /\ \A i \in 1 .. Len(batch["writer"]) : FALSE
  BY <1>t, <1>e, MembersNone DEF Init, Checked, Asked
<1>8. DenialsHold
  BY <1>7 DEF Init, DenialsHold
<1>9. ReaderRests /\ MarksFollow
  BY <1>t, <1>n DEF Init, ReaderRests, MarksFollow
<1>10. \A t \in Threads : Left(t) = 0 /\ Mid(t) = {}
  BY <1>t, <1>n DEF Init, Left, Rest, Mid, NewStream
<1>11. BlocksWhole
  <2>1. \A t \in Threads : BlocksInOrder(t) /\ inStep[t]
    BY <1>10 DEF Init, BlocksInOrder, OpenAfter, InBlock
  <2>2. BlocksKept
    BY <1>10, <1>t, <1>n DEF Init, BlocksKept, NewStream
  <2>3. RequestsAhead
    BY <1>t, <1>e DEF Init, RequestsAhead
  <2>4. EndsLast
    BY <1>10, <1>t, <1>e DEF Init, EndsLast, LastIsLast, NewStream
  <2> QED
    BY <2>1, <2>2, <2>3, <2>4 DEF BlocksWhole, WholeSoFar
<1>12. FinishInv
  <2>1. ASSUME NEW s \in Streams, NEW t \in Threads PROVE Following(t, s)
    <3>1. ~HeadersFed(t, s) /\ ~EndFed(t, s)
      BY DEF Init, HeadersFed, EndFed
    <3> QED
      BY <1>10, <1>e, <3>1 DEF Init, Following, InBlock
  <2> QED
    BY <1>n, <2>1 DEF Init, FinishInv, Finishing, is_complete
<1> QED
  BY <1>1, <1>2, <1>3, <1>4, <1>6, <1>8, <1>9, <1>11, <1>12 DEF IInv

\* The invariant is inductive: whatever the two threads, the peers, the verdicts and SSL do.
THEOREM Invariant == Spec => []IInv
<1>1. IInv /\ [Next]_vars => IInv'
  BY TypesHold, HeardHolds, LocalResetsHold, DenialHolds, StepHolds, VerdictsInTimeHold,
     ResetsShowHold, DenialsHoldOn, ReaderRestsHolds, MarksFollowHolds, BlocksWholeHolds,
     FinishHolds DEF IInv
<1> QED
  BY InitHolds, <1>1, PTL DEF Spec

\* The parser, the threads and the peers keep to their types; a stream outside the table is a
\* fresh one.
THEOREM TypeCorrect == Spec => []TypeOK
<1>1. IInv => TypeOK
  BY DEF IInv
<1> QED
  BY Invariant, <1>1, PTL

\* The hook resets no stream whose request headers have not gone out.
THEOREM ResetsFollowHeaders == Spec => []ResetAfterHeaders
<1>1. IInv => ResetAfterHeaders
  BY DEF IInv, OnlyHeard
<1> QED
  BY Invariant, <1>1, PTL

\* While SSL takes what it is given, every denied request is being reset or was.
THEOREM NoDenialIsLost == Spec => []DenialIsNotLost
<1>1. IInv => DenialIsNotLost
  BY DEF IInv
<1> QED
  BY Invariant, <1>1, PTL

\* Without evictions, response headers are parsed only where the request has its verdict.
THEOREM VerdictsComeFirst == Spec => []VerdictBeforeResponse
<1>1. IInv => VerdictBeforeResponse
  BY DEF IInv, TypeOK, VerdictsInTime, VerdictBeforeResponse
<1> QED
  BY Invariant, <1>1, PTL

\* Without evictions, trailers of the application and resets by a peer, the exchange of a denied
\* request is never reported.
THEOREM DeniedStaysUnreported == Spec => []DeniedIsNotReported
<1>1. IInv => DeniedIsNotReported
  BY DEF IInv, DenialsHold, Denied, Clean, DeniedIsNotReported
<1> QED
  BY Invariant, <1>1, PTL

\* While nothing is evicted, refused, denied or reset, the server promises no stream (the parser
\* skips the block of a PUSH_PROMISE) and the application sends no trailers, both inflaters see
\* every header block, and see it whole, for any interleaving of the two threads.
THEOREM InflatersStayInStep == Spec => []InflatersInStep
<1>1. IInv => InflatersInStep
  BY DEF IInv, BlocksWhole, Undisturbed, WholeSoFar, InflatersInStep
<1> QED
  BY Invariant, <1>1, PTL

\* When header blocks come in one frame: whatever the order of the two ends, at rest an exchange
\* that both peers have ended was reported and has left the table, unless it is being reset.
THEOREM FinishedAreReported == Spec => []FinishedIsReported
<1>1. IInv => FinishedIsReported
  BY NothingIsMissing DEF IInv
<1> QED
  BY Invariant, <1>1, PTL
=============================================================================
