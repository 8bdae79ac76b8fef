------------------------------ MODULE Http2Conn ------------------------------
(***************************************************************************)
(* One HTTP/2 connection as the native hook watches it (http2_parser.cpp,  *)
(* native_hook.cpp).  The thread that calls SSL_write and the thread that  *)
(* calls SSL_read feed the frames of their direction to one shared stream  *)
(* table, take whatever results are waiting there, ask the Kotlin side for *)
(* a verdict on each, and queue RST_STREAM frames for blocked streams; the *)
(* writer sends the queued frames after the application's own bytes.       *)
(*                                                                         *)
(* The unit is the frame: it is fed whole.  DATA is modelled where it ends *)
(* a stream; bodies are not.  A server may announce pushed streams         *)
(* (PUSH_PROMISE); what it sends on them is not modelled.  The connection  *)
(* is known to be HTTP/2 and stays registered.  The application, the       *)
(* server and SSL are external.                                            *)
(***************************************************************************)
EXTENDS Integers, Sequences, FiniteSets, SequencesExt

CONSTANTS
    Streams,        \* stream ids, all opened by the application
    Kinds,          \* bound: the kinds of frames the peers send
    EndsHeaders,    \* values of END_HEADERS on HEADERS and PUSH_PROMISE frames
    MaxBatch,       \* bound: frames of one SSL_write
    MaxFlight,      \* bound: frames in flight to the reader, which one SSL_read returns
    MaxOddities     \* bound: PUSH_PROMISE frames, runs of evict_completed_streams that
                    \*   remove a stream and writes that SSL refuses, together

ASSUME Http2Assumption ==
    /\ Kinds \subseteq {"HEADERS", "CONTINUATION", "PUSH_PROMISE", "DATA", "RST_STREAM"}
    /\ EndsHeaders \subseteq BOOLEAN
    /\ MaxBatch \in Nat \ {0}
    /\ MaxFlight \in Nat \ {0}
    /\ MaxOddities \in Nat

Threads == {"writer", "reader"}     \* a thread stands for its direction as well

Frame ==
    {f \in      [kind : {"HEADERS"}, stream : Streams, end : BOOLEAN, fin : EndsHeaders]
           \cup [kind : {"CONTINUATION"}, stream : Streams, end : {FALSE}, fin : {TRUE}]
           \cup [kind : {"PUSH_PROMISE"}, stream : Streams, end : {FALSE}, fin : EndsHeaders]
           \cup [kind : {"DATA"}, stream : Streams, end : {TRUE}, fin : {FALSE}]
           \cup [kind : {"RST_STREAM"}, stream : Streams, end : {FALSE}, fin : {FALSE}] :
        f.kind \in Kinds}

\* The header fragments of a stream that wait for END_HEADERS.
Fragment == Threads \X {"HEADERS", "CONTINUATION"}

Http2Stream ==
    [is_blocked : BOOLEAN, req_headers_done : BOOLEAN, req_end_stream : BOOLEAN,
     resp_headers_done : BOOLEAN, resp_end_stream : BOOLEAN,
     pending_header_block : SUBSET Fragment]

NewStream ==
    [is_blocked |-> FALSE, req_headers_done |-> FALSE, req_end_stream |-> FALSE,
     resp_headers_done |-> FALSE, resp_end_stream |-> FALSE, pending_header_block |-> {}]

\* What a peer has sent on a stream.
PeerState ==
    {"idle", "split", "splitEnd", "open", "closed", "splitTrailers", "trailed", "reset",
     "promising", "promisingOpen"}

VARIABLES
    (* shared, under streams_mutex *)
    live,               \* the streams in the table
    streams,            \* [Streams -> Http2Stream]; NewStream for the others
    early_checks,       \* streams whose request headers wait for a verdict
    completed,          \* streams whose exchange waits to be reported
    pending_rst,        \* pending_rst_frames
    (* per thread *)
    pc,
    checks,             \* [Threads -> Seq(Streams)] early checks it took
    reports,            \* [Threads -> Seq(Streams)] completed exchanges it took
    newly_blocked,      \* [Threads -> SUBSET Streams]
    batch,              \* [Threads -> Seq(Frame)] the bytes of the call
    next,               \* [Threads -> Nat] the frame of the batch to feed
    local_rst,          \* the RST frames the writer took
    (* the peers and the wire *)
    peer,               \* [Threads -> [Streams -> PeerState]] the application, the server
    wireIn,             \* frames on their way to the reader
    onWire,             \* streams whose request headers went out
    resetSent,          \* streams for which the hook sent RST_STREAM
    promises,           \* PUSH_PROMISE frames the server has sent
    (* history *)
    verdict,            \* [Streams -> "none", "pass" or "block"] the first verdict
    snapshots,          \* [Streams -> 0..3] completed exchanges, at most 3 counted
    inStep,             \* [Threads -> BOOLEAN] the inflater saw every header block, and whole
    evictions,
    failures,           \* writes that SSL refused
    alive               \* FALSE: the process went down

table == <<live, streams, early_checks, completed, snapshots, inStep, evictions, alive>>
results == <<checks, reports, newly_blocked>>
calls == <<batch, next>>
peers == <<peer, wireIn, onWire, resetSent, promises>>
vars == <<table, pending_rst, pc, results, calls, local_rst, peers, verdict, failures>>

Oddities == promises + evictions + failures

Init ==
    /\ live = {}
    /\ streams = [s \in Streams |-> NewStream]
    /\ early_checks = <<>>
    /\ completed = <<>>
    /\ pending_rst = {}
    /\ pc = [t \in Threads |-> "idle"]
    /\ checks = [t \in Threads |-> <<>>]
    /\ reports = [t \in Threads |-> <<>>]
    /\ newly_blocked = [t \in Threads |-> {}]
    /\ batch = [t \in Threads |-> <<>>]
    /\ next = [t \in Threads |-> 1]
    /\ local_rst = {}
    /\ peer = [t \in Threads |-> [s \in Streams |-> "idle"]]
    /\ wireIn = <<>>
    /\ onWire = {}
    /\ resetSent = {}
    /\ promises = 0
    /\ verdict = [s \in Streams |-> "none"]
    /\ snapshots = [s \in Streams |-> 0]
    /\ inStep = [t \in Threads |-> TRUE]
    /\ evictions = 0
    /\ failures = 0
    /\ alive = TRUE

----------------------------------------------------------------------------
(* The peers: which frames the application and the server may send *)

InBlock(t, s) == peer[t][s] \in {"split", "splitEnd", "splitTrailers", "promising", "promisingOpen"}

Legal(t, f) ==
    /\ \A s \in Streams : InBlock(t, s) => s = f.stream /\ f.kind = "CONTINUATION"
    /\ CASE f.kind = "HEADERS" -> \/ peer[t][f.stream] = "idle"
                                  \/ peer[t][f.stream] = "open" /\ f.end
         [] f.kind = "CONTINUATION" -> InBlock(t, f.stream)
         [] f.kind = "PUSH_PROMISE" -> t = "reader" /\ peer[t][f.stream] \in {"idle", "open"}
         [] f.kind = "DATA" -> peer[t][f.stream] = "open"
         [] f.kind = "RST_STREAM" -> peer[t][f.stream] \in {"open", "closed", "trailed"}

\* A second HEADERS frame of a stream holds trailers and ends the stream.
Sent(t, f) ==
    LET was == peer[t][f.stream]
    IN  CASE f.kind = "HEADERS" /\ was = "open" -> IF f.fin THEN "trailed" ELSE "splitTrailers"
          [] f.kind = "HEADERS" /\ was # "open" ->
                IF f.fin THEN (IF f.end THEN "closed" ELSE "open")
                         ELSE (IF f.end THEN "splitEnd" ELSE "split")
          [] f.kind = "PUSH_PROMISE" -> IF f.fin THEN was
                                        ELSE IF was = "idle" THEN "promising" ELSE "promisingOpen"
          [] f.kind = "CONTINUATION" -> CASE was \in {"split", "promisingOpen"} -> "open"
                                          [] was = "splitEnd" -> "closed"
                                          [] was = "promising" -> "idle"
                                          [] OTHER -> "trailed"
          [] f.kind = "DATA" -> "closed"
          [] f.kind = "RST_STREAM" -> "reset"

\* The application puts a frame into the buffer of its next SSL_write.
Compose(f) ==
    /\ alive
    /\ pc["writer"] = "idle"
    /\ Len(batch["writer"]) < MaxBatch
    /\ Legal("writer", f)
    /\ batch' = [batch EXCEPT !["writer"] = Append(@, f)]
    /\ peer' = [peer EXCEPT !["writer"][f.stream] = Sent("writer", f)]
    /\ UNCHANGED <<table, pending_rst, pc, results, next, local_rst, wireIn, onWire,
                   resetSent, promises, verdict, failures>>

\* The server sends a frame on a stream whose request it has seen.
Serve(f) ==
    /\ alive
    /\ f.stream \in onWire
    /\ Len(wireIn) < MaxFlight
    /\ Legal("reader", f)
    /\ wireIn' = Append(wireIn, f)
    /\ peer' = [peer EXCEPT !["reader"][f.stream] = Sent("reader", f)]
    /\ promises' = IF f.kind = "PUSH_PROMISE" THEN promises + 1 ELSE promises
    /\ f.kind = "PUSH_PROMISE" => Oddities < MaxOddities
    /\ UNCHANGED <<table, pending_rst, pc, results, calls, local_rst, onWire, resetSent,
                   verdict, failures>>

----------------------------------------------------------------------------
(* h2_feed *)

Step(t, from, to) ==
    /\ alive
    /\ pc[t] = from
    /\ pc' = [pc EXCEPT ![t] = to]

BeginWrite ==
    /\ Step("writer", "idle", "feed")
    /\ batch["writer"] # <<>>
    /\ UNCHANGED <<table, pending_rst, results, calls, local_rst, peers, verdict, failures>>

\* The original SSL_read has returned what was in flight.
BeginRead ==
    /\ Step("reader", "idle", "feed")
    /\ wireIn # <<>>
    /\ batch' = [batch EXCEPT !["reader"] = wireIn]
    /\ next' = [next EXCEPT !["reader"] = 1]
    /\ wireIn' = <<>>
    /\ UNCHANGED <<table, pending_rst, results, local_rst, peer, onWire, resetSent, promises,
                   verdict, failures>>

is_complete(st) ==
    st.req_headers_done /\ st.req_end_stream /\ st.resp_headers_done /\ st.resp_end_stream

HoldsHeaders(f) == f.kind \in {"HEADERS", "CONTINUATION"}
HoldsBlock(f) == HoldsHeaders(f) \/ f.kind = "PUSH_PROMISE"

snapshot_stream(s) ==
    /\ completed' = Append(completed, s)
    /\ snapshots' = [snapshots EXCEPT ![s] = IF @ < 3 THEN @ + 1 ELSE @]

\* Stream s leaves the table or stays in it as st; the streams of gone leave it.
Keep(s, st, stays, gone) ==
    /\ live' = IF stays THEN (live \ gone) \cup {s} ELSE live \ (gone \cup {s})
    /\ streams' = [x \in Streams |-> IF x = s /\ stays THEN st
                                     ELSE IF x \in gone \cup {s} THEN NewStream
                                     ELSE streams[x]]

\* Frames the parser has no use for.  An ignored header block never reaches
\* the inflater.
IgnoreFrame(t, f) ==
    /\ f.kind # "RST_STREAM"
    /\ IF f.stream \in live THEN streams[f.stream].is_blocked ELSE f.kind # "HEADERS"
    /\ inStep' = [inStep EXCEPT ![t] = @ /\ ~HoldsBlock(f)]
    /\ UNCHANGED <<live, streams, early_checks, completed, snapshots, evictions, alive>>

ResetFrame(f) ==
    /\ f.kind = "RST_STREAM"
    /\ Keep(f.stream, NewStream, FALSE, {})
    /\ UNCHANGED <<early_checks, completed, snapshots, inStep, evictions, alive>>

\* The streams evict_completed_streams removes: none when it does not run, the
\* idle ones (and, in a full table, any) when it does.  The stream of the frame
\* may be among them and then starts afresh.
Evicted(gone) ==
    /\ gone \subseteq live
    /\ gone # {} => Oddities < MaxOddities
    /\ evictions' = IF gone = {} THEN evictions ELSE evictions + 1

Current(s, gone) == IF s \in live \ gone THEN streams[s] ELSE NewStream

\* DATA with END_STREAM
DataFrame_Unreported(t, f, gone) ==
    LET st == [Current(f.stream, gone) EXCEPT
                  !.req_end_stream = @ \/ t = "writer",
                  !.resp_end_stream = @ \/ t = "reader"]
    IN  /\ Keep(f.stream, st, TRUE, gone)
        /\ UNCHANGED <<completed, snapshots, early_checks, inStep, alive>>

DataFrame(t, f, gone) ==
    LET st == [Current(f.stream, gone) EXCEPT
                  !.req_end_stream = @ \/ t = "writer",
                  !.resp_end_stream = @ \/ t = "reader"]
    IN  /\ Keep(f.stream, st, ~is_complete(st), gone)
        /\ IF is_complete(st) THEN snapshot_stream(f.stream)
           ELSE UNCHANGED <<completed, snapshots>>
        /\ UNCHANGED <<early_checks, inStep, alive>>

\* HEADERS without END_HEADERS: END_STREAM is not looked at.
OpenBlock(t, f, gone) ==
    LET st == [Current(f.stream, gone) EXCEPT !.pending_header_block = @ \cup {<<t, f.kind>>}]
    IN  /\ Keep(f.stream, st, TRUE, gone)
        /\ UNCHANGED <<early_checks, completed, snapshots, inStep, alive>>

\* Mutant: the block is not cleared.
Decoded_KeepsBlock(t, f, cur) ==
    IF t = "writer"
    THEN [cur EXCEPT !.req_headers_done = TRUE, !.req_end_stream = @ \/ f.end]
    ELSE [cur EXCEPT !.resp_headers_done = TRUE, !.resp_end_stream = @ \/ f.end]

\* The stream cur after its pending block and the last fragment f were decoded.
Decoded(t, f, cur) ==
    IF t = "writer"
    THEN [cur EXCEPT !.req_headers_done = TRUE, !.req_end_stream = @ \/ f.end,
                     !.pending_header_block = {}]
    ELSE [cur EXCEPT !.resp_headers_done = TRUE, !.resp_end_stream = @ \/ f.end,
                     !.pending_header_block = {}]

\* HEADERS or CONTINUATION with END_HEADERS.  The block goes to the inflater of
\* the direction.  An erased stream is still written to (pending_header_block
\* is cleared after the erasure): that does no harm, or the process goes down.
CloseBlock(t, f, gone) ==
    LET cur == Current(f.stream, gone)
        block == cur.pending_header_block \cup {<<t, f.kind>>}
        st == Decoded(t, f, cur)
        erased == is_complete(st) /\ (t = "writer" \/ f.end)
    IN  /\ Keep(f.stream, st, ~erased, gone)
        /\ early_checks' = IF t = "writer" THEN Append(early_checks, f.stream) ELSE early_checks
        /\ IF erased \/ (t = "reader" /\ f.end) THEN snapshot_stream(f.stream)
           ELSE UNCHANGED <<completed, snapshots>>
        /\ inStep' = [inStep EXCEPT ![t] = @ /\ block = {t} \X {"HEADERS", f.kind}]
        /\ alive' \in (IF erased THEN BOOLEAN ELSE {TRUE})

\* A PUSH_PROMISE gets as far as the stream, and no further: its block is not inflated.
PromiseFrame(t, f, gone) ==
    /\ Keep(f.stream, Current(f.stream, gone), TRUE, gone)
    /\ inStep' = [inStep EXCEPT ![t] = FALSE]
    /\ UNCHANGED <<early_checks, completed, snapshots, alive>>

AcceptFrame(t, f) ==
    /\ f.kind # "RST_STREAM"
    /\ IF f.stream \in live THEN ~streams[f.stream].is_blocked ELSE f.kind = "HEADERS"
    /\ \E gone \in SUBSET live :
          /\ Evicted(gone)
          /\ \/ f.kind = "DATA" /\ DataFrame(t, f, gone)
             \/ f.kind = "PUSH_PROMISE" /\ PromiseFrame(t, f, gone)
             \/ HoldsHeaders(f) /\ ~f.fin /\ OpenBlock(t, f, gone)
             \/ HoldsHeaders(f) /\ f.fin /\ CloseBlock(t, f, gone)

\* One turn of the frame loop, under streams_mutex.
process_frame(t) ==
    /\ Step(t, "feed", "feed")
    /\ next[t] <= Len(batch[t])
    /\ LET f == batch[t][next[t]]
       IN  ResetFrame(f) \/ IgnoreFrame(t, f) \/ AcceptFrame(t, f)
    /\ next' = [next EXCEPT ![t] = @ + 1]
    /\ UNCHANGED <<pending_rst, results, batch, local_rst, peers, verdict, failures>>

\* Mutant: one early check is taken at a time.
TakeResults_OneCheck(t) ==
    /\ Step(t, "feed", "check")
    /\ next[t] > Len(batch[t])
    /\ checks' = [checks EXCEPT ![t] = IF early_checks = <<>> THEN <<>> ELSE <<Head(early_checks)>>]
    /\ reports' = [reports EXCEPT ![t] = completed]
    /\ newly_blocked' = [newly_blocked EXCEPT ![t] = {}]
    /\ early_checks' = IF early_checks = <<>> THEN <<>> ELSE Tail(early_checks)
    /\ completed' = <<>>
    /\ UNCHANGED <<live, streams, snapshots, inStep, evictions, alive, pending_rst, calls,
                   local_rst, peers, verdict, failures>>

\* The results waiting in the connection, from either direction, are moved out.
TakeResults(t) ==
    /\ Step(t, "feed", "check")
    /\ next[t] > Len(batch[t])
    /\ checks' = [checks EXCEPT ![t] = early_checks]
    /\ reports' = [reports EXCEPT ![t] = completed]
    /\ newly_blocked' = [newly_blocked EXCEPT ![t] = {}]
    /\ early_checks' = <<>>
    /\ completed' = <<>>
    /\ UNCHANGED <<live, streams, snapshots, inStep, evictions, alive, pending_rst, calls,
                   local_rst, peers, verdict, failures>>

----------------------------------------------------------------------------
(* callback_kotlin_h2 *)

EnqueueReset(s) == pending_rst' = pending_rst \cup {s}

\* onH2Request for the request headers
EarlyVerdict(t, blocked) ==
    /\ checks[t] # <<>>
    /\ LET s == Head(checks[t])
       IN  /\ verdict' = [verdict EXCEPT ![s] = IF @ # "none" THEN @
                                                ELSE IF blocked THEN "block" ELSE "pass"]
           /\ newly_blocked' = [newly_blocked EXCEPT ![t] = IF blocked THEN @ \cup {s} ELSE @]
    /\ IF blocked
       THEN Step(t, "check", "enqueue") /\ UNCHANGED checks
       ELSE Step(t, "check", "check") /\ checks' = [checks EXCEPT ![t] = Tail(@)]
    /\ UNCHANGED <<table, pending_rst, reports, calls, local_rst, peers, failures>>

h2_enqueue_rst_stream(t) ==
    /\ Step(t, "enqueue", "mark")
    /\ EnqueueReset(Head(checks[t]))
    /\ UNCHANGED <<table, results, calls, local_rst, peers, verdict, failures>>

\* Mutant: the stream is not marked.
h2_block_stream_Skipped(t) ==
    /\ Step(t, "mark", "check")
    /\ checks' = [checks EXCEPT ![t] = Tail(@)]
    /\ UNCHANGED <<table, pending_rst, reports, newly_blocked, calls, local_rst, peers,
                   verdict, failures>>

\* A stream that has left the table in the meantime is not marked.
h2_block_stream(t) ==
    /\ Step(t, "mark", "check")
    /\ LET s == Head(checks[t])
       IN  streams' = IF s \in live THEN [streams EXCEPT ![s].is_blocked = TRUE] ELSE streams
    /\ checks' = [checks EXCEPT ![t] = Tail(@)]
    /\ UNCHANGED <<live, early_checks, completed, snapshots, inStep, evictions, alive,
                   pending_rst, reports, newly_blocked, calls, local_rst, peers, verdict,
                   failures>>

\* onH2Request for a completed exchange, skipped when this callback blocked it
ReportVerdict(t, blocked) ==
    /\ checks[t] = <<>>
    /\ reports[t] # <<>>
    /\ LET s == Head(reports[t])
           asked == s \notin newly_blocked[t]
       IN  IF asked /\ blocked THEN Step(t, "check", "enqueueReport") /\ UNCHANGED reports
           ELSE Step(t, "check", "check") /\ reports' = [reports EXCEPT ![t] = Tail(@)]
    /\ UNCHANGED <<table, pending_rst, checks, newly_blocked, calls, local_rst, peers, verdict,
                   failures>>

EnqueueReport(t) ==
    /\ Step(t, "enqueueReport", "check")
    /\ EnqueueReset(Head(reports[t]))
    /\ reports' = [reports EXCEPT ![t] = Tail(@)]
    /\ UNCHANGED <<table, checks, newly_blocked, calls, local_rst, peers, verdict, failures>>

EndRead ==
    /\ Step("reader", "check", "idle")
    /\ checks["reader"] = <<>> /\ reports["reader"] = <<>>
    /\ batch' = [batch EXCEPT !["reader"] = <<>>]
    /\ UNCHANGED <<table, pending_rst, results, next, local_rst, peers, verdict, failures>>

----------------------------------------------------------------------------
(* hook_SSL_write, after the callback *)

\* Mutant: the RST frames go out before the application's bytes.
h2_take_rst_frames_First ==
    /\ Step("writer", "check", "write")
    /\ checks["writer"] = <<>> /\ reports["writer"] = <<>>
    /\ resetSent' = resetSent \cup pending_rst
    /\ local_rst' = {}
    /\ pending_rst' = {}
    /\ UNCHANGED <<table, results, calls, peer, wireIn, onWire, promises, verdict, failures>>

h2_take_rst_frames ==
    /\ Step("writer", "check", "write")
    /\ checks["writer"] = <<>> /\ reports["writer"] = <<>>
    /\ local_rst' = pending_rst
    /\ pending_rst' = {}
    /\ UNCHANGED <<table, results, calls, peers, verdict, failures>>

\* Mutant: a successful write forgets the RST frames.
orig_ssl_write_Forgets ==
    /\ Step("writer", "write", "idle")
    /\ onWire' = onWire \cup {f.stream : f \in {g \in ToSet(batch["writer"]) : g.fin}}
    /\ batch' = [batch EXCEPT !["writer"] = <<>>]
    /\ next' = [next EXCEPT !["writer"] = 1]
    /\ local_rst' = {}
    /\ UNCHANGED <<table, pending_rst, results, peer, wireIn, resetSent, promises, verdict,
                   failures>>

orig_ssl_write ==
    /\ Step("writer", "write", "writeRst")
    /\ onWire' = onWire \cup {f.stream : f \in {g \in ToSet(batch["writer"]) : g.fin}}
    /\ batch' = [batch EXCEPT !["writer"] = <<>>]
    /\ next' = [next EXCEPT !["writer"] = 1]
    /\ UNCHANGED <<table, pending_rst, results, local_rst, peer, wireIn, resetSent, promises,
                   verdict, failures>>

\* SSL takes nothing: the RST frames are lost with the call, and the application
\* repeats it with the same bytes, which are fed again.
WriteRefused ==
    /\ Step("writer", "write", "feed")
    /\ Oddities < MaxOddities
    /\ failures' = failures + 1
    /\ next' = [next EXCEPT !["writer"] = 1]
    /\ local_rst' = {}
    /\ UNCHANGED <<table, pending_rst, results, batch, peers, verdict>>

\* The results of these writes are not looked at.
WriteResets(refused) ==
    /\ Step("writer", "writeRst", "idle")
    /\ refused => Oddities < MaxOddities /\ local_rst # {}
    /\ failures' = IF refused THEN failures + 1 ELSE failures
    /\ resetSent' = IF refused THEN resetSent ELSE resetSent \cup local_rst
    /\ local_rst' = {}
    /\ UNCHANGED <<table, pending_rst, results, calls, peer, wireIn, onWire, promises, verdict>>

----------------------------------------------------------------------------
Peers == \E f \in Frame : Compose(f) \/ Serve(f)

Feed(t) == process_frame(t) \/ TakeResults(t)

Callback(t) ==
    \/ \E blocked \in BOOLEAN : EarlyVerdict(t, blocked) \/ ReportVerdict(t, blocked)
    \/ h2_enqueue_rst_stream(t) \/ h2_block_stream(t) \/ EnqueueReport(t)

Write ==
    \/ h2_take_rst_frames \/ orig_ssl_write \/ WriteRefused
    \/ \E refused \in BOOLEAN : WriteResets(refused)

Next ==
    \/ Peers
    \/ BeginWrite \/ BeginRead \/ EndRead
    \/ \E t \in Threads : Feed(t) \/ Callback(t)
    \/ Write

Spec == Init /\ [][Next]_vars

----------------------------------------------------------------------------
(* Properties *)

TypeOK ==
    /\ live \subseteq Streams
    /\ streams \in [Streams -> Http2Stream]
    /\ \A s \in Streams \ live : streams[s] = NewStream
    /\ early_checks \in Seq(Streams) /\ completed \in Seq(Streams)
    /\ pending_rst \subseteq Streams
    /\ pc \in [Threads -> {"idle", "feed", "check", "enqueue", "mark", "enqueueReport", "write",
                           "writeRst"}]
    /\ checks \in [Threads -> Seq(Streams)] /\ reports \in [Threads -> Seq(Streams)]
    /\ newly_blocked \in [Threads -> SUBSET Streams]
    /\ batch \in [Threads -> Seq(Frame)] /\ next \in [Threads -> Nat \ {0}]
    /\ local_rst \subseteq Streams
    /\ peer \in [Threads -> [Streams -> PeerState]]
    /\ \A s \in Streams : peer["writer"][s] \notin {"promising", "promisingOpen"}
    /\ \A i \in 1 .. Len(batch["writer"]) : batch["writer"][i].kind # "PUSH_PROMISE"
    /\ wireIn \in Seq(Frame)
    /\ onWire \subseteq Streams /\ resetSent \subseteq Streams /\ promises \in Nat
    /\ verdict \in [Streams -> {"none", "pass", "block"}]
    /\ snapshots \in [Streams -> 0..3]
    /\ inStep \in [Threads -> BOOLEAN]
    /\ evictions \in Nat /\ failures \in Nat
    /\ alive \in BOOLEAN

\* The hook resets no stream before its request headers are on the wire: a
\* RST_STREAM for an idle stream would end the connection (hook_SSL_write).
ResetAfterHeaders == resetSent \subseteq onWire

\* The reset of s is on its way or was sent.
Resetting(s) ==
    \/ s \in pending_rst \cup local_rst \cup resetSent
    \/ \E t \in Threads : pc[t] = "enqueue" /\ Head(checks[t]) = s

\* As long as SSL takes what it is given, the reset of a denied request is not
\* lost, whichever thread got the verdict (pending_rst_frames).
DenialIsNotLost ==
    failures = 0 => \A s \in Streams : verdict[s] = "block" => Resetting(s)

\* No response is parsed before there is a verdict on the request, whichever
\* thread took the early check, unless the stream was evicted half-way.
VerdictBeforeResponse ==
    evictions = 0 =>
        \A s \in live : streams[s].resp_headers_done => verdict[s] # "none"

\* The response to a denied request is never reported as an exchange of its own,
\* unless the mark was lost (the stream was evicted or reset by a peer) or the
\* application sent trailers: they are a request of their own for the parser, are
\* asked about anew, and the second verdict may come after the response.
DeniedIsNotReported ==
    evictions = 0 =>
        \A s \in Streams :
            /\ verdict[s] = "block"
            /\ peer["writer"][s] \notin {"splitTrailers", "trailed", "reset"}
            /\ peer["reader"][s] # "reset"
            => snapshots[s] = 0

AtRest ==
    /\ alive
    /\ batch["writer"] = <<>> /\ wireIn = <<>>
    /\ \A t \in Threads : pc[t] = "idle"

\* When both sides have ended a stream and every byte was seen, the exchange was
\* reported and has left the table, in whatever order the two ends came; END_STREAM
\* is only seen on a header block of one frame (process_frame).
FinishedIsReported ==
    AtRest /\ evictions = 0 /\ failures = 0 /\ EndsHeaders = {TRUE} =>
        \A s \in Streams :
            (\A t \in Threads : peer[t][s] \in {"closed", "trailed"}) /\ ~Resetting(s) =>
                s \notin live /\ snapshots[s] \in 1..2

\* Both inflaters see every header block whole as long as no request was denied or refused, no
\* stream evicted, the application sent no trailers (whose fragments share a buffer with those of
\* the response) and reset nothing, and the server promised no push: the block of a PUSH_PROMISE
\* is compressed like any other, but process_frame never hands it to the inflater.
InflatersInStep ==
    /\ evictions = 0 /\ failures = 0 /\ promises = 0
    /\ \A s \in Streams : /\ ~Resetting(s)
                          /\ peer["writer"][s] \notin {"splitTrailers", "trailed", "reset"}
    => \A t \in Threads : inStep[t]

=============================================================================
