------------------------------ MODULE Http1Conn ------------------------------
(***************************************************************************)
(* HTTP/1 connections as RequestHook.kt watches them: what the application *)
(* writes and reads is copied into two buffers under a key, requests are   *)
(* cut out of the first and judged, responses out of the second and        *)
(* reported with the request that is pending under the key.                *)
(*                                                                         *)
(* Layer "native" is NativeRequestHook under send, recv and close: the key *)
(* is a descriptor, used again by the next connection.  Layer "java" is    *)
(* the hooks of SocketOutputStream, SocketInputStream and ConscryptEngine: *)
(* the key is an object that ends with its connection.                     *)
(*                                                                         *)
(* Bytes are parts of messages: the start of a request head, its end (with *)
(* the empty line) and its body or its chunks; the head of a response and  *)
(* its body (or its chunks up to the last).  The length is what the head   *)
(* says of the body.  A request stands for its requestId until its head is *)
(* parsed a second time.  Rules do not change.                             *)
(***************************************************************************)
EXTENDS Integers, Sequences, FiniteSets, SequencesExt

CONSTANTS
    MaxRequest,         \* bound: the application makes requests 1 .. MaxRequest
    MAX_BUFFER_SIZE,    \* parts the native layer buffers
    MaxWrite,           \* bound: parts in one write or one read
    MaxFaults           \* bound: unusual events in a behaviour

ASSUME Http1Assumption ==
    /\ MaxRequest \in Nat
    /\ MAX_BUFFER_SIZE \in Nat
    /\ MaxWrite \in Nat \ {0}
    /\ MaxFaults \in Nat

Requests == 1 .. MaxRequest
None == -1              \* nothing is pending
Garbled == 0            \* a request that nobody made, read out of parts of messages,
Unwanted == -2          \*   and one that the rules happen to block
Infos == Requests \cup {Garbled, Unwanted}

\* What a head may give as the length of the body, in parts: the negative ones end inside the
\* head and before it.
Lengths == {-3, -1, 0, 1}

RequestPart == [req : Requests, part : {"start", "end", "body", "chunks"}, length : Lengths]
ResponsePart ==     \* last: the answer ends here
    [req : Requests, part : {"head", "interim", "body"}, length : Lengths, last : BOOLEAN]

ParsingState ==
    [isHeaderParsed : BOOLEAN, headerSize : Nat, contentLength : Lengths, isIgnored : BOOLEAN]

FreshState ==
    [isHeaderParsed |-> FALSE, headerSize |-> 0, contentLength |-> -1, isIgnored |-> FALSE]

VARIABLES
    (* the case: never changes *)
    layer,          \* "native" or "java"
    collect,        \* KEY_COLLECT_RESPONSE_BODY
    denied,         \* the requests the rules block
    bodied,         \* the requests with a body
    (* RequestHook, under the key *)
    requestBuffer,
    responseBuffer,
    requestState,   \* requestParsingStates
    responseState,  \* responseParsingStates
    pendingRequest,
    sentRequests,   \* sentRequestsCache: the requests it has a record of,
    replied,        \*   those recorded with a response
    (* the write hook of the native layer *)
    pc,
    writing,        \* the parts of the write
    requestInfo,    \* the pending request it has read
    (* the application, the wire and the server *)
    connection,     \* "open", "closing" or "closed"
    requests,       \* requests begun so far
    todo,           \* parts the application has still to write
    arrived,        \* requests of this connection whose head the server has
    whole,          \* those it has all of
    answers,        \* parts on their way to the application
    (* history *)
    received,       \* requests whose head ever reached a server
    stopped,        \* requests one of whose writes was refused
    announced,      \* [Requests -> reports without a response]
    reported,       \* the reports with a response, in order
    quirks,         \* what has happened beside one message after the other
    faults          \* how often

case == <<layer, collect, denied, bodied>>
sentVars == <<sentRequests, replied>>
hookVars == <<requestBuffer, responseBuffer, requestState, responseState, pendingRequest, sentVars>>
writeVars == <<pc, writing, requestInfo>>
serverVars == <<arrived, whole, answers>>
reportVars == <<announced, reported>>
noted == <<quirks, faults>>
vars == <<case, hookVars, writeVars, connection, requests, todo, serverVars,
          received, stopped, reportVars, noted>>

Init ==
    /\ layer \in {"native", "java"}
    /\ collect \in BOOLEAN
    /\ denied \in SUBSET Requests
    /\ bodied \in SUBSET Requests
    /\ requestBuffer = <<>> /\ responseBuffer = <<>>
    /\ requestState = FreshState /\ responseState = FreshState
    /\ pendingRequest = None /\ sentRequests = {} /\ replied = {}
    /\ pc = "idle" /\ writing = <<>> /\ requestInfo = None
    /\ connection = "open"
    /\ requests = 0 /\ todo = <<>>
    /\ arrived = {} /\ whole = {} /\ answers = <<>>
    /\ received = {} /\ stopped = {}
    /\ announced = [r \in Requests |-> 0] /\ reported = <<>>
    /\ quirks = {} /\ faults = 0


\* A step with unusual events is noted and counted.
Note(events) ==
    /\ quirks' = quirks \cup events
    /\ faults' = IF events = {} THEN faults ELSE faults + 1
    /\ faults' <= MaxFaults

Blocked(info) == info \in denied \cup {Unwanted}        \* checkShouldBlockRequest

TrueLength(r) == IF r \in bodied THEN 1 ELSE 0

\* A request whose head gives this length; a body that the head gives no length is chunked.
RequestParts(r, length) ==
    LET parts == <<"start", "end">> \o (IF r \notin bodied THEN <<>>
                                       ELSE IF length = 0 THEN <<"chunks">> ELSE <<"body">>)
    IN  [i \in DOMAIN parts |-> [req |-> r, part |-> parts[i], length |-> length]]

First(buffer, parts) ==
    LET at == {i \in DOMAIN buffer : buffer[i].part \in parts}
    IN  IF at = {} THEN 0 ELSE Min(at)

\* Mutant: the message stays in the buffer.
cleanBuffer_Nothing(buffer, n) == buffer

cleanBuffer(buffer, n) == SubSeq(buffer, n + 1, Len(buffer))

Senders(parts) == {parts[i].req : i \in DOMAIN parts}

----------------------------------------------------------------------------
(* processRequestBuffer: what it makes of the buffer with the new bytes.    *)

\* The n parts up to an empty line are the head of a request, and nothing else.
IsHead(buffer, n) ==
    n = 2 /\ buffer[1].part = "start" /\ buffer[2].part = "end" /\ buffer[1].req = buffer[2].req

\* What a head of n parts says: its request, or anything if parts are missing or strange.
buildHttpRequestWithoutBody(buffer, n) ==
    IF IsHead(buffer, n) THEN {buffer[1].req} ELSE {None, Garbled, Unwanted}

\* What other parts say of a length is the head's, somebody else's or nothing.
parseContentLength(buffer, n) ==
    IF IsHead(buffer, n) THEN {buffer[n].length} ELSE {0, 1, buffer[n].length}

Kept(buffer) ==
    [buffer |-> buffer, state |-> requestState, info |-> None, block |-> FALSE]

\* Mutant: the length of the body against the whole buffer.
MessageSize_BodyOnly(state) == state.contentLength

MessageSize(state) == state.headerSize + state.contentLength

\* Mutant: the next head is not looked for.
CutRequest_KeepsParsed(seen) ==
    LET size == MessageSize(seen.state)
    IN  CASE size < 0 -> [seen EXCEPT !.buffer = <<>>, !.state = FreshState]
          [] size \in 0 .. Len(seen.buffer) -> [seen EXCEPT !.buffer = cleanBuffer(@, size)]
          [] OTHER -> seen

\* Mutant: a buffer that holds just the message is not long enough.
CutRequest_IfLonger(seen) ==
    LET size == MessageSize(seen.state)
    IN  CASE size < 0 -> [seen EXCEPT !.buffer = <<>>, !.state = FreshState]
          [] size \in 0 .. Len(seen.buffer) - 1 ->
                [seen EXCEPT !.buffer = cleanBuffer(@, size), !.state.isHeaderParsed = FALSE]
          [] OTHER -> seen

\* The end of the function: a complete request leaves the buffer.  A size below zero is an
\* exception, and buffer and state are removed.
CutRequest(seen) ==
    LET size == MessageSize(seen.state)
    IN  CASE size < 0 -> [seen EXCEPT !.buffer = <<>>, !.state = FreshState]
          [] size \in 0 .. Len(seen.buffer) ->
                [seen EXCEPT !.buffer = cleanBuffer(@, size), !.state.isHeaderParsed = FALSE]
          [] OTHER -> seen

\* The head is complete, n parts long.
ReadHead(buffer, n, info, length) ==
    LET state == [isHeaderParsed |-> TRUE, headerSize |-> n, contentLength |-> length,
                  isIgnored |-> FALSE]
        seen == [buffer |-> buffer, state |-> state, info |-> info, block |-> FALSE]
    IN  CASE info # None /\ Blocked(info) ->
                [seen EXCEPT !.buffer = <<>>, !.state.isIgnored = TRUE, !.block = TRUE]
          [] info # None /\ ~Blocked(info) /\ ~collect /\ length > 0 ->
                [seen EXCEPT !.buffer = <<>>, !.state.isIgnored = TRUE]
          [] OTHER -> CutRequest(seen)

processRequestBuffer(buffer) ==
    LET n == First(buffer, {"end", "chunks"})       \* the chunks end with an empty line too
    IN  CASE requestState.isIgnored -> {Kept(<<>>)}
          [] ~requestState.isIgnored /\ requestState.isHeaderParsed -> {CutRequest(Kept(buffer))}
          [] ~requestState.isIgnored /\ ~requestState.isHeaderParsed /\ n = 0 -> {Kept(buffer)}
          [] OTHER -> {ReadHead(buffer, n, info, length) :
                          info \in buildHttpRequestWithoutBody(buffer, n),
                          length \in parseContentLength(buffer, n)}

\* A request that was read gets a requestId of its own, of which there is no record, and is
\* announced.
RequestSeen(seen) ==
    /\ requestBuffer' = seen.buffer
    /\ requestState' = seen.state
    /\ pendingRequest' = IF seen.info = None THEN pendingRequest ELSE seen.info
    /\ sentRequests' = sentRequests \cup ({seen.info} \cap Requests)
    /\ replied' = replied \ {seen.info}
    /\ announced' = IF seen.info \in Requests
                    THEN [announced EXCEPT ![seen.info] = @ + 1] ELSE announced
    /\ UNCHANGED <<responseBuffer, responseState, reported>>

----------------------------------------------------------------------------
(* processResponseBuffer, with the report in completeAndDispatchRequest     *)

\* What is reported, once for a record: the request, the answers the bytes come from, whether
\* they begin with a final status line and whether they go on to the end of the answer.  A
\* blocked request fails the read (java only).
completeAndDispatchRequest(bytes) ==
    /\ sentRequests' = sentRequests \cup ({pendingRequest} \cap Requests)
    /\ replied' = replied \cup ({pendingRequest} \cap Requests)
    /\ reported' = IF pendingRequest \in replied THEN reported
                   ELSE Append(reported, [request |-> pendingRequest, answers |-> Senders(bytes),
                                          final |-> First(bytes, {"head"}) = 1,
                                          whole |-> bytes[Len(bytes)].last])
    /\ stopped' = IF layer = "java" /\ Blocked(pendingRequest)
                  THEN stopped \cup Senders(bytes) ELSE stopped

ResponseIgnored(buffer) ==
    /\ responseState.isIgnored
    /\ responseBuffer' = <<>>
    /\ UNCHANGED <<requestBuffer, requestState, responseState, pendingRequest, sentVars, reported, stopped>>

ResponseWaits(buffer) ==
    /\ ~responseState.isIgnored
    /\ \/ pendingRequest = None
       \/ ~responseState.isHeaderParsed /\ First(buffer, {"head", "interim"}) = 0
    /\ responseBuffer' = buffer
    /\ UNCHANGED <<requestBuffer, requestState, responseState, pendingRequest, sentVars, reported, stopped>>

\* Bodies are not collected: the head is reported and the connection ignored from here on.
ResponseHeadOnly(buffer) ==
    LET n == First(buffer, {"head", "interim"})
    IN  /\ ~collect
        /\ ~responseState.isIgnored /\ ~responseState.isHeaderParsed
        /\ pendingRequest # None /\ n > 0
        /\ completeAndDispatchRequest(SubSeq(buffer, 1, n))
        /\ pendingRequest' = None
        /\ responseState' = [isHeaderParsed |-> TRUE, headerSize |-> n,
                             contentLength |-> buffer[n].length, isIgnored |-> TRUE]
        /\ responseBuffer' = <<>>
        /\ UNCHANGED <<requestBuffer, requestState>>

ResponseWithBody(buffer) ==
    LET n == First(buffer, {"head", "interim"})
        state == IF responseState.isHeaderParsed THEN responseState
                 ELSE [isHeaderParsed |-> TRUE, headerSize |-> n,
                       contentLength |-> buffer[n].length, isIgnored |-> FALSE]
        size == MessageSize(state)
    IN  /\ ~responseState.isIgnored
        /\ pendingRequest # None
        /\ responseState.isHeaderParsed \/ (collect /\ n > 0)
        /\ \/ /\ Len(buffer) < size
              /\ responseBuffer' = buffer
              /\ responseState' = state
              /\ UNCHANGED <<requestState, pendingRequest, sentVars, reported, stopped>>
           \/ /\ Len(buffer) >= size
              /\ completeAndDispatchRequest(SubSeq(buffer, 1, IF size > n THEN size ELSE n))
              /\ responseState' = FreshState
              /\ pendingRequest' = None
              /\ \/ /\ size >= 0
                    /\ responseBuffer' = cleanBuffer(buffer, size)
                    /\ requestState' = FreshState
                 \/ /\ size < 0        \* an exception, after the report
                    /\ responseBuffer' = <<>>
                    /\ UNCHANGED requestState
        /\ UNCHANGED requestBuffer

processResponseBuffer(buffer) ==
    /\ \/ ResponseIgnored(buffer)
       \/ ResponseWaits(buffer)
       \/ ResponseHeadOnly(buffer)
       \/ ResponseWithBody(buffer)
    /\ UNCHANGED announced

----------------------------------------------------------------------------
(* Writing *)

Idle == pc = "idle"

\* The application begins its next request, as a rule when the exchange before is over, and with
\* a head that gives the length of the body.
BeginRequest ==
    \E length \in Lengths :
    /\ requests < MaxRequest
    /\ connection = "open" /\ Idle
    /\ Note((IF todo = <<>> /\ arrived = {} /\ answers = <<>> THEN {} ELSE {"pipelined"})
            \cup (IF length = TrueLength(requests + 1) THEN {} ELSE {"unframed"}))
    /\ requests' = requests + 1
    /\ todo' = todo \o RequestParts(requests + 1, length)
    /\ UNCHANGED <<case, hookVars, writeVars, connection, serverVars, received, stopped, reportVars>>

\* Bytes reach the server.
Deliver(parts) ==
    LET heads == {parts[i].req : i \in {j \in DOMAIN parts : parts[j].part = "end"}}
        last(r) == IF r \in bodied THEN {"body", "chunks"} ELSE {"end"}
        ends == {parts[i].req : i \in {j \in DOMAIN parts : parts[j].part \in last(parts[j].req)}}
    IN  /\ arrived' = arrived \cup heads
        /\ whole' = (whole \cup ends) \cap arrived'
        /\ received' = received \cup heads

Refuse(parts) ==
    /\ stopped' = stopped \cup Senders(parts)
    /\ todo' = <<>>
    /\ UNCHANGED <<arrived, whole, received>>

\* What a write does to the marks that make later requests pass unseen.
MarksOf(seen) ==
    IF requestState.isIgnored \/ ~seen.state.isIgnored THEN {}
    ELSE IF seen.block THEN {"stopped"} ELSE {"skipped"}

Taken(n) == SubSeq(todo, 1, n)
Rest(parts, n) == SubSeq(parts, n + 1, Len(parts))

\* The call itself may take less than it was given, and the application repeats the rest.
WriteThrough(parts, later, events) ==
    \E n \in 0 .. Len(parts) :
        /\ Deliver(SubSeq(parts, 1, n))
        /\ todo' = Rest(parts, n) \o later
        /\ Note(events \cup (IF n < Len(parts) THEN {"repeated"} ELSE {}))

\* The hooks of the socket classes and of Conscrypt: judged and written in one call.
JavaWrite(n) ==
    /\ layer = "java" /\ connection = "open"
    /\ n \in 1 .. MaxWrite /\ n <= Len(todo)
    /\ \E seen \in processRequestBuffer(requestBuffer \o Taken(n)) :
          /\ RequestSeen(seen)
          /\ IF seen.block THEN Refuse(Taken(n)) /\ Note(MarksOf(seen))
             ELSE WriteThrough(Taken(n), Rest(todo, n), MarksOf(seen)) /\ UNCHANGED stopped
    /\ UNCHANGED <<case, writeVars, connection, requests, answers>>

\* processTcpData and processSSLData, up to the end of processRequestBuffer.
NativeWrite(n) ==
    /\ layer = "native" /\ Idle /\ connection # "closed"
    /\ n \in 1 .. MaxWrite /\ n <= Len(todo)
    /\ Len(requestBuffer) + n <= MAX_BUFFER_SIZE
    /\ \E seen \in processRequestBuffer(requestBuffer \o Taken(n)) :
          /\ RequestSeen(seen)
          /\ Note(MarksOf(seen) \cup (IF connection = "closing" THEN {"raced"} ELSE {}))
    /\ writing' = Taken(n)
    /\ todo' = Rest(todo, n)
    /\ pc' = "get"
    /\ UNCHANGED <<case, requestInfo, connection, requests, serverVars, received, stopped>>

\* A write over the limit empties the buffer and is not looked at; one of more than
\* JNI_MAX_BUFFER_MAPPING bytes is not even copied.
UnseenWrite(n) ==
    /\ layer = "native" /\ Idle /\ connection # "closed"
    /\ n \in 1 .. MaxWrite /\ n <= Len(todo)
    /\ \/ Note({"unseen"}) /\ UNCHANGED requestBuffer
       \/ /\ Len(requestBuffer) + n > MAX_BUFFER_SIZE
          /\ Note({"unseen"}) /\ requestBuffer' = <<>>
    /\ Deliver(Taken(n))
    /\ todo' = Rest(todo, n)
    /\ UNCHANGED <<case, responseBuffer, requestState, responseState, pendingRequest, sentVars,
                   writeVars, connection, requests, answers, stopped, reportVars>>

ReadPending ==
    /\ pc = "get"
    /\ requestInfo' = pendingRequest
    /\ pc' = "put"
    /\ UNCHANGED <<case, hookVars, writing, connection, requests, todo, serverVars,
                   received, stopped, reportVars, noted>>

\* Each write announces the request that is pending; a record of it keeps that quiet.
Announce(info) ==
    /\ announced' = IF info \in Requests \ sentRequests
                    THEN [announced EXCEPT ![info] = @ + 1] ELSE announced
    /\ sentRequests' = sentRequests \cup ({info} \cap Requests)
    /\ UNCHANGED <<replied, reported>>

\* Mutant: the request stays pending.
BlockWrite_KeepsPending ==
    /\ Blocked(requestInfo)
    /\ pendingRequest' = requestInfo
    /\ Refuse(writing)
    /\ UNCHANGED noted

BlockWrite ==
    /\ Blocked(requestInfo)
    /\ pendingRequest' = None
    /\ Refuse(writing)
    /\ UNCHANGED noted

\* The pending request is put back with the address and the stack, and judged again.
PutPending ==
    /\ pc = "put"
    /\ \/ BlockWrite
       \/ /\ ~Blocked(requestInfo)
          /\ pendingRequest' = IF requestInfo = None THEN pendingRequest ELSE requestInfo
          /\ \/ connection # "closed" /\ WriteThrough(writing, todo, {})
             \/ connection = "closed" /\ UNCHANGED <<todo, arrived, whole, received, noted>>
          /\ UNCHANGED stopped
    /\ Announce(requestInfo)
    /\ pc' = "idle" /\ writing' = <<>> /\ requestInfo' = None
    /\ UNCHANGED <<case, requestBuffer, responseBuffer, requestState, responseState,
                   connection, requests, answers>>

----------------------------------------------------------------------------
(* The server, reading, and the end of a connection *)

Answer(r, part, length, last) == [req |-> r, part |-> part, length |-> length, last |-> last]

\* An answer without or with a body, and one after an interim answer.
SizedAnswers(r) ==
    {<<Answer(r, "head", 0, TRUE)>>, <<Answer(r, "head", 1, FALSE), Answer(r, "body", 0, TRUE)>>}

InterimAnswers(r) == {<<Answer(r, "interim", 0, FALSE), Answer(r, "head", 0, TRUE)>>}

\* Heads that do not tell the length: of a body that ends with the connection or has a transfer
\* coding the code does not look for ("gzip, chunked"), of a body that is not sent (HEAD, 304),
\* and negative ones.
UnsizedAnswers(r) ==
    {<<Answer(r, "head", 0, FALSE), Answer(r, "body", 0, TRUE)>>}
        \cup {<<Answer(r, "head", length, TRUE)>> : length \in Lengths \ {0}}

\* The server answers the oldest request, and perhaps before it has all of it.
ServerAnswers ==
    \E r \in arrived : \E answer \in SizedAnswers(r) \cup InterimAnswers(r) \cup UnsizedAnswers(r) :
        /\ \A other \in arrived : r <= other
        /\ Note((IF r \in whole THEN {} ELSE {"early"})
                \cup (IF answer \in InterimAnswers(r) THEN {"interim"} ELSE {})
                \cup (IF answer \in UnsizedAnswers(r) THEN {"unsized"} ELSE {}))
        /\ arrived' = arrived \ {r}
        /\ whole' = whole \ {r}
        /\ answers' = answers \o answer
        /\ UNCHANGED <<case, hookVars, writeVars, connection, requests, todo, received,
                       stopped, reportVars>>

\* The read hooks; a buffer over the native limit is emptied.
Read(n) ==
    /\ connection = "open" \/ (connection = "closing" /\ layer = "native")
    /\ n \in 1 .. MaxWrite /\ n <= Len(answers)
    /\ answers' = Rest(answers, n)
    /\ IF layer = "native" /\ Len(responseBuffer) + n > MAX_BUFFER_SIZE
       THEN /\ responseBuffer' = <<>>
            /\ Note({"unseen"})
            /\ UNCHANGED <<requestBuffer, requestState, responseState, pendingRequest, sentVars,
                           stopped, reportVars>>
       ELSE /\ processResponseBuffer(responseBuffer \o SubSeq(answers, 1, n))
            /\ Note(IF connection = "closing" THEN {"raced"} ELSE {})
    /\ UNCHANGED <<case, writeVars, connection, requests, todo, arrived, whole, received>>

\* The close hooks forget the buffers and the pending request, not the parsing states.
onConnectionClosed ==
    /\ connection = "open"
    /\ connection' = "closing"
    /\ requestBuffer' = <<>> /\ responseBuffer' = <<>>
    /\ pendingRequest' = None
    /\ Note((IF requestState.isHeaderParsed \/ responseState.isHeaderParsed THEN {"cut"} ELSE {})
            \cup (IF Idle THEN {} ELSE {"raced"}))
    /\ UNCHANGED <<case, requestState, responseState, sentVars, writeVars, requests, todo,
                   serverVars, received, stopped, reportVars>>

Close ==
    /\ connection = "closing"
    /\ connection' = "closed"
    /\ todo' = <<>> /\ arrived' = {} /\ whole' = {} /\ answers' = <<>>
    /\ UNCHANGED <<case, hookVars, writeVars, requests, received, stopped, reportVars, noted>>

\* The descriptor is given to the next connection.  The write hooks of the old one are over.
Reopen ==
    /\ layer = "native" /\ connection = "closed" /\ Idle /\ requests < MaxRequest
    /\ connection' = "open"
    /\ UNCHANGED <<case, hookVars, writeVars, requests, todo, serverVars, received, stopped,
                   reportVars, noted>>

\* Three minutes without a write, a read, or either: the entries expire.
Expire ==
    /\ \/ /\ Idle
          /\ requestBuffer' = <<>> /\ requestState' = FreshState
          /\ IF requestBuffer # <<>> \/ requestState.isHeaderParsed
             THEN Note({"idle"}) ELSE UNCHANGED noted
          /\ UNCHANGED <<responseBuffer, responseState, pendingRequest>>
       \/ /\ responseBuffer' = <<>> /\ responseState' = FreshState
          /\ IF responseBuffer # <<>> \/ responseState.isHeaderParsed
             THEN Note({"idle"}) ELSE UNCHANGED noted
          /\ UNCHANGED <<requestBuffer, requestState, pendingRequest>>
       \/ /\ Idle /\ pendingRequest # None
          /\ pendingRequest' = None
          /\ Note({"idle"})
          /\ UNCHANGED <<requestBuffer, requestState, responseBuffer, responseState>>
    /\ UNCHANGED <<case, sentVars, writeVars, connection, requests, todo, serverVars,
                   received, stopped, reportVars>>

\* A record expires ten minutes after it was written, or makes room for others.  Only the record
\* of a request that is pending, or in the hands of a write, is looked for again.
Forget ==
    /\ \E r \in sentRequests \cap {pendingRequest, requestInfo} :
          /\ sentRequests' = sentRequests \ {r}
          /\ replied' = replied \ {r}
    /\ Note({"forgotten"})
    /\ UNCHANGED <<case, requestBuffer, responseBuffer, requestState, responseState, pendingRequest,
                   writeVars, connection, requests, todo, serverVars, received, stopped, reportVars>>

Next ==
    \/ BeginRequest
    \/ \E n \in 1 .. MaxWrite : JavaWrite(n) \/ NativeWrite(n) \/ UnseenWrite(n) \/ Read(n)
    \/ ReadPending \/ PutPending
    \/ ServerAnswers
    \/ onConnectionClosed \/ Close \/ Reopen \/ Expire \/ Forget

Spec == Init /\ [][Next]_vars

----------------------------------------------------------------------------
(* Properties.  Each names the events after which the code does not keep   *)
(* its promise; with none of these events, or with only the others, it     *)
(* must.                                                                   *)

\* The types of the variables.  A length may be negative: ParsingState begins with -1, and
\* parseContentLength takes what toIntOrNull takes.
TypeOK ==
    /\ layer \in {"native", "java"} /\ collect \in BOOLEAN
    /\ denied \subseteq Requests /\ bodied \subseteq Requests
    /\ requestBuffer \in Seq(RequestPart) /\ responseBuffer \in Seq(ResponsePart)
    /\ requestState \in ParsingState /\ responseState \in ParsingState
    /\ pendingRequest \in Infos \cup {None}
    /\ sentRequests \subseteq Requests /\ replied \subseteq Requests
    /\ pc \in {"idle", "get", "put"}
    /\ writing \in Seq(RequestPart) /\ requestInfo \in Infos \cup {None}
    /\ connection \in {"open", "closing", "closed"}
    /\ requests \in 0 .. MaxRequest /\ todo \in Seq(RequestPart)
    /\ arrived \subseteq Requests /\ whole \subseteq Requests
    /\ answers \in Seq(ResponsePart)
    /\ received \subseteq Requests /\ stopped \subseteq Requests

\* When a head has been parsed, the request buffer never holds the whole of its message between two
\* writes: what is complete has been cut out, also with lengths that are wrong or negative, after
\* answers, closes and expiries.  The java layer has no other bound on this buffer.
OnlyUnfinishedStays ==
    requestState.isHeaderParsed /\ ~requestState.isIgnored =>
        Len(requestBuffer) < MessageSize(requestState)

\* A request that the rules block reaches no server, however its head is split over writes and
\* whatever was answered before: processRequestBuffer judges each head before it is written.  It
\* is missed after a mark isIgnored that outlived its request, when heads share a write, after a
\* head without the length of its body (a chunked request, whose chunks stay in front of the next
\* head), when a short or an unseen write broke the framing, and after a close in the middle of a
\* message.
DeniedIsStopped ==
    received \cap denied # {} =>
        quirks \cap {"skipped", "stopped", "pipelined", "unframed", "repeated", "unseen", "cut",
                     "raced", "idle"} # {}

\* Only writes and reads of a request that the rules block fail: no pending request, buffer or mark
\* of an earlier request lets another one be refused (BlockWrite removes the pending request), but
\* for the chunks of an unframed one.  In the java layer a refused request stays pending, so its
\* answers may fail reads of the next one.
InnocentPasses ==
    stopped \ denied # {} =>
        \/ quirks \cap {"pipelined", "unframed", "repeated", "unseen", "cut", "raced", "idle"} # {}
        \/ layer = "java" /\ "stopped" \in quirks

\* What completeAndDispatchRequest reports is a final answer to the request it is reported with and
\* nothing of another answer, and goes on to the end of the answer when bodies are collected: also
\* when an answer comes before the request's body, in pieces, or after a request whose mark
\* isIgnored hides the later ones.  Bodies that are not collected are left out of the report.
AnswersMatch ==
    \A i \in DOMAIN reported :
        \/ /\ reported[i].final /\ reported[i].answers = {reported[i].request}
           /\ collect => reported[i].whole
        \/ quirks \cap {"interim", "unsized", "stopped", "pipelined", "unframed", "repeated",
                        "unseen", "cut", "raced", "idle"} # {}

\* A request is announced once and reported with a response once (requestId, sentRequestsCache), also
\* when several writes announce it, after closed connections, expired buffers and pending requests,
\* interim answers and refused writes; not after its record was lost while it was pending, as in an
\* upload that takes longer than the ten minutes of the cache.
ReportedOnce ==
    \/ /\ \A r \in Requests : announced[r] <= 1
       /\ \A i, j \in DOMAIN reported :
             i # j /\ reported[i].request = reported[j].request => reported[i].request \notin Requests
    \/ quirks \cap {"early", "pipelined", "unframed", "repeated", "unseen", "raced", "forgotten"} # {}
=============================================================================
