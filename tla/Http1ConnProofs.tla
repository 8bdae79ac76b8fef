--------------------------- MODULE Http1ConnProofs ---------------------------
(***************************************************************************)
(* Theorems about Http1Conn, for any number of requests, any buffers and   *)
(* any number of unusual events.                                           *)
(*                                                                         *)
(* In this order: sequences and parts of messages; the hook's functions    *)
(* and the types; the order of the exchange (OneAtATime); reports          *)
(* (OnceInv); refusals (QuietInv, PassedInv); answers (AnswersInv).  Each  *)
(* invariant rests on those before it.                                     *)
(***************************************************************************)
EXTENDS Http1Conn, SequenceTheorems, FiniteSetTheorems, WellFoundedInduction, TLAPS

----------------------------------------------------------------------------
(* Sequences *)

\* A set of numbers up to n has a smallest one.
LEMMA SmallestNumber ==
    ASSUME NEW n \in Nat, NEW T \in SUBSET (1 .. n), T # {}
    PROVE  Min(T) \in T /\ \A y \in T : Min(T) <= y
<1> DEFINE Upto == {1 .. k : k \in T}
<1>1. IsWellFoundedOn(StrictSubsetOrdering(1 .. n), SUBSET (1 .. n))
  <2>1. IsFiniteSet(1 .. n)
    BY FS_Interval
  <2>2. IsWellFoundedOn(StrictSubsetOrdering(1 .. n), FiniteSubsetsOf(1 .. n))
    BY FS_StrictSubsetOrderingWellFounded
  <2>3. FiniteSubsetsOf(1 .. n) = SUBSET (1 .. n)
    BY <2>1, FS_FiniteSubsetsOfFinite
  <2> QED
    BY <2>2, <2>3
<1>2. Upto \subseteq SUBSET (1 .. n) /\ Upto # {}
  <2>1. ASSUME NEW k \in T PROVE (1 .. k) \subseteq (1 .. n)
    OBVIOUS
  <2> QED
    BY <2>1
<1>3. PICK s \in Upto : \A t \in Upto : ~(<<t, s>> \in StrictSubsetOrdering(1 .. n))
  BY <1>1, <1>2, WFMin
<1>4. PICK x \in T : s = 1 .. x
  BY <1>3
<1>5. ASSUME NEW y \in T PROVE x <= y
  <2>1. x \in 1 .. n /\ y \in 1 .. n
    OBVIOUS
  <2>2. SUFFICES ASSUME y < x PROVE FALSE
    BY <2>1
  <2>3. (1 .. y) \in Upto /\ (1 .. y) \subseteq (1 .. x) /\ (1 .. y) # (1 .. x)
    BY <2>1, <2>2
  <2> QED
    BY <1>2, <1>3, <1>4, <2>3 DEF StrictSubsetOrdering
<1> QED
  BY <1>5 DEF Min

\* First is the place of the first part of the kinds asked for, 0 if there is none.
LEMMA FirstPart ==
    ASSUME NEW S, NEW buffer \in Seq(S), NEW parts
    PROVE  /\ First(buffer, parts) \in 0 .. Len(buffer)
           /\ First(buffer, parts) > 0 => buffer[First(buffer, parts)].part \in parts
           /\ \A i \in 1 .. Len(buffer) :
                 buffer[i].part \in parts => First(buffer, parts) \in 1 .. i
<1> DEFINE at == {i \in DOMAIN buffer : buffer[i].part \in parts}
<1>0. First(buffer, parts) = IF at = {} THEN 0 ELSE Min(at)
  BY DEF First
<1>1. at \in SUBSET (1 .. Len(buffer)) /\ Len(buffer) \in Nat
  OBVIOUS
<1>a. \A i \in 1 .. Len(buffer) : buffer[i].part \in parts => i \in at
  OBVIOUS
<1>b. \A i \in at : buffer[i].part \in parts
  OBVIOUS
<1> HIDE DEF at
<1>2. CASE at = {}
  BY <1>0, <1>1, <1>2, <1>a
<1>3. CASE at # {}
  <2>1. Min(at) \in at /\ \A y \in at : Min(at) <= y
    BY <1>1, <1>3, SmallestNumber
  <2>2. Min(at) \in 1 .. Len(buffer)
    BY <1>1, <2>1
  <2> QED
    BY <1>0, <1>1, <1>3, <2>1, <2>2, <1>a, <1>b
<1> QED
  BY <1>2, <1>3

\* What is cut off a buffer, and what is left.
LEMMA TakenAndRest ==
    ASSUME NEW S, NEW s \in Seq(S), NEW n \in Nat, n <= Len(s)
    PROVE  /\ SubSeq(s, 1, n) \in Seq(S)
           /\ Len(SubSeq(s, 1, n)) = n
           /\ \A i \in 1 .. n : SubSeq(s, 1, n)[i] = s[i]
           /\ SubSeq(s, n + 1, Len(s)) \in Seq(S)
           /\ Len(SubSeq(s, n + 1, Len(s))) = Len(s) - n
           /\ \A i \in 1 .. Len(s) - n : SubSeq(s, n + 1, Len(s))[i] = s[n + i]
<1>1. PICK l \in Nat : l = Len(s)
  OBVIOUS
<1>2. \A i \in 1 .. l : s[i] \in S
  BY <1>1
<1>3. /\ SubSeq(s, 1, n) \in Seq(S)
      /\ Len(SubSeq(s, 1, n)) = IF 1 <= n THEN n - 1 + 1 ELSE 0
      /\ \A i \in 1 .. n - 1 + 1 : SubSeq(s, 1, n)[i] = s[1 + i - 1]
  BY <1>1, <1>2, SubSeqProperties
<1>4. /\ SubSeq(s, n + 1, l) \in Seq(S)
      /\ Len(SubSeq(s, n + 1, l)) = IF n + 1 <= l THEN l - (n + 1) + 1 ELSE 0
      /\ \A i \in 1 .. l - (n + 1) + 1 : SubSeq(s, n + 1, l)[i] = s[(n + 1) + i - 1]
  <2>1. \A i \in n + 1 .. l : s[i] \in S
    BY <1>1, <1>2
  <2>2. n + 1 \in Int /\ l \in Int
    BY <1>1
  <2> QED
    BY <2>1, <2>2, SubSeqProperties
<1>5. \A i \in 1 .. l - n : (n + 1) + i - 1 = n + i
  BY <1>1
<1>6. Len(SubSeq(s, n + 1, l)) = l - n /\ \A i \in 1 .. l - n : SubSeq(s, n + 1, l)[i] = s[n + i]
  <2>1. l - (n + 1) + 1 = l - n /\ (n + 1 <= l \/ l - n = 0)
    BY <1>1
  <2> QED
    BY <1>4, <1>5, <2>1
<1>7. Len(SubSeq(s, 1, n)) = n /\ \A i \in 1 .. n : SubSeq(s, 1, n)[i] = s[i]
  <2>1. n - 1 + 1 = n /\ (1 <= n \/ n = 0) /\ \A i \in 1 .. n : 1 + i - 1 = i
    OBVIOUS
  <2> QED
    BY <1>3, <2>1
<1> QED
  BY <1>1, <1>3, <1>4, <1>6, <1>7

\* The two ends of a concatenation.
LEMMA Joined ==
    ASSUME NEW S, NEW s \in Seq(S), NEW t \in Seq(S)
    PROVE  /\ s \o t \in Seq(S)
           /\ Len(s \o t) = Len(s) + Len(t)
           /\ \A i \in 1 .. Len(s) : (s \o t)[i] = s[i]
           /\ \A i \in 1 .. Len(t) : (s \o t)[Len(s) + i] = t[i]
<1>1. PICK k \in Nat, l \in Nat : k = Len(s) /\ l = Len(t)
  OBVIOUS
<1>2. /\ s \o t \in Seq(S) /\ Len(s \o t) = k + l
      /\ \A i \in 1 .. k + l : (s \o t)[i] = IF i <= k THEN s[i] ELSE t[i - k]
  BY <1>1, ConcatProperties
<1>3. \A i \in 1 .. k : i \in 1 .. k + l /\ i <= k
  BY <1>1
<1>4. \A i \in 1 .. l : k + i \in 1 .. k + l /\ ~(k + i <= k) /\ (k + i) - k = i
  BY <1>1
<1> QED
  BY <1>1, <1>2, <1>3, <1>4

----------------------------------------------------------------------------
(* Requests and what is read of them *)


\* Part i of a request r whose head gives the length of its body, and the number of parts it has.
PartOf(r, i) == [req |-> r, part |-> IF i = 1 THEN "start" ELSE IF i = 2 THEN "end" ELSE "body",
                 length |-> TrueLength(r)]
SizeOf(r) == IF r \in bodied THEN 3 ELSE 2

\* A head and a third part in sequence.
LEMMA ThreeParts ==
    ASSUME NEW last \in {"body", "chunks"}
    PROVE  <<"start", "end">> \o <<last>> = <<"start", "end", last>>
<1> DEFINE Kinds == {"start", "end", "body", "chunks"}
           s == <<"start", "end">>
           t == <<last>>
           u == <<"start", "end", last>>
<1>a. s \in Seq(Kinds) /\ Len(s) = 2 /\ s[1] = "start" /\ s[2] = "end"
  OBVIOUS
<1>b. t \in Seq(Kinds) /\ Len(t) = 1 /\ t[1] = last
  OBVIOUS
<1>c. u \in Seq(Kinds) /\ Len(u) = 3 /\ u[1] = "start" /\ u[2] = "end" /\ u[3] = last
  OBVIOUS
<1>1. s \in Seq(Kinds) /\ t \in Seq(Kinds) /\ u \in Seq(Kinds)
      /\ Len(s) = 2 /\ Len(t) = 1 /\ Len(u) = 3
      /\ s[1] = u[1] /\ s[2] = u[2] /\ t[1] = u[3]
  BY <1>a, <1>b, <1>c
<1> HIDE DEF s, t, u, Kinds
<1>2. /\ s \o t \in Seq(Kinds) /\ Len(s \o t) = 3
      /\ \A i \in 1 .. 2 : (s \o t)[i] = s[i]
      /\ \A i \in 1 .. 1 : (s \o t)[2 + i] = t[i]
  <2>1. s \in Seq(Kinds) /\ t \in Seq(Kinds)
    BY <1>1
  <2>2. /\ s \o t \in Seq(Kinds) /\ Len(s \o t) = Len(s) + Len(t)
        /\ \A i \in 1 .. Len(s) : (s \o t)[i] = s[i]
        /\ \A i \in 1 .. Len(t) : (s \o t)[Len(s) + i] = t[i]
    BY <2>1, Joined
  <2>3. Len(s) = 2 /\ Len(t) = 1
    BY <1>1
  <2> QED
    BY <2>2, <2>3
<1>3. (s \o t)[1] = u[1] /\ (s \o t)[2] = u[2] /\ (s \o t)[3] = u[3]
  <2>1. 1 \in 1 .. 2 /\ 2 \in 1 .. 2 /\ 1 \in 1 .. 1 /\ 2 + 1 = 3
    OBVIOUS
  <2>2. (s \o t)[2 + 1] = t[1]
    BY <1>2, <2>1
  <2> QED
    BY <1>1, <1>2, <2>1, <2>2
<1>4. ASSUME NEW i \in 1 .. 3 PROVE (s \o t)[i] = u[i]
  <2>1. i = 1 \/ i = 2 \/ i = 3
    OBVIOUS
  <2> QED
    BY <1>3, <2>1
<1>5. s \o t = u
  BY <1>1, <1>2, <1>4, SeqEqual
<1> QED
  BY <1>5 DEF s, t, u

\* The parts of a request, whatever its head says of the body.
LEMMA PartsType ==
    ASSUME NEW r \in Requests, NEW length \in Lengths
    PROVE  RequestParts(r, length) \in Seq(RequestPart)
<1> DEFINE Kinds == {"start", "end", "body", "chunks"}
           kinds == <<"start", "end">> \o (IF r \notin bodied THEN <<>>
                                           ELSE IF length = 0 THEN <<"chunks">> ELSE <<"body">>)
<1>1. kinds \in Seq(Kinds)
  <2>1. <<"start", "end">> \in Seq(Kinds) /\ <<>> \in Seq(Kinds) /\ <<"chunks">> \in Seq(Kinds)
        /\ <<"body">> \in Seq(Kinds)
    OBVIOUS
  <2>2. PICK rest \in Seq(Kinds) : kinds = <<"start", "end">> \o rest
    BY <2>1
  <2> HIDE DEF Kinds
  <2> QED
    BY <2>1, <2>2, Joined
<1>2. RequestParts(r, length) = [i \in DOMAIN kinds |-> [req |-> r, part |-> kinds[i], length |-> length]]
  BY DEF RequestParts
<1> HIDE DEF kinds
<1>3. \A i \in DOMAIN kinds : [req |-> r, part |-> kinds[i], length |-> length] \in RequestPart
  BY <1>1 DEF RequestPart
<1>4. DOMAIN kinds = 1 .. Len(kinds) /\ Len(kinds) \in Nat
  BY <1>1
<1> QED
  BY <1>2, <1>3, <1>4

\* A request with a head that gives the true length has a start, an end of its head and perhaps a body.
LEMMA PartsOfRequest ==
    ASSUME NEW r \in Requests
    PROVE  /\ RequestParts(r, TrueLength(r)) \in Seq(RequestPart)
           /\ Len(RequestParts(r, TrueLength(r))) = SizeOf(r)
           /\ \A i \in 1 .. SizeOf(r) : RequestParts(r, TrueLength(r))[i] = PartOf(r, i)
<1>0. TrueLength(r) \in Lengths /\ (r \in bodied <=> TrueLength(r) # 0)
  BY DEF TrueLength, Lengths
<1> DEFINE length == TrueLength(r)
<1>1. CASE r \in bodied
  <2>1. RequestParts(r, length) =
            [i \in 1 .. 3 |-> [req |-> r, part |-> <<"start", "end", "body">>[i], length |-> length]]
    <3>1. <<"start", "end">> \o (IF r \notin bodied THEN <<>>
                                 ELSE IF length = 0 THEN <<"chunks">> ELSE <<"body">>)
            = <<"start", "end", "body">>
      BY <1>0, <1>1, ThreeParts
    <3>2. DOMAIN <<"start", "end", "body">> = 1 .. 3
      OBVIOUS
    <3> QED
      BY <3>1, <3>2 DEF RequestParts
  <2>2. \A i \in 1 .. 3 : <<"start", "end", "body">>[i] =
            IF i = 1 THEN "start" ELSE IF i = 2 THEN "end" ELSE "body"
    OBVIOUS
  <2>3. RequestParts(r, length) = [i \in 1 .. 3 |-> PartOf(r, i)]
    BY <2>1, <2>2 DEF PartOf
  <2>4. \A i \in 1 .. 3 : PartOf(r, i) \in RequestPart
    BY <1>0 DEF PartOf, RequestPart
  <2> QED
    BY <1>1, <2>3, <2>4 DEF SizeOf
<1>2. CASE r \notin bodied
  <2>1. <<"start", "end">> \o <<>> = <<"start", "end">>
    OBVIOUS
  <2>2. RequestParts(r, length) =
            [i \in 1 .. 2 |-> [req |-> r, part |-> <<"start", "end">>[i], length |-> length]]
    <3>1. <<"start", "end">> \o (IF r \notin bodied THEN <<>>
                                 ELSE IF length = 0 THEN <<"chunks">> ELSE <<"body">>)
            = <<"start", "end">>
      BY <1>2, <2>1
    <3>2. DOMAIN <<"start", "end">> = 1 .. 2
      OBVIOUS
    <3> QED
      BY <3>1, <3>2 DEF RequestParts
  <2>3. \A i \in 1 .. 2 : <<"start", "end">>[i] =
            IF i = 1 THEN "start" ELSE IF i = 2 THEN "end" ELSE "body"
    OBVIOUS
  <2>4. RequestParts(r, length) = [i \in 1 .. 2 |-> PartOf(r, i)]
    BY <2>2, <2>3 DEF PartOf
  <2>5. \A i \in 1 .. 2 : PartOf(r, i) \in RequestPart
    BY <1>0 DEF PartOf, RequestPart
  <2> QED
    BY <1>2, <2>4, <2>5 DEF SizeOf
<1> QED
  BY <1>1, <1>2

\* The parsing state after a head of n parts.
HeadState(n, length, parsed, ignored) ==
    [isHeaderParsed |-> parsed, headerSize |-> n, contentLength |-> length, isIgnored |-> ignored]

\* What processRequestBuffer returns.
SeenType == [buffer : Seq(RequestPart), state : ParsingState, info : Infos \cup {None}, block : BOOLEAN]

\* The head up to place n is read as info; the first disjunct blocks the request, the second skips
\* its body, in the third the message is not complete yet, in the fourth it leaves the buffer; the
\* fifth is the exception.
ReadAs(seen, buffer, n, length, info) ==
    LET passes == info = None \/ (~Blocked(info) /\ (collect \/ ~(length > 0)))
    IN  \/ /\ info # None /\ Blocked(info)
           /\ seen = [buffer |-> <<>>, state |-> HeadState(n, length, TRUE, TRUE), info |-> info, block |-> TRUE]
        \/ /\ info # None /\ ~Blocked(info) /\ ~collect /\ length > 0
           /\ seen = [buffer |-> <<>>, state |-> HeadState(n, length, TRUE, TRUE), info |-> info, block |-> FALSE]
        \/ /\ passes /\ Len(buffer) < n + length
           /\ seen = [buffer |-> buffer, state |-> HeadState(n, length, TRUE, FALSE), info |-> info, block |-> FALSE]
        \/ /\ passes /\ n + length >= 0 /\ Len(buffer) >= n + length
           /\ seen = [buffer |-> SubSeq(buffer, n + length + 1, Len(buffer)),
                      state |-> HeadState(n, length, FALSE, FALSE), info |-> info, block |-> FALSE]
        \/ /\ passes /\ n + length < 0
           /\ seen = [buffer |-> <<>>, state |-> FreshState, info |-> info, block |-> FALSE]

\* The length that is read of a head.
LEMMA LengthRead ==
    ASSUME NEW buffer \in Seq(RequestPart), NEW n \in 1 .. Len(buffer)
    PROVE  /\ parseContentLength(buffer, n) \subseteq Lengths
           /\ IsHead(buffer, n) => parseContentLength(buffer, n) = {buffer[n].length}
<1>1. buffer[n].length \in Lengths
  <2>1. buffer[n] \in RequestPart
    BY ElementOfSeq
  <2> QED
    BY <2>1 DEF RequestPart
<1> QED
  BY <1>1 DEF parseContentLength, Lengths

\* Everything processRequestBuffer can make of a buffer.
LEMMA SeenCases ==
    ASSUME requestState \in ParsingState, NEW buffer \in Seq(RequestPart),
           NEW seen \in processRequestBuffer(buffer)
    PROVE  LET size == requestState.headerSize + requestState.contentLength
               n == First(buffer, {"end", "chunks"})
           IN  \/ /\ requestState.isIgnored
                  /\ seen = [buffer |-> <<>>, state |-> requestState, info |-> None, block |-> FALSE]
               \/ /\ ~requestState.isIgnored
                  /\ IF requestState.isHeaderParsed THEN Len(buffer) < size ELSE n = 0
                  /\ seen = [buffer |-> buffer, state |-> requestState, info |-> None, block |-> FALSE]
               \/ /\ ~requestState.isIgnored /\ requestState.isHeaderParsed
                  /\ size >= 0 /\ Len(buffer) >= size
                  /\ seen = [buffer |-> SubSeq(buffer, size + 1, Len(buffer)),
                             state |-> [requestState EXCEPT !.isHeaderParsed = FALSE],
                             info |-> None, block |-> FALSE]
               \/ /\ ~requestState.isIgnored /\ requestState.isHeaderParsed
                  /\ size < 0
                  /\ seen = [buffer |-> <<>>, state |-> FreshState, info |-> None, block |-> FALSE]
               \/ /\ ~requestState.isIgnored /\ ~requestState.isHeaderParsed /\ n > 0
                  /\ \E info \in buildHttpRequestWithoutBody(buffer, n) :
                        \E length \in parseContentLength(buffer, n) :
                            ReadAs(seen, buffer, n, length, info)
<1> DEFINE size == requestState.headerSize + requestState.contentLength
           n == First(buffer, {"end", "chunks"})
<1>0. n \in 0 .. Len(buffer) /\ Len(buffer) \in Nat /\ size \in Int
  <2>1. n \in 0 .. Len(buffer)
    BY FirstPart
  <2> QED
    BY <2>1 DEF ParsingState, Lengths
<1>1. CASE requestState.isIgnored
  BY <1>1 DEF processRequestBuffer, Kept
<1>2. CASE ~requestState.isIgnored /\ requestState.isHeaderParsed
  <2> DEFINE got == [buffer |-> buffer, state |-> requestState, info |-> None, block |-> FALSE]
  <2>1. seen = CutRequest(got)
    BY <1>2 DEF processRequestBuffer, Kept
  <2>m. MessageSize(got.state) = size
    BY DEF MessageSize
  <2>2. CASE size >= 0 /\ Len(buffer) >= size
    <3>1. size \in 0 .. Len(got.buffer) /\ ~(size < 0)
      BY <1>0, <2>2
    <3>2. seen = [got EXCEPT !.buffer = SubSeq(buffer, size + 1, Len(buffer)), !.state.isHeaderParsed = FALSE]
      BY <2>1, <2>m, <3>1 DEF CutRequest, cleanBuffer
    <3>3. seen = [buffer |-> SubSeq(buffer, size + 1, Len(buffer)),
                  state |-> [requestState EXCEPT !.isHeaderParsed = FALSE],
                  info |-> None, block |-> FALSE]
      BY <3>2
    <3> HIDE DEF n, got
    <3> QED
      BY <1>2, <2>2, <3>3
  <2>3. CASE ~(Len(buffer) >= size)
    <3>1. Len(buffer) < size /\ ~(size < 0) /\ ~(size \in 0 .. Len(got.buffer))
      BY <1>0, <2>3
    <3>2. seen = got
      BY <2>1, <2>m, <3>1 DEF CutRequest
    <3> QED
      BY <1>2, <3>1, <3>2
  <2>4. CASE size < 0
    <3>1. seen = [got EXCEPT !.buffer = <<>>, !.state = FreshState]
      <4>1. ~(size \in 0 .. Len(got.buffer))
        BY <2>4, <1>0
      <4> QED
        BY <2>1, <2>m, <2>4, <4>1 DEF CutRequest
    <3>2. seen = [buffer |-> <<>>, state |-> FreshState, info |-> None, block |-> FALSE]
      BY <3>1
    <3> HIDE DEF n, got
    <3> QED
      BY <1>2, <2>4, <3>2
  <2> QED
    BY <1>0, <2>2, <2>3, <2>4
<1>3. CASE ~requestState.isIgnored /\ ~requestState.isHeaderParsed /\ n = 0
  BY <1>3 DEF processRequestBuffer, Kept
<1>4. CASE ~requestState.isIgnored /\ ~requestState.isHeaderParsed /\ n > 0
  <2>1. PICK info \in buildHttpRequestWithoutBody(buffer, n), length \in parseContentLength(buffer, n) :
            seen = ReadHead(buffer, n, info, length)
    <3>1. n # 0
      BY <1>0, <1>4
    <3> QED
      BY <1>4, <3>1 DEF processRequestBuffer
  <2>l. length \in Int
    <3>1. n \in 1 .. Len(buffer)
      BY <1>0, <1>4
    <3> HIDE DEF n
    <3> QED
      BY <2>1, <3>1, LengthRead DEF Lengths
  <2> DEFINE state == [isHeaderParsed |-> TRUE, headerSize |-> n, contentLength |-> length, isIgnored |-> FALSE]
             got == [buffer |-> buffer, state |-> state, info |-> info, block |-> FALSE]
  <2>r. ReadAs(seen, buffer, n, length, info)
    <3>2. CASE info # None /\ Blocked(info)
      <4>1. seen = [got EXCEPT !.buffer = <<>>, !.state.isIgnored = TRUE, !.block = TRUE]
        BY <2>1, <3>2 DEF ReadHead
      <4>2. seen = [buffer |-> <<>>, state |-> HeadState(n, length, TRUE, TRUE), info |-> info, block |-> TRUE]
        BY <4>1 DEF HeadState
      <4> QED
        BY <3>2, <4>2 DEF ReadAs
    <3>3. CASE info # None /\ ~Blocked(info) /\ ~collect /\ length > 0
      <4>1. seen = [got EXCEPT !.buffer = <<>>, !.state.isIgnored = TRUE]
        BY <2>1, <3>3 DEF ReadHead
      <4>2. seen = [buffer |-> <<>>, state |-> HeadState(n, length, TRUE, TRUE), info |-> info, block |-> FALSE]
        BY <4>1 DEF HeadState
      <4> QED
        BY <3>3, <4>2 DEF ReadAs
    <3>4. CASE ~(info # None /\ Blocked(info)) /\ ~(info # None /\ ~Blocked(info) /\ ~collect /\ length > 0)
      <4>0. info = None \/ (~Blocked(info) /\ (collect \/ ~(length > 0)))
        BY <3>4
      <4>1. seen = CutRequest(got)
        BY <2>1, <3>4 DEF ReadHead
      <4>m. MessageSize(got.state) = n + length
        BY DEF MessageSize
      <4>2. CASE n + length >= 0 /\ Len(buffer) >= n + length
        <5>0. n + length \in 0 .. Len(got.buffer) /\ ~(n + length < 0)
          BY <1>0, <2>l, <4>2
        <5>1. seen = [got EXCEPT !.buffer = SubSeq(buffer, n + length + 1, Len(buffer)), !.state.isHeaderParsed = FALSE]
          BY <4>1, <4>m, <5>0 DEF CutRequest, cleanBuffer
        <5>2. seen = [buffer |-> SubSeq(buffer, n + length + 1, Len(buffer)),
                      state |-> HeadState(n, length, FALSE, FALSE), info |-> info, block |-> FALSE]
          BY <5>1 DEF HeadState
        <5> QED
          BY <4>0, <4>2, <5>2 DEF ReadAs
      <4>3. CASE ~(Len(buffer) >= n + length)
        <5>1. Len(buffer) < n + length /\ ~(n + length < 0) /\ ~(n + length \in 0 .. Len(got.buffer))
          BY <1>0, <2>l, <4>3
        <5>2. seen = got
          BY <4>1, <4>m, <5>1 DEF CutRequest
        <5> QED
          BY <4>0, <5>1, <5>2 DEF ReadAs, HeadState
      <4>4. CASE n + length < 0
        <5>0. ~(n + length \in 0 .. Len(got.buffer))
          BY <1>0, <2>l, <4>4
        <5>1. seen = [got EXCEPT !.buffer = <<>>, !.state = FreshState]
          BY <4>1, <4>m, <4>4, <5>0 DEF CutRequest
        <5>2. seen = [buffer |-> <<>>, state |-> FreshState, info |-> info, block |-> FALSE]
          BY <5>1
        <5> QED
          BY <4>0, <4>4, <5>2 DEF ReadAs
      <4> QED
        BY <1>0, <2>l, <4>2, <4>3, <4>4
    <3> QED
      BY <3>2, <3>3, <3>4
  <2> HIDE DEF n
  <2>5. \E i \in buildHttpRequestWithoutBody(buffer, n) : \E l \in parseContentLength(buffer, n) :
            ReadAs(seen, buffer, n, l, i)
    BY <2>1, <2>r
  <2> QED
    BY <1>4, <2>5 DEF n
<1> QED
  BY <1>0, <1>1, <1>2, <1>3, <1>4

\* What processRequestBuffer leaves has the types of the hook's entries.
LEMMA SeenHasType ==
    ASSUME requestState \in ParsingState, NEW buffer \in Seq(RequestPart),
           NEW seen \in processRequestBuffer(buffer)
    PROVE  seen \in SeenType
<1> DEFINE size == requestState.headerSize + requestState.contentLength
           n == First(buffer, {"end", "chunks"})
<1>0. n \in 0 .. Len(buffer) /\ Len(buffer) \in Nat /\ size \in Int
  <2>1. n \in 0 .. Len(buffer)
    BY FirstPart
  <2> QED
    BY <2>1 DEF ParsingState, Lengths
<1>1. <<>> \in Seq(RequestPart)
  OBVIOUS
<1>2. ASSUME NEW k \in Nat, Len(buffer) >= k PROVE SubSeq(buffer, k + 1, Len(buffer)) \in Seq(RequestPart)
  BY <1>2, TakenAndRest
<1>3. \A parsed, ignored \in BOOLEAN, length \in Lengths : HeadState(n, length, parsed, ignored) \in ParsingState
  BY <1>0 DEF HeadState, ParsingState
<1>4. [requestState EXCEPT !.isHeaderParsed = FALSE] \in ParsingState /\ FreshState \in ParsingState
  BY DEF ParsingState, FreshState, Lengths
<1>a. CASE seen = [buffer |-> <<>>, state |-> requestState, info |-> None, block |-> FALSE]
  BY <1>1, <1>a DEF SeenType
<1>b. CASE seen = [buffer |-> <<>>, state |-> FreshState, info |-> None, block |-> FALSE]
  BY <1>1, <1>4, <1>b DEF SeenType
<1>5. CASE seen = [buffer |-> buffer, state |-> requestState, info |-> None, block |-> FALSE]
  BY <1>5 DEF SeenType
<1>6. CASE /\ size >= 0 /\ Len(buffer) >= size
           /\ seen = [buffer |-> SubSeq(buffer, size + 1, Len(buffer)),
                      state |-> [requestState EXCEPT !.isHeaderParsed = FALSE],
                      info |-> None, block |-> FALSE]
  <2>0. size \in Nat /\ Len(buffer) >= size
    BY <1>0, <1>6
  <2> HIDE DEF size
  <2>1. SubSeq(buffer, size + 1, Len(buffer)) \in Seq(RequestPart)
    BY <1>2, <2>0
  <2>2. None \in Infos \cup {None} /\ FALSE \in BOOLEAN
    OBVIOUS
  <2> QED
    BY <1>4, <1>6, <2>1, <2>2 DEF SeenType
<1>7. ASSUME n > 0, NEW info \in buildHttpRequestWithoutBody(buffer, n),
             NEW length \in parseContentLength(buffer, n),
             ReadAs(seen, buffer, n, length, info)
      PROVE  seen \in SeenType
  <2>0. n \in 1 .. Len(buffer)
    BY <1>0, <1>7
  <2>l. length \in Lengths
    <3> HIDE DEF n
    <3> QED
      BY <2>0, LengthRead
  <2>1. info \in Infos \cup {None}
    <3>1. 1 \in 1 .. Len(buffer)
      BY <1>0, <1>7
    <3>2. buffer[1].req \in Requests
      <4>1. buffer[1] \in RequestPart
        BY <3>1, ElementOfSeq
      <4> QED
        BY <4>1 DEF RequestPart
    <3> QED
      <4>1. info \in (IF IsHead(buffer, n) THEN {buffer[1].req} ELSE {None, Garbled, Unwanted})
        BY <1>7, Zenon DEF buildHttpRequestWithoutBody
      <4>2. info = buffer[1].req \/ info \in {None, Garbled, Unwanted}
        <5> HIDE DEF n
        <5> QED
          BY <4>1
      <4> QED
        BY <3>2, <4>2 DEF Infos
  <2>2. n + length \in Int
    BY <1>0, <2>l DEF Lengths
  <2>3. n + length >= 0 /\ Len(buffer) >= n + length =>
            SubSeq(buffer, n + length + 1, Len(buffer)) \in Seq(RequestPart)
    <3>1. n + length >= 0 => n + length \in Nat
      BY <2>2
    <3> QED
      BY <1>2, <3>1
  <2>4. PICK rest : \E parsed \in BOOLEAN, ignored \in BOOLEAN, block \in BOOLEAN :
            /\ \/ seen = [buffer |-> rest, state |-> HeadState(n, length, parsed, ignored),
                          info |-> info, block |-> block]
               \/ seen = [buffer |-> rest, state |-> FreshState, info |-> info, block |-> block]
            /\ \/ rest = <<>> \/ rest = buffer
               \/ /\ n + length >= 0 /\ Len(buffer) >= n + length
                  /\ rest = SubSeq(buffer, n + length + 1, Len(buffer))
    <3> DEFINE Is(rest, parsed, ignored, block) ==
            /\ \/ seen = [buffer |-> rest, state |-> HeadState(n, length, parsed, ignored),
                          info |-> info, block |-> block]
               \/ seen = [buffer |-> rest, state |-> FreshState, info |-> info, block |-> block]
            /\ \/ rest = <<>> \/ rest = buffer
               \/ /\ n + length >= 0 /\ Len(buffer) >= n + length
                  /\ rest = SubSeq(buffer, n + length + 1, Len(buffer))
    <3>1. \/ Is(<<>>, TRUE, TRUE, TRUE) \/ Is(<<>>, TRUE, TRUE, FALSE)
          \/ Is(buffer, TRUE, FALSE, FALSE)
          \/ Is(SubSeq(buffer, n + length + 1, Len(buffer)), FALSE, FALSE, FALSE)
          \/ Is(<<>>, FALSE, FALSE, FALSE)
      <4> HIDE DEF n
      <4> QED
        BY <1>7 DEF ReadAs
    <3> HIDE DEF Is
    <3>2. \E rest : \E parsed \in BOOLEAN, ignored \in BOOLEAN, block \in BOOLEAN :
             Is(rest, parsed, ignored, block)
      BY <3>1
    <3> QED
      BY <3>2, Zenon DEF Is
  <2>5. rest \in Seq(RequestPart)
    BY <1>1, <2>3, <2>4
  <2> HIDE DEF n
  <2> QED
    BY <1>3, <1>4, <2>l, <2>1, <2>4, <2>5 DEF SeenType
<1> QED
  BY <1>0, <1>a, <1>b, <1>5, <1>6, <1>7, SeenCases


\* Parts come from requests.
LEMMA SendersAreRequests ==
    /\ \A parts \in Seq(RequestPart) : Senders(parts) \subseteq Requests
    /\ \A parts \in Seq(ResponsePart) : Senders(parts) \subseteq Requests
<1>1. ASSUME NEW parts \in Seq(RequestPart) PROVE Senders(parts) \subseteq Requests
  <2>1. \A i \in DOMAIN parts : parts[i] \in RequestPart
    OBVIOUS
  <2> QED
    BY <2>1 DEF Senders, RequestPart
<1>2. ASSUME NEW parts \in Seq(ResponsePart) PROVE Senders(parts) \subseteq Requests
  <2>1. \A i \in DOMAIN parts : parts[i] \in ResponsePart
    OBVIOUS
  <2> QED
    BY <2>1 DEF Senders, ResponsePart
<1> QED
  BY <1>1, <1>2

\* The part of TypeOK about the server.
ServerTypes == arrived \subseteq Requests /\ whole \subseteq Requests /\ received \subseteq Requests

\* Only requests are delivered.
LEMMA DeliverType ==
    ASSUME ServerTypes, NEW parts \in Seq(RequestPart), Deliver(parts)
    PROVE  ServerTypes'
<1>1. \A i \in DOMAIN parts : parts[i].req \in Requests
  <2>1. \A i \in DOMAIN parts : parts[i] \in RequestPart
    OBVIOUS
  <2> QED
    BY <2>1 DEF RequestPart
<1> QED
  BY <1>1 DEF Deliver, ServerTypes

\* The application's next parts.
LEMMA TakenType ==
    ASSUME NEW s \in Seq(RequestPart), NEW n \in 1 .. MaxWrite, n <= Len(s)
    PROVE  /\ n \in Nat \ {0}
           /\ SubSeq(s, 1, n) \in Seq(RequestPart)
           /\ Rest(s, n) \in Seq(RequestPart)
<1>1. n \in Nat \ {0}
  BY Http1Assumption
<1> QED
  BY <1>1, TakenAndRest DEF Rest

\* The part of TypeOK about the hook.
HookTypes ==
    /\ requestBuffer \in Seq(RequestPart) /\ responseBuffer \in Seq(ResponsePart)
    /\ requestState \in ParsingState /\ responseState \in ParsingState
    /\ pendingRequest \in Infos \cup {None}
    /\ sentRequests \subseteq Requests /\ replied \subseteq Requests

\* A request that was read keeps the types of the hook's state.
LEMMA RequestSeenType ==
    ASSUME HookTypes, NEW seen \in SeenType, RequestSeen(seen)
    PROVE  HookTypes'
  BY DEF HookTypes, SeenType, RequestSeen

\* A report keeps the types of what it touches.
LEMMA ReportType ==
    ASSUME HookTypes, stopped \subseteq Requests, NEW bytes \in Seq(ResponsePart),
           completeAndDispatchRequest(bytes)
    PROVE  /\ sentRequests' \subseteq Requests /\ replied' \subseteq Requests
           /\ stopped' \subseteq Requests
<1>1. Senders(bytes) \subseteq Requests
  BY SendersAreRequests
<1> QED
  BY <1>1 DEF HookTypes, completeAndDispatchRequest

\* processResponseBuffer keeps the types, whether it ignores, waits or reports.
LEMMA ResponseTypes ==
    ASSUME HookTypes, stopped \subseteq Requests, NEW buffer \in Seq(ResponsePart),
           processResponseBuffer(buffer)
    PROVE  HookTypes' /\ stopped' \subseteq Requests
<1> DEFINE n == First(buffer, {"head", "interim"})
<1>0. n \in 0 .. Len(buffer) /\ Len(buffer) \in Nat
  BY FirstPart
<1>l. n > 0 => buffer[n].length \in Lengths
  <2>1. n > 0 => buffer[n] \in ResponsePart
    BY <1>0
  <2> QED
    BY <2>1 DEF ResponsePart
<1>1. CASE ResponseIgnored(buffer)
  BY <1>1 DEF ResponseIgnored, sentVars, HookTypes
<1>2. CASE ResponseWaits(buffer)
  BY <1>2 DEF ResponseWaits, sentVars, HookTypes
<1>3. CASE ResponseHeadOnly(buffer)
  <2>1. n > 0 /\ completeAndDispatchRequest(SubSeq(buffer, 1, n))
    BY <1>3 DEF ResponseHeadOnly
  <2>2. SubSeq(buffer, 1, n) \in Seq(ResponsePart)
    BY <1>0, TakenAndRest
  <2>3. sentRequests' \subseteq Requests /\ replied' \subseteq Requests /\ stopped' \subseteq Requests
    BY <2>1, <2>2, ReportType
  <2>4. responseState' = [isHeaderParsed |-> TRUE, headerSize |-> n,
                          contentLength |-> buffer[n].length, isIgnored |-> TRUE]
    BY <1>3 DEF ResponseHeadOnly
  <2>5. responseState' \in ParsingState
    BY <1>0, <1>l, <2>1, <2>4 DEF ParsingState
  <2> QED
    BY <1>3, <2>3, <2>5 DEF ResponseHeadOnly, HookTypes
<1>4. CASE ResponseWithBody(buffer)
  <2> DEFINE state == IF responseState.isHeaderParsed THEN responseState
                      ELSE [isHeaderParsed |-> TRUE, headerSize |-> n,
                            contentLength |-> buffer[n].length, isIgnored |-> FALSE]
             size == state.headerSize + state.contentLength
  <2>1. responseState.isHeaderParsed \/ n > 0
    BY <1>4 DEF ResponseWithBody
  <2>2. state \in ParsingState
    BY <1>0, <1>l, <2>1 DEF ParsingState, HookTypes
  <2>3. size \in Int
    BY <2>2 DEF ParsingState, Lengths
  <2>4. FreshState \in ParsingState
    BY DEF FreshState, ParsingState, Lengths
  <2> DEFINE end == IF size > n THEN size ELSE n
  <2>5. \/ /\ responseBuffer' = buffer
           /\ responseState' = state
           /\ UNCHANGED <<requestState, pendingRequest, sentVars, reported, stopped>>
        \/ /\ Len(buffer) >= size
           /\ completeAndDispatchRequest(SubSeq(buffer, 1, end))
           /\ responseState' = FreshState
           /\ pendingRequest' = None
           /\ \/ /\ size >= 0
                 /\ responseBuffer' = cleanBuffer(buffer, size)
                 /\ requestState' = FreshState
              \/ /\ responseBuffer' = <<>>
                 /\ UNCHANGED requestState
    BY <1>4 DEF ResponseWithBody, MessageSize
  <2>6. UNCHANGED requestBuffer
    BY <1>4 DEF ResponseWithBody
  <2>7. Len(buffer) >= size =>
            /\ SubSeq(buffer, 1, end) \in Seq(ResponsePart)
            /\ size >= 0 => cleanBuffer(buffer, size) \in Seq(ResponsePart)
    <3> HIDE DEF state, n, size
    <3>1. Len(buffer) >= size => end \in Nat /\ end <= Len(buffer)
      BY <1>0, <2>3
    <3>2. Len(buffer) >= size /\ size >= 0 => size \in Nat
      BY <1>0, <2>3
    <3> HIDE DEF end
    <3> QED
      BY <1>0, <3>1, <3>2, TakenAndRest DEF cleanBuffer
  <2>e. <<>> \in Seq(ResponsePart)
    OBVIOUS
  <2> HIDE DEF state, size, end
  <2>8. CASE /\ responseBuffer' = buffer
             /\ responseState' = state
             /\ UNCHANGED <<requestState, pendingRequest, sentVars, reported, stopped>>
    BY <2>2, <2>6, <2>8 DEF sentVars, HookTypes
  <2>9. CASE /\ Len(buffer) >= size
             /\ completeAndDispatchRequest(SubSeq(buffer, 1, end))
             /\ responseState' = FreshState
             /\ pendingRequest' = None
             /\ \/ /\ size >= 0
                   /\ responseBuffer' = cleanBuffer(buffer, size)
                   /\ requestState' = FreshState
                \/ /\ responseBuffer' = <<>>
                   /\ UNCHANGED requestState
    <3>1. sentRequests' \subseteq Requests /\ replied' \subseteq Requests /\ stopped' \subseteq Requests
      BY <2>7, <2>9, ReportType
    <3>2. responseBuffer' \in Seq(ResponsePart) /\ requestState' \in ParsingState
      BY <2>4, <2>7, <2>9, <2>e DEF HookTypes
    <3> QED
      BY <2>4, <2>6, <2>9, <3>1, <3>2 DEF HookTypes
  <2> QED
    BY <2>5, <2>8, <2>9
<1> QED
  BY <1>1, <1>2, <1>3, <1>4 DEF processResponseBuffer

\* The part of TypeOK about the case.
CaseTypes ==
    /\ layer \in {"native", "java"} /\ collect \in BOOLEAN
    /\ denied \subseteq Requests /\ bodied \subseteq Requests

\* The rest of TypeOK.
OtherTypes ==
    /\ pc \in {"idle", "get", "put"}
    /\ writing \in Seq(RequestPart) /\ requestInfo \in Infos \cup {None}
    /\ connection \in {"open", "closing", "closed"}
    /\ requests \in 0 .. MaxRequest /\ todo \in Seq(RequestPart)
    /\ answers \in Seq(ResponsePart)
    /\ stopped \subseteq Requests

\* TypeOK is the conjunction of its parts.
LEMMA TypeParts == TypeOK <=> CaseTypes /\ HookTypes /\ ServerTypes /\ OtherTypes
  BY DEF TypeOK, CaseTypes, HookTypes, ServerTypes, OtherTypes

\* The types hold before the first request.
LEMMA InitType == Init => TypeOK
<1> SUFFICES ASSUME Init PROVE TypeOK
  OBVIOUS
<1>1. FreshState \in ParsingState
  BY DEF FreshState, ParsingState, Lengths
<1>2. 0 \in 0 .. MaxRequest
  BY Http1Assumption
<1>3. CaseTypes /\ HookTypes
  BY <1>1 DEF Init, CaseTypes, HookTypes
<1>4. ServerTypes /\ OtherTypes
  BY <1>2 DEF Init, ServerTypes, OtherTypes
<1> QED
  BY <1>3, <1>4, TypeParts

\* A refused write only adds its requests to those stopped.
LEMMA RefuseType ==
    ASSUME TypeOK, NEW parts \in Seq(RequestPart), Refuse(parts)
    PROVE  ServerTypes' /\ todo' \in Seq(RequestPart) /\ stopped' \subseteq Requests
<1>1. Senders(parts) \subseteq Requests
  BY SendersAreRequests
<1> QED
  BY <1>1 DEF Refuse, TypeOK, ServerTypes

\* What is written goes to the server or back to the application.
LEMMA WriteThroughType ==
    ASSUME ServerTypes, NEW parts \in Seq(RequestPart), NEW later \in Seq(RequestPart), NEW events,
           WriteThrough(parts, later, events)
    PROVE  ServerTypes' /\ todo' \in Seq(RequestPart)
<1>1. PICK n \in 0 .. Len(parts) : Deliver(SubSeq(parts, 1, n)) /\ todo' = Rest(parts, n) \o later
  BY DEF WriteThrough
<1>2. n \in Nat /\ n <= Len(parts)
  OBVIOUS
<1>3. SubSeq(parts, 1, n) \in Seq(RequestPart) /\ Rest(parts, n) \in Seq(RequestPart)
  BY <1>2, TakenAndRest DEF Rest
<1>4. ServerTypes'
  BY <1>1, <1>3, DeliverType
<1> QED
  BY <1>1, <1>3, <1>4

\* A write of the java layer keeps the types.
LEMMA JavaWriteType ==
    ASSUME TypeOK, NEW n \in 1 .. MaxWrite, JavaWrite(n)
    PROVE  TypeOK'
<1>0. CaseTypes /\ HookTypes /\ ServerTypes /\ OtherTypes
  BY TypeParts
<1>1. n <= Len(todo)
  BY DEF JavaWrite
<1>2. Taken(n) \in Seq(RequestPart) /\ Rest(todo, n) \in Seq(RequestPart)
  BY <1>0, <1>1, TakenType DEF OtherTypes, Taken
<1>3. requestBuffer \o Taken(n) \in Seq(RequestPart)
  BY <1>0, <1>2 DEF HookTypes
<1>4. PICK seen \in processRequestBuffer(requestBuffer \o Taken(n)) :
          /\ RequestSeen(seen)
          /\ IF seen.block THEN Refuse(Taken(n))
             ELSE WriteThrough(Taken(n), Rest(todo, n), MarksOf(seen)) /\ UNCHANGED stopped
  BY DEF JavaWrite
<1>5. HookTypes'
  <2>1. seen \in SeenType
    BY <1>0, <1>3, SeenHasType DEF HookTypes
  <2> QED
    BY <1>0, <1>4, <2>1, RequestSeenType
<1>6. ServerTypes' /\ todo' \in Seq(RequestPart) /\ stopped' \subseteq Requests
  <2>1. CASE seen.block
    BY <1>2, <1>4, <2>1, RefuseType
  <2>2. CASE ~seen.block
    <3>1. ServerTypes' /\ todo' \in Seq(RequestPart)
      BY <1>0, <1>2, <1>4, <2>2, WriteThroughType
    <3> QED
      BY <1>0, <1>4, <2>2, <3>1 DEF OtherTypes
  <2> QED
    BY <2>1, <2>2
<1>7. CaseTypes' /\ OtherTypes'
  BY <1>0, <1>6 DEF JavaWrite, case, writeVars, CaseTypes, OtherTypes
<1> QED
  BY <1>5, <1>6, <1>7, TypeParts DEF CaseTypes, HookTypes, ServerTypes, OtherTypes, TypeOK

\* A write of the native layer keeps the types.
LEMMA NativeWriteType ==
    ASSUME TypeOK, NEW n \in 1 .. MaxWrite, NativeWrite(n)
    PROVE  TypeOK'
<1>0. CaseTypes /\ HookTypes /\ ServerTypes /\ OtherTypes
  BY TypeParts
<1>1. n <= Len(todo)
  BY DEF NativeWrite
<1>2. Taken(n) \in Seq(RequestPart) /\ Rest(todo, n) \in Seq(RequestPart)
  BY <1>0, <1>1, TakenType DEF OtherTypes, Taken
<1>3. requestBuffer \o Taken(n) \in Seq(RequestPart)
  BY <1>0, <1>2 DEF HookTypes
<1>4. PICK seen \in processRequestBuffer(requestBuffer \o Taken(n)) : RequestSeen(seen)
  BY DEF NativeWrite
<1>5. HookTypes'
  <2>1. seen \in SeenType
    BY <1>0, <1>3, SeenHasType DEF HookTypes
  <2> QED
    BY <1>0, <1>4, <2>1, RequestSeenType
<1>6. CaseTypes' /\ OtherTypes' /\ ServerTypes'
  BY <1>0, <1>2 DEF NativeWrite, case, serverVars, CaseTypes, OtherTypes, ServerTypes
<1> QED
  BY <1>5, <1>6 DEF CaseTypes, HookTypes, ServerTypes, OtherTypes, TypeOK

\* A write the hook does not look at keeps the types.
LEMMA UnseenWriteType ==
    ASSUME TypeOK, NEW n \in 1 .. MaxWrite, UnseenWrite(n)
    PROVE  TypeOK'
<1>0. CaseTypes /\ HookTypes /\ ServerTypes /\ OtherTypes
  BY TypeParts
<1>1. n <= Len(todo)
  BY DEF UnseenWrite
<1>2. Taken(n) \in Seq(RequestPart) /\ Rest(todo, n) \in Seq(RequestPart)
  BY <1>0, <1>1, TakenType DEF OtherTypes, Taken
<1>3. ServerTypes'
  <2>1. Deliver(Taken(n))
    BY DEF UnseenWrite
  <2> QED
    BY <1>0, <1>2, <2>1, DeliverType
<1>4. HookTypes'
  <2>1. requestBuffer' \in Seq(RequestPart)
    <3>1. requestBuffer' = requestBuffer \/ requestBuffer' = <<>>
      BY DEF UnseenWrite
    <3> QED
      BY <1>0, <3>1, EmptySeq DEF HookTypes
  <2> QED
    BY <1>0, <2>1 DEF UnseenWrite, sentVars, HookTypes
<1>5. CaseTypes' /\ OtherTypes'
  BY <1>0, <1>2 DEF UnseenWrite, case, writeVars, CaseTypes, OtherTypes
<1> QED
  BY <1>3, <1>4, <1>5 DEF CaseTypes, HookTypes, ServerTypes, OtherTypes, TypeOK

\* The end of a native write keeps the types, whether refused, taken or cut short.
LEMMA PutPendingType ==
    ASSUME TypeOK, PutPending
    PROVE  TypeOK'
<1>0. CaseTypes /\ HookTypes /\ ServerTypes /\ OtherTypes
  BY TypeParts
<1>1. ServerTypes' /\ todo' \in Seq(RequestPart) /\ stopped' \subseteq Requests
      /\ pendingRequest' \in Infos \cup {None}
  <2>1. CASE BlockWrite
    BY <1>0, <2>1, RefuseType DEF BlockWrite, OtherTypes
  <2>2. CASE /\ \/ WriteThrough(writing, todo, {})
                \/ UNCHANGED <<todo, arrived, whole, received, noted>>
             /\ UNCHANGED stopped
             /\ pendingRequest' = IF requestInfo = None THEN pendingRequest ELSE requestInfo
    <3>1. pendingRequest' \in Infos \cup {None} /\ stopped' \subseteq Requests
      BY <1>0, <2>2 DEF HookTypes, OtherTypes
    <3>2. CASE UNCHANGED <<todo, arrived, whole, received, noted>>
      BY <1>0, <3>1, <3>2 DEF ServerTypes, OtherTypes
    <3>3. CASE WriteThrough(writing, todo, {})
      BY <1>0, <3>1, <3>3, WriteThroughType DEF OtherTypes
    <3> QED
      BY <2>2, <3>2, <3>3
  <2> QED
    BY <2>1, <2>2 DEF PutPending
<1>2. None \in Infos \cup {None} /\ <<>> \in Seq(RequestPart)
  OBVIOUS
<1>3. CaseTypes' /\ HookTypes' /\ OtherTypes'
  BY <1>0, <1>1, <1>2 DEF PutPending, Announce, case, CaseTypes, HookTypes, OtherTypes
<1> QED
  BY <1>1, <1>3 DEF CaseTypes, HookTypes, ServerTypes, OtherTypes, TypeOK

\* A read keeps the types.
LEMMA ReadType ==
    ASSUME TypeOK, NEW n \in 1 .. MaxWrite, Read(n)
    PROVE  TypeOK'
<1>0. CaseTypes /\ HookTypes /\ ServerTypes /\ OtherTypes
  BY TypeParts
<1>1. n \in Nat /\ n <= Len(answers)
  BY Http1Assumption DEF Read
<1>2. SubSeq(answers, 1, n) \in Seq(ResponsePart) /\ Rest(answers, n) \in Seq(ResponsePart)
  BY <1>0, <1>1, TakenAndRest DEF OtherTypes, Rest
<1>3. responseBuffer \o SubSeq(answers, 1, n) \in Seq(ResponsePart)
  BY <1>0, <1>2 DEF HookTypes
<1>4. HookTypes' /\ stopped' \subseteq Requests
  <2>1. CASE responseBuffer' = <<>>
             /\ UNCHANGED <<requestBuffer, requestState, responseState, pendingRequest, sentVars,
                           stopped, reportVars>>
    BY <1>0, <2>1 DEF sentVars, HookTypes, OtherTypes
  <2>2. CASE processResponseBuffer(responseBuffer \o SubSeq(answers, 1, n))
    BY <1>0, <1>3, <2>2, ResponseTypes DEF OtherTypes
  <2> QED
    BY <2>1, <2>2 DEF Read
<1>5. CaseTypes' /\ OtherTypes' /\ ServerTypes'
  BY <1>0, <1>2, <1>4 DEF Read, case, writeVars, CaseTypes, OtherTypes, ServerTypes
<1> QED
  BY <1>4, <1>5 DEF CaseTypes, HookTypes, ServerTypes, OtherTypes, TypeOK

\* An answer of the server keeps the types.
LEMMA ServerAnswersType ==
    ASSUME TypeOK, ServerAnswers
    PROVE  TypeOK'
<1>0. CaseTypes /\ HookTypes /\ ServerTypes /\ OtherTypes
  BY TypeParts
<1>r. PICK r \in arrived :
          \E answer \in SizedAnswers(r) \cup InterimAnswers(r) \cup UnsizedAnswers(r) :
              /\ arrived' = arrived \ {r}
              /\ whole' = whole \ {r}
              /\ answers' = answers \o answer
              /\ UNCHANGED <<case, hookVars, writeVars, connection, requests, todo, received,
                             stopped, reportVars>>
  BY DEF ServerAnswers
<1>1. PICK answer \in SizedAnswers(r) \cup InterimAnswers(r) \cup UnsizedAnswers(r) :
          /\ arrived' = arrived \ {r}
          /\ whole' = whole \ {r}
          /\ answers' = answers \o answer
          /\ UNCHANGED <<case, hookVars, writeVars, connection, requests, todo, received,
                         stopped, reportVars>>
  BY <1>r
<1>2. \A part \in {"head", "interim", "body"}, l \in Lengths, last \in BOOLEAN :
          Answer(r, part, l, last) \in ResponsePart
  BY <1>0 DEF Answer, ResponsePart, ServerTypes
<1>3. answer \in Seq(ResponsePart)
  <2>1. 0 \in Lengths /\ 1 \in Lengths
    BY DEF Lengths
  <2>2. \A part \in {"head", "interim", "body"}, l \in Lengths, last \in BOOLEAN :
            <<Answer(r, part, l, last)>> \in Seq(ResponsePart)
    BY <1>2
  <2>3. \A p1 \in {"head", "interim", "body"}, p2 \in {"head", "interim", "body"}, l \in Lengths,
          b1, b2 \in BOOLEAN :
            <<Answer(r, p1, l, b1), Answer(r, p2, 0, b2)>> \in Seq(ResponsePart)
    BY <1>2, <2>1
  <2>4. CASE answer \in SizedAnswers(r)
    BY <2>1, <2>2, <2>3, <2>4 DEF SizedAnswers
  <2>5. CASE answer \in InterimAnswers(r)
    BY <2>1, <2>3, <2>5 DEF InterimAnswers
  <2>6. CASE answer \in UnsizedAnswers(r)
    BY <2>1, <2>2, <2>3, <2>6 DEF UnsizedAnswers
  <2> QED
    BY <2>4, <2>5, <2>6
<1>4. answers' \in Seq(ResponsePart)
  <2>1. answers' = answers \o answer /\ answers \in Seq(ResponsePart)
    BY <1>0, <1>1 DEF OtherTypes
  <2> QED
    BY <1>3, <2>1
<1>5. CaseTypes' /\ HookTypes'
  BY <1>0, <1>1 DEF case, hookVars, sentVars, CaseTypes, HookTypes
<1>6. ServerTypes' /\ OtherTypes'
  BY <1>0, <1>1, <1>4 DEF writeVars, ServerTypes, OtherTypes
<1> QED
  BY <1>5, <1>6 DEF CaseTypes, HookTypes, ServerTypes, OtherTypes, TypeOK

\* The expiry of an entry keeps the types.
LEMMA ExpireType ==
    ASSUME TypeOK, Expire
    PROVE  TypeOK'
<1>0. CaseTypes /\ HookTypes /\ ServerTypes /\ OtherTypes
  BY TypeParts
<1>1. FreshState \in ParsingState
  BY DEF FreshState, ParsingState, Lengths
<1>2. HookTypes'
  <2>1. None \in Infos \cup {None} /\ <<>> \in Seq(RequestPart) /\ <<>> \in Seq(ResponsePart)
    OBVIOUS
  <2> QED
    BY <1>0, <1>1, <2>1 DEF Expire, sentVars, HookTypes
<1>3. CaseTypes' /\ OtherTypes' /\ ServerTypes'
  BY <1>0 DEF Expire, case, writeVars, serverVars, CaseTypes, OtherTypes, ServerTypes
<1> QED
  BY <1>2, <1>3 DEF CaseTypes, HookTypes, ServerTypes, OtherTypes, TypeOK

\* TypeOK is kept by every step.
LEMMA NextType ==
    ASSUME TypeOK, [Next]_vars
    PROVE  TypeOK'
<1>0. CaseTypes /\ HookTypes /\ ServerTypes /\ OtherTypes
  BY TypeParts
<1>1. CASE BeginRequest
  <2>1. requests + 1 \in Requests
    BY <1>0, <1>1, Http1Assumption DEF BeginRequest, OtherTypes, Requests
  <2>2. PICK length \in Lengths : todo' = todo \o RequestParts(requests + 1, length)
    BY <1>1 DEF BeginRequest
  <2>4. RequestParts(requests + 1, length) \in Seq(RequestPart)
    BY <2>1, PartsType
  <2>5. todo' \in Seq(RequestPart)
    BY <1>0, <2>2, <2>4 DEF OtherTypes
  <2>3. todo' \in Seq(RequestPart) /\ requests' \in 0 .. MaxRequest
    BY <1>0, <1>1, <2>1, <2>5 DEF BeginRequest, OtherTypes, Requests
  <2> QED
    BY <1>0, <1>1, <2>3 DEF BeginRequest, case, hookVars, sentVars, writeVars, serverVars,
          CaseTypes, HookTypes, ServerTypes, OtherTypes, TypeOK
<1>2. CASE ReadPending
  BY <1>0, <1>2 DEF ReadPending, case, hookVars, sentVars, serverVars,
        CaseTypes, HookTypes, ServerTypes, OtherTypes, TypeOK
<1>3. CASE onConnectionClosed
  BY <1>0, <1>3 DEF onConnectionClosed, case, sentVars, writeVars, serverVars,
        CaseTypes, HookTypes, ServerTypes, OtherTypes, TypeOK
<1>4. CASE Close
  BY <1>0, <1>4 DEF Close, case, hookVars, sentVars, writeVars,
        CaseTypes, HookTypes, ServerTypes, OtherTypes, TypeOK
<1>5. CASE Reopen
  BY <1>0, <1>5 DEF Reopen, case, hookVars, sentVars, writeVars, serverVars,
        CaseTypes, HookTypes, ServerTypes, OtherTypes, TypeOK
<1>7. CASE Forget
  <2>1. sentRequests' \subseteq Requests /\ replied' \subseteq Requests
    BY <1>0, <1>7 DEF Forget, HookTypes
  <2> QED
    BY <1>0, <1>7, <2>1 DEF Forget, case, writeVars, serverVars,
          CaseTypes, HookTypes, ServerTypes, OtherTypes, TypeOK
<1>6. CASE UNCHANGED vars
  BY <1>0, <1>6 DEF vars, case, hookVars, sentVars, writeVars, serverVars,
        CaseTypes, HookTypes, ServerTypes, OtherTypes, TypeOK
<1> QED
  BY <1>1, <1>2, <1>3, <1>4, <1>5, <1>6, <1>7, JavaWriteType, NativeWriteType, UnseenWriteType, ReadType,
     PutPendingType, ServerAnswersType, ExpireType DEF Next

\* The parsing states hold one of the lengths a head can give, or the -1 they begin with, and all
\* other variables keep their types.
THEOREM TypeCorrect == Spec => []TypeOK
  BY InitType, NextType, PTL DEF Spec

\* What processRequestBuffer leaves of a parsed message is not all of it.
LEMMA SeenUnfinished ==
    ASSUME requestState \in ParsingState, NEW buffer \in Seq(RequestPart),
           NEW seen \in processRequestBuffer(buffer)
    PROVE  seen.state.isHeaderParsed /\ ~seen.state.isIgnored =>
               Len(seen.buffer) < MessageSize(seen.state)
<1> DEFINE n == First(buffer, {"end", "chunks"})
           size == requestState.headerSize + requestState.contentLength
           Goal == seen.state.isHeaderParsed /\ ~seen.state.isIgnored =>
                       Len(seen.buffer) < MessageSize(seen.state)
<1> SUFFICES Goal
  OBVIOUS
<1>1. ASSUME NEW info, NEW length, ReadAs(seen, buffer, n, length, info) PROVE Goal
  <2> HIDE DEF n
  <2> QED
    BY <1>1 DEF ReadAs, HeadState, FreshState, MessageSize
<1>2. CASE seen = [buffer |-> <<>>, state |-> requestState, info |-> None, block |-> FALSE]
           /\ requestState.isIgnored
  BY <1>2
<1>3. CASE seen = [buffer |-> buffer, state |-> requestState, info |-> None, block |-> FALSE]
           /\ (IF requestState.isHeaderParsed THEN Len(buffer) < size ELSE n = 0)
  BY <1>3 DEF MessageSize
<1>4. CASE seen = [buffer |-> SubSeq(buffer, size + 1, Len(buffer)),
                   state |-> [requestState EXCEPT !.isHeaderParsed = FALSE],
                   info |-> None, block |-> FALSE]
  BY <1>4 DEF ParsingState
<1>5. CASE seen = [buffer |-> <<>>, state |-> FreshState, info |-> None, block |-> FALSE]
  BY <1>5 DEF FreshState
<1> HIDE DEF Goal
<1> QED
  BY <1>1, <1>2, <1>3, <1>4, <1>5, SeenCases

\* Every step leaves of a parsed message less than all of it: writes by the last cut, answers, closes
\* and expiries by emptying the buffer or the state.
LEMMA NextUnfinished ==
    ASSUME TypeOK, OnlyUnfinishedStays, [Next]_vars
    PROVE  OnlyUnfinishedStays'
<1>f. FreshState.isHeaderParsed = FALSE
  BY DEF FreshState
<1>1. ASSUME NEW n \in 1 .. MaxWrite, n <= Len(todo),
             NEW seen \in processRequestBuffer(requestBuffer \o Taken(n)), RequestSeen(seen)
      PROVE  OnlyUnfinishedStays'
  <2>1. Taken(n) \in Seq(RequestPart)
    BY <1>1, TakenType DEF TypeOK, Taken
  <2>2. requestBuffer \o Taken(n) \in Seq(RequestPart)
    BY <2>1 DEF TypeOK
  <2>3. seen.state.isHeaderParsed /\ ~seen.state.isIgnored =>
            Len(seen.buffer) < MessageSize(seen.state)
    BY <2>2, SeenUnfinished DEF TypeOK
  <2> QED
    BY <1>1, <2>3 DEF RequestSeen, OnlyUnfinishedStays, MessageSize
<1>2. CASE requestState' = FreshState
  BY <1>f, <1>2 DEF OnlyUnfinishedStays
<1>3. CASE UNCHANGED <<requestState, requestBuffer>>
  BY <1>3 DEF OnlyUnfinishedStays, MessageSize
<1>4. CASE requestBuffer' = <<>> /\ UNCHANGED requestState
  <2>1. Len(requestBuffer) \in Nat /\ Len(requestBuffer') = 0
    BY <1>4 DEF TypeOK
  <2>2. requestState.headerSize + requestState.contentLength \in Int
    BY DEF TypeOK, ParsingState, Lengths
  <2> QED
    BY <1>4, <2>1, <2>2 DEF OnlyUnfinishedStays, MessageSize
<1>5. ASSUME NEW n \in 1 .. MaxWrite, JavaWrite(n) \/ NativeWrite(n) PROVE OnlyUnfinishedStays'
  BY <1>1, <1>5 DEF JavaWrite, NativeWrite
<1>6. ASSUME NEW n \in 1 .. MaxWrite, UnseenWrite(n) PROVE OnlyUnfinishedStays'
  BY <1>3, <1>4, <1>6 DEF UnseenWrite
<1>7. ASSUME NEW n \in 1 .. MaxWrite, Read(n) PROVE OnlyUnfinishedStays'
  <2>1. UNCHANGED <<requestState, requestBuffer>>
        \/ (requestState' = FreshState /\ UNCHANGED requestBuffer)
    BY <1>7 DEF Read, processResponseBuffer, ResponseIgnored, ResponseWaits, ResponseHeadOnly,
          ResponseWithBody
  <2> QED
    BY <1>2, <1>3, <2>1
<1>8. CASE Expire
  BY <1>2, <1>3, <1>8 DEF Expire
<1>9. CASE onConnectionClosed
  BY <1>4, <1>9 DEF onConnectionClosed
<1>10. CASE BeginRequest \/ ReadPending \/ PutPending \/ ServerAnswers \/ Close \/ Reopen \/ Forget
            \/ UNCHANGED vars
  BY <1>3, <1>10 DEF BeginRequest, ReadPending, PutPending, ServerAnswers, Close, Reopen, Forget,
        vars, hookVars
<1> QED
  BY <1>5, <1>6, <1>7, <1>8, <1>9, <1>10 DEF Next

\* Of a message whose head was parsed less than all of it stays in the request buffer, for buffers,
\* writes and lengths of any size, and after every event.
THEOREM OnlyTheUnfinishedStay == Spec => []OnlyUnfinishedStays
<1>1. Init => OnlyUnfinishedStays
  BY DEF Init, FreshState, OnlyUnfinishedStays
<1>2. TypeOK /\ OnlyUnfinishedStays /\ [Next]_vars => OnlyUnfinishedStays'
  BY NextUnfinished
<1> QED
  BY <1>1, <1>2, TypeCorrect, PTL DEF Spec


----------------------------------------------------------------------------
(* One request at a time *)

\* Parts of the current request that the hook has processed, and those that have reached
\* the server; an exchange is outstanding until its answer has been read.
Processed == SizeOf(requests) - Len(todo)
Gone == Processed - Len(writing)
Outstanding == arrived # {} \/ answers # <<>>

\* Nothing has happened that puts messages out of order or hides them from the hook.
Orderly == quirks \cap {"pipelined", "unframed", "repeated", "unseen", "raced"} = {}

\* The current request is in the hands of the hook, the write and the application, in order.
PartsInOrder ==
    /\ requests = 0 => todo = <<>> /\ writing = <<>>
    /\ Gone >= 0
    /\ \A i \in 1 .. Len(todo) : todo[i] = PartOf(requests, Processed + i)
    /\ \A i \in 1 .. Len(writing) : writing[i] = PartOf(requests, Gone + i)

\* The server has at most the current request, or its answer is on its way.
ServerInOrder ==
    /\ arrived \subseteq {requests} /\ whole \subseteq arrived
    /\ Outstanding => Gone >= 2
    /\ whole # {} => todo = <<>> /\ writing = <<>>
    /\ arrived # {} => answers = <<>>
    /\ "early" \notin quirks /\ answers # <<>> => todo = <<>> /\ writing = <<>>
    /\ connection = "closed" => todo = <<>> /\ ~Outstanding
    /\ connection # "open" => Idle

\* Heads that give the length of their bodies.
TrueSizes(b) == \A i \in 1 .. Len(b) : b[i].part # "chunks" /\ b[i].length = TrueLength(b[i].req)

\* The inductive invariant about the exchange: without disorder, one request at a time.
OneAtATime == Orderly => PartsInOrder /\ ServerInOrder /\ TrueSizes(requestBuffer)

\* How the hook's own variables hang together, in every behaviour.
HookStates ==
    /\ Idle <=> writing = <<>>
    /\ pc # "put" => requestInfo = None
    /\ layer = "java" => Idle
    /\ requestState.isIgnored => requestState.isHeaderParsed
    /\ responseState.isIgnored => responseState.isHeaderParsed
    /\ ~collect /\ responseState.isHeaderParsed => responseState.isIgnored
    /\ responseState.isHeaderParsed /\ ~responseState.isIgnored => MessageSize(responseState) > 0
    /\ OnlyUnfinishedStays

\* What has happened stays noted.
LEMMA QuirksStay == [Next]_vars => quirks \subseteq quirks'
<1> SUFFICES ASSUME [Next]_vars PROVE quirks \subseteq quirks'
  OBVIOUS
<1> USE DEF Note, noted
<1>1. CASE BeginRequest
  BY <1>1 DEF BeginRequest
<1>2. ASSUME NEW n \in 1 .. MaxWrite, JavaWrite(n) \/ NativeWrite(n) \/ UnseenWrite(n) \/ Read(n)
      PROVE  quirks \subseteq quirks'
  <2>1. CASE JavaWrite(n)
    BY <2>1 DEF JavaWrite, WriteThrough
  <2>2. CASE NativeWrite(n)
    BY <2>2 DEF NativeWrite
  <2>3. CASE UnseenWrite(n)
    BY <2>3 DEF UnseenWrite
  <2>4. CASE Read(n)
    BY <2>4 DEF Read
  <2> QED
    BY <1>2, <2>1, <2>2, <2>3, <2>4
<1>3. CASE ReadPending
  BY <1>3 DEF ReadPending
<1>4. CASE PutPending
  BY <1>4 DEF PutPending, BlockWrite, WriteThrough
<1>5. CASE ServerAnswers
  BY <1>5 DEF ServerAnswers
<1>6. CASE onConnectionClosed
  BY <1>6 DEF onConnectionClosed
<1>7. CASE Close \/ Reopen
  BY <1>7 DEF Close, Reopen
<1>8. CASE Expire
  BY <1>8 DEF Expire
<1>9. CASE UNCHANGED vars
  BY <1>9 DEF vars
<1>10. CASE Forget
  BY <1>10 DEF Forget
<1> QED
  BY <1>1, <1>2, <1>3, <1>4, <1>5, <1>6, <1>7, <1>8, <1>9, <1>10 DEF Next

\* A disorderly event cannot have been noted if order reigns afterwards.
LEMMA NotedOrderly ==
    ASSUME NEW events, Note(events), Orderly'
    PROVE  events \cap {"pipelined", "unframed", "repeated", "unseen", "raced"} = {}
  BY DEF Note, Orderly

\* Which heads and ends of requests are among the parts delivered.
LEMMA DeliveredInOrder ==
    ASSUME TypeOK, NEW parts \in Seq(RequestPart), NEW g \in Nat,
           \A i \in 1 .. Len(parts) : parts[i] = PartOf(requests, g + i),
           g + Len(parts) <= SizeOf(requests),
           arrived \subseteq {requests}, whole \subseteq arrived,
           Deliver(parts)
    PROVE  LET heads == IF g < 2 /\ g + Len(parts) >= 2 THEN {requests} ELSE {}
           IN  /\ arrived' = arrived \cup heads
               /\ received' = received \cup heads
               /\ whole' \subseteq arrived'
               /\ g + Len(parts) < SizeOf(requests) => whole' \subseteq whole
<1> DEFINE heads == {parts[i].req : i \in {j \in DOMAIN parts : parts[j].part = "end"}}
           last(r) == IF r \in bodied THEN {"body", "chunks"} ELSE {"end"}
           ends == {parts[i].req : i \in {j \in DOMAIN parts : parts[j].part \in last(parts[j].req)}}
<1>1. /\ arrived' = arrived \cup heads
      /\ whole' = (whole \cup ends) \cap arrived'
      /\ received' = received \cup heads
  BY DEF Deliver
<1>2. PICK l \in Nat : l = Len(parts) /\ DOMAIN parts = 1 .. l
  OBVIOUS
<1>p. \A i \in 1 .. l : parts[i] = PartOf(requests, g + i)
  BY <1>2
<1>q. /\ \A j \in Nat : PartOf(requests, j).req = requests
      /\ \A j \in Nat : PartOf(requests, j).part = "end" <=> j = 2
      /\ \A j \in Nat : PartOf(requests, j).part \in {"body", "chunks"} <=> j # 1 /\ j # 2
  BY DEF PartOf
<1>r. \A i \in 1 .. l : g + i \in Nat
  OBVIOUS
<1>3. \A i \in 1 .. l : parts[i].req = requests
  BY <1>p, <1>q, <1>r
<1>4. ASSUME NEW i \in 1 .. l PROVE parts[i].part = "end" <=> g + i = 2
  BY <1>p, <1>q, <1>r
<1>b. ASSUME NEW i \in 1 .. l PROVE parts[i].part \in {"body", "chunks"} <=> g + i # 1 /\ g + i # 2
  <2>1. parts[i] = PartOf(requests, g + i) /\ g + i \in Nat
    BY <1>p, <1>r
  <2> QED
    BY <1>q, <2>1
<1>5. heads = IF g < 2 /\ g + l >= 2 THEN {requests} ELSE {}
  <2>1. CASE g < 2 /\ g + l >= 2
    <3>1. 2 - g \in 1 .. l /\ g + (2 - g) = 2
      BY <2>1
    <3>2. parts[2 - g].part = "end" /\ parts[2 - g].req = requests
      BY <1>3, <1>4, <3>1
    <3>3. requests \in heads
      BY <1>2, <3>1, <3>2
    <3> QED
      BY <1>2, <1>3, <2>1, <3>3
  <2>2. CASE ~(g < 2 /\ g + l >= 2)
    <3>1. \A i \in 1 .. l : g + i # 2
      BY <2>2
    <3> QED
      BY <1>2, <1>4, <2>2, <3>1
  <2> QED
    BY <2>1, <2>2
<1>6. ASSUME g + l < SizeOf(requests) PROVE ends = {}
  <2>1. \A i \in 1 .. l : parts[i].part \notin last(requests)
    <3>1. CASE requests \in bodied
      <4>1. \A i \in 1 .. l : g + i = 1 \/ g + i = 2
        BY <1>6, <3>1 DEF SizeOf
      <4>2. \A i \in 1 .. l : parts[i].part \notin {"body", "chunks"}
        BY <1>b, <4>1
      <4> QED
        BY <3>1, <4>2
    <3>2. CASE requests \notin bodied
      <4>1. \A i \in 1 .. l : g + i = 1
        BY <1>6, <3>2 DEF SizeOf
      <4>2. \A i \in 1 .. l : parts[i].part # "end"
        BY <1>p, <1>q, <1>r, <4>1
      <4> QED
        BY <3>2, <4>2
    <3> QED
      BY <3>1, <3>2
  <2> QED
    BY <1>2, <1>3, <2>1
<1> HIDE DEF heads, ends
<1> QED
  BY <1>1, <1>2, <1>5, <1>6

\* A message is ignored only with its head.
LEMMA SeenIgnored ==
    ASSUME requestState \in ParsingState, requestState.isIgnored => requestState.isHeaderParsed,
           NEW buffer \in Seq(RequestPart), NEW seen \in processRequestBuffer(buffer)
    PROVE  seen.state.isIgnored => seen.state.isHeaderParsed
<1> DEFINE size == requestState.headerSize + requestState.contentLength
           n == First(buffer, {"end", "chunks"})
<1>1. CASE \/ seen = [buffer |-> <<>>, state |-> requestState, info |-> None, block |-> FALSE]
           \/ seen = [buffer |-> buffer, state |-> requestState, info |-> None, block |-> FALSE]
  BY <1>1
<1>2. CASE /\ ~requestState.isIgnored
           /\ seen = [buffer |-> SubSeq(buffer, size + 1, Len(buffer)),
                      state |-> [requestState EXCEPT !.isHeaderParsed = FALSE],
                      info |-> None, block |-> FALSE]
  <2> HIDE DEF size
  <2>1. seen.state.isIgnored = requestState.isIgnored
    BY <1>2 DEF ParsingState
  <2> QED
    BY <1>2, <2>1
<1>3. ASSUME NEW info, NEW length, ReadAs(seen, buffer, n, length, info)
      PROVE  seen.state.isIgnored => seen.state.isHeaderParsed
  <2> HIDE DEF n
  <2> QED
    BY <1>3 DEF ReadAs, HeadState, FreshState
<1>4. CASE seen = [buffer |-> <<>>, state |-> FreshState, info |-> None, block |-> FALSE]
  BY <1>4 DEF FreshState
<1> QED
  BY <1>1, <1>2, <1>3, <1>4, SeenCases

\* HookStates holds in every state.
LEMMA InitHookStates == Init => HookStates
  BY DEF Init, HookStates, Idle, FreshState, OnlyUnfinishedStays

\* Every step keeps them together.
LEMMA NextHookStates ==
    ASSUME TypeOK, HookStates, [Next]_vars
    PROVE  HookStates'
<1>u. OnlyUnfinishedStays'
  BY NextUnfinished DEF HookStates
<1> USE <1>u DEF Idle
<1>0. /\ requestBuffer \in Seq(RequestPart) /\ requestState \in ParsingState /\ todo \in Seq(RequestPart)
      /\ pc \in {"idle", "get", "put"} /\ layer \in {"java", "native"}
      /\ responseBuffer \in Seq(ResponsePart)
  BY DEF TypeOK
<1>t. ASSUME NEW n \in 1 .. MaxWrite, n <= Len(todo),
             NEW seen \in processRequestBuffer(requestBuffer \o Taken(n)), RequestSeen(seen)
      PROVE  /\ Taken(n) # <<>>
             /\ requestState'.isIgnored => requestState'.isHeaderParsed
             /\ UNCHANGED responseState
  <2>1. Taken(n) \in Seq(RequestPart) /\ Len(Taken(n)) = n /\ n # 0
    BY <1>0, <1>t, TakenAndRest, Http1Assumption DEF Taken
  <2>2. Taken(n) # <<>>
    BY <2>1
  <2>3. requestBuffer \o Taken(n) \in Seq(RequestPart)
    BY <1>0, <2>1
  <2>4. seen.state.isIgnored => seen.state.isHeaderParsed
    BY <1>0, <2>3, SeenIgnored DEF HookStates, MessageSize
  <2> QED
    BY <1>t, <2>2, <2>4 DEF RequestSeen
<1>1. CASE BeginRequest
  BY <1>1 DEF BeginRequest, HookStates, MessageSize, case, hookVars, writeVars
<1>2. ASSUME NEW n \in 1 .. MaxWrite, JavaWrite(n) PROVE HookStates'
  BY <1>2, <1>t DEF JavaWrite, HookStates, MessageSize, case, writeVars
<1>3. ASSUME NEW n \in 1 .. MaxWrite, NativeWrite(n) PROVE HookStates'
  BY <1>3, <1>t DEF NativeWrite, HookStates, MessageSize, case
<1>4. ASSUME NEW n \in 1 .. MaxWrite, UnseenWrite(n) PROVE HookStates'
  BY <1>4 DEF UnseenWrite, HookStates, MessageSize, case, writeVars
<1>5. ASSUME NEW n \in 1 .. MaxWrite, Read(n) PROVE HookStates'
  <2>1. UNCHANGED <<case, writeVars>>
    BY <1>5 DEF Read
  <2>2. CASE UNCHANGED <<requestState, responseState>>
    BY <2>1, <2>2 DEF HookStates, MessageSize, case, writeVars
  <2>b. responseBuffer \o SubSeq(answers, 1, n) \in Seq(ResponsePart)
    <3>1. answers \in Seq(ResponsePart) /\ n \in Nat /\ n <= Len(answers)
      BY <1>5, Http1Assumption DEF TypeOK, Read
    <3>2. SubSeq(answers, 1, n) \in Seq(ResponsePart)
      BY <3>1, TakenAndRest
    <3> QED
      BY <1>0, <3>2
  <2>3. ASSUME NEW buffer \in Seq(ResponsePart), processResponseBuffer(buffer) PROVE HookStates'
    <3>1. CASE ResponseIgnored(buffer) \/ ResponseWaits(buffer)
      BY <2>1, <3>1 DEF ResponseIgnored, ResponseWaits, HookStates, MessageSize, case, writeVars
    <3>2. CASE ResponseHeadOnly(buffer)
      <4>1. UNCHANGED requestState /\ responseState'.isHeaderParsed /\ responseState'.isIgnored
        BY <3>2 DEF ResponseHeadOnly
      <4> QED
        BY <2>1, <4>1 DEF HookStates, MessageSize, case, writeVars
    <3>3. CASE ResponseWithBody(buffer)
      <4>1. collect /\ ~responseState.isIgnored
        BY <3>3 DEF ResponseWithBody, HookStates, MessageSize
      <4> DEFINE n1 == First(buffer, {"head", "interim"})
                 state == IF responseState.isHeaderParsed THEN responseState
                          ELSE [isHeaderParsed |-> TRUE, headerSize |-> n1,
                                contentLength |-> buffer[n1].length, isIgnored |-> FALSE]
      <4>2. \/ /\ UNCHANGED requestState /\ ~responseState'.isIgnored
               /\ MessageSize(responseState') > 0
            \/ (UNCHANGED requestState \/ requestState' = FreshState) /\ responseState' = FreshState
        <5>1. CASE /\ UNCHANGED requestState /\ responseState' = state
                   /\ Len(buffer) < MessageSize(state)
          <6>1. ~state.isIgnored
            BY <4>1
          <6>2. Len(buffer) \in Nat /\ MessageSize(state) \in Int
            <7>1. n1 \in 0 .. Len(buffer) /\ Len(buffer) \in Nat
              BY FirstPart
            <7>2. responseState.isHeaderParsed \/ n1 > 0
              BY <3>3 DEF ResponseWithBody
            <7>3. n1 > 0 => buffer[n1] \in ResponsePart
              BY <7>1, ElementOfSeq
            <7>4. state \in ParsingState
              BY <7>1, <7>2, <7>3 DEF TypeOK, ParsingState, ResponsePart
            <7> HIDE DEF state
            <7> QED
              BY <7>1, <7>4 DEF ParsingState, MessageSize, Lengths
          <6> HIDE DEF state
          <6>3. MessageSize(responseState') > 0
            BY <5>1, <6>2
          <6> QED
            BY <5>1, <6>1, <6>3
        <5>2. CASE (UNCHANGED requestState \/ requestState' = FreshState) /\ responseState' = FreshState
          BY <5>2
        <5>3. \/ UNCHANGED requestState /\ responseState' = state /\ Len(buffer) < MessageSize(state)
              \/ (UNCHANGED requestState \/ requestState' = FreshState) /\ responseState' = FreshState
          BY <3>3 DEF ResponseWithBody
        <5> HIDE DEF state, n1
        <5> QED
          BY <5>1, <5>2, <5>3
      <4> HIDE DEF state, n1
      <4> QED
        BY <2>1, <4>1, <4>2 DEF HookStates, MessageSize, case, writeVars, FreshState
    <3> QED
      BY <2>3, <3>1, <3>2, <3>3 DEF processResponseBuffer
  <2> QED
    BY <1>5, <2>2, <2>b, <2>3 DEF Read
<1>6. CASE ReadPending
  BY <1>6 DEF ReadPending, HookStates, MessageSize, case, hookVars
<1>7. CASE PutPending
  BY <1>7 DEF PutPending, HookStates, MessageSize, case
<1>8. CASE ServerAnswers
  BY <1>8 DEF ServerAnswers, HookStates, MessageSize, case, hookVars, writeVars
<1>9. CASE onConnectionClosed
  BY <1>9 DEF onConnectionClosed, HookStates, MessageSize, case, writeVars
<1>10. CASE Close \/ Reopen
  BY <1>10 DEF Close, Reopen, HookStates, MessageSize, case, hookVars, writeVars
<1>11. CASE Expire
  BY <1>11 DEF Expire, HookStates, MessageSize, FreshState, case, writeVars
<1>12. CASE UNCHANGED vars
  BY <1>12 DEF vars, HookStates, MessageSize, case, hookVars, writeVars
<1>13. CASE Forget
  BY <1>13 DEF Forget, HookStates, MessageSize, case, writeVars
<1> QED
  BY <1>1, <1>2, <1>3, <1>4, <1>5, <1>6, <1>7, <1>8, <1>9, <1>10, <1>11, <1>12, <1>13 DEF Next

\* How far the current request has come.
LEMMA Measures ==
    ASSUME TypeOK
    PROVE  /\ Len(todo) \in Nat /\ Len(writing) \in Nat /\ requests \in Nat
           /\ SizeOf(requests) \in {2, 3}
           /\ Processed \in Int /\ Gone \in Int
           /\ Processed = SizeOf(requests) - Len(todo) /\ Gone = Processed - Len(writing)
           /\ todo = <<>> <=> Len(todo) = 0
           /\ writing = <<>> <=> Len(writing) = 0
<1>1. todo \in Seq(RequestPart) /\ writing \in Seq(RequestPart) /\ requests \in Nat
  BY DEF TypeOK
<1>2. SizeOf(requests) \in {2, 3}
  BY DEF SizeOf
<1>3. Len(todo) \in Nat /\ Len(writing) \in Nat
  BY <1>1
<1>4. (todo = <<>> <=> Len(todo) = 0) /\ (writing = <<>> <=> Len(writing) = 0)
  BY <1>1
<1> QED
  BY <1>1, <1>2, <1>3, <1>4 DEF Processed, Gone

\* The parts of a native write lie between what has gone and what was processed.
LEMMA InHand ==
    ASSUME TypeOK, PartsInOrder
    PROVE  /\ Gone \in Nat /\ Gone + Len(writing) = Processed
           /\ Processed <= SizeOf(requests) /\ writing \in Seq(RequestPart)
<1>1. Gone \in Int /\ Gone >= 0
  BY Measures DEF PartsInOrder
<1>2. PICK a \in Nat, b \in Nat, c \in Nat : a = Len(todo) /\ b = Len(writing) /\ c = SizeOf(requests)
  BY Measures
<1>3. Processed = c - a /\ Gone = Processed - b
  BY <1>2, Measures
<1>4. writing \in Seq(RequestPart)
  BY DEF TypeOK
<1> QED
  BY <1>1, <1>2, <1>3, <1>4

\* The steps that leave the application's side alone keep the parts in order.
LEMMA SameParts ==
    ASSUME UNCHANGED <<bodied, requests, todo, writing>>
    PROVE  /\ Processed' = Processed /\ Gone' = Gone
           /\ PartsInOrder => PartsInOrder'
  BY DEF Processed, Gone, SizeOf, PartsInOrder, PartOf, TrueLength

\* What is left of the request when its next n parts are taken.
LEMMA PartsTaken ==
    ASSUME TypeOK, PartsInOrder, NEW n \in 1 .. MaxWrite, n <= Len(todo)
    PROVE  /\ n \in Nat \ {0} /\ requests # 0
           /\ Taken(n) \in Seq(RequestPart) /\ Len(Taken(n)) = n
           /\ \A i \in 1 .. n : Taken(n)[i] = PartOf(requests, Processed + i)
           /\ Rest(todo, n) \in Seq(RequestPart) /\ Len(Rest(todo, n)) = Len(todo) - n
           /\ \A i \in 1 .. Len(todo) - n : Rest(todo, n)[i] = PartOf(requests, Processed + n + i)
<1>1. todo \in Seq(RequestPart) /\ n \in Nat \ {0} /\ Len(todo) \in Nat
  BY Http1Assumption DEF TypeOK
<1>2. /\ Taken(n) \in Seq(RequestPart) /\ Len(Taken(n)) = n
      /\ \A i \in 1 .. n : Taken(n)[i] = todo[i]
      /\ Rest(todo, n) \in Seq(RequestPart) /\ Len(Rest(todo, n)) = Len(todo) - n
      /\ \A i \in 1 .. Len(todo) - n : Rest(todo, n)[i] = todo[n + i]
  BY <1>1, TakenAndRest DEF Taken, Rest
<1>3. \A i \in 1 .. n : i \in 1 .. Len(todo)
  BY <1>1
<1>4. \A i \in 1 .. Len(todo) - n : n + i \in 1 .. Len(todo) /\ Processed + (n + i) = Processed + n + i
  BY <1>1, Measures
<1>5. requests # 0
  <2>1. todo # <<>>
    BY <1>1
  <2> QED
    BY <2>1 DEF PartsInOrder
<1> QED
  BY <1>1, <1>2, <1>3, <1>4, <1>5 DEF PartsInOrder

\* Where the current request stands once n more of its parts are out of the application's hands.
LEMMA AfterTaken ==
    ASSUME TypeOK, PartsInOrder, NEW n \in 1 .. MaxWrite, n <= Len(todo),
           UNCHANGED <<bodied, requests>>, todo' = Rest(todo, n),
           \/ writing = <<>> /\ UNCHANGED writing
           \/ writing = <<>> /\ writing' = Taken(n)
    PROVE  /\ PartsInOrder'
           /\ Processed' = Processed + n
           /\ Gone' = IF writing' = <<>> THEN Gone + n ELSE Gone
<1>1. /\ n \in Nat \ {0} /\ requests # 0
      /\ Taken(n) \in Seq(RequestPart) /\ Len(Taken(n)) = n
      /\ \A i \in 1 .. n : Taken(n)[i] = PartOf(requests, Processed + i)
      /\ Len(todo') = Len(todo) - n
      /\ \A i \in 1 .. Len(todo) - n : todo'[i] = PartOf(requests, Processed + n + i)
  BY PartsTaken
<1>2. Processed' = Processed + n
  BY <1>1, Measures DEF Processed, SizeOf
<1>3. Gone = Processed
  BY Measures
<1>4. \A r, i : PartOf(r, i)' = PartOf(r, i)
  BY DEF PartOf, TrueLength
<1>5. requests' # 0 /\ requests' = requests
  BY <1>1
<1>6. \A i \in 1 .. Len(todo') : todo'[i] = PartOf(requests', Processed' + i)
  BY <1>1, <1>2
<1>7. CASE UNCHANGED writing
  <2>0. Len(writing) = 0
    BY <1>7
  <2>1. Gone' = Gone + n /\ Gone' >= 0 /\ writing' = <<>>
    BY <1>1, <1>2, <1>3, <1>7, <2>0, Measures DEF Gone, PartsInOrder
  <2>2. Len(writing') = 0
    BY <2>1
  <2>3. \A i \in 1 .. Len(writing') : writing'[i] = PartOf(requests', Gone' + i)
    BY <2>2
  <2> QED
    BY <1>2, <1>5, <1>6, <2>1, <2>3 DEF PartsInOrder, PartOf, TrueLength
<1>8. CASE writing' = Taken(n)
  <2>1. Gone' = Gone /\ Gone' >= 0 /\ writing' # <<>>
    <3>1. Len(writing') = n /\ Gone' = Processed' - Len(writing')
      BY <1>1, <1>8 DEF Gone
    <3> QED
      BY <1>1, <1>2, <1>3, <1>8, <3>1, Measures DEF PartsInOrder
  <2>2. \A i \in 1 .. Len(writing') : writing'[i] = PartOf(requests', Gone' + i)
    BY <1>1, <1>3, <1>8, <2>1
  <2> QED
    BY <1>2, <1>5, <1>6, <2>1, <2>2 DEF PartsInOrder, PartOf, TrueLength
<1> QED
  BY <1>7, <1>8

\* A request of which nothing more is written.
LEMMA AfterStop ==
    ASSUME TypeOK, UNCHANGED <<bodied, requests>>, todo' = <<>>, writing' = <<>>
    PROVE  PartsInOrder' /\ Processed' = SizeOf(requests) /\ Gone' = SizeOf(requests)
<1>1. Len(todo') = 0 /\ Len(writing') = 0
  OBVIOUS
<1>2. SizeOf(requests)' = SizeOf(requests) /\ SizeOf(requests) \in {2, 3}
  BY Measures DEF SizeOf
<1>3. Processed' = SizeOf(requests) /\ Gone' = SizeOf(requests)
  BY <1>1, <1>2 DEF Processed, Gone
<1> QED
  BY <1>1, <1>2, <1>3 DEF PartsInOrder

\* What a delivery makes of the server's side; g parts of the request had left before.
LEMMA ServerKeepsOrder ==
    ASSUME TypeOK, PartsInOrder, ServerInOrder, NEW parts \in Seq(RequestPart), NEW g \in Nat,
           \A i \in 1 .. Len(parts) : parts[i] = PartOf(requests, g + i),
           g + Len(parts) <= SizeOf(requests), Gone <= g,
           g + Len(parts) = SizeOf(requests) => todo' = <<>> /\ writing' = <<>>,
           todo = <<>> => todo' = <<>>, writing = <<>> => writing' = <<>>,
           Gone' = g + Len(parts),
           Deliver(parts), UNCHANGED <<requests, answers, connection>>,
           pc' = "idle", connection # "closed", quirks \subseteq quirks'
    PROVE  ServerInOrder'
<1> DEFINE heads == IF g < 2 /\ g + Len(parts) >= 2 THEN {requests} ELSE {}
<1>1. /\ arrived' = arrived \cup heads
      /\ whole' \subseteq arrived'
      /\ g + Len(parts) < SizeOf(requests) => whole' \subseteq whole
  BY DeliveredInOrder DEF ServerInOrder
<1>2. PICK l \in Nat : l = Len(parts)
  OBVIOUS
<1>3. Gone \in Int /\ Gone >= 0 /\ SizeOf(requests) \in {2, 3}
  BY Measures DEF PartsInOrder
<1>4. arrived' \subseteq {requests'}
  BY <1>1 DEF ServerInOrder
<1>5. Outstanding' => Gone' >= 2
  <2>1. heads # {} => g + l >= 2
    BY <1>2
  <2>2. Outstanding => g + l >= 2
    BY <1>2, <1>3 DEF ServerInOrder
  <2>3. Outstanding' => Outstanding \/ heads # {}
    BY <1>1 DEF Outstanding
  <2> QED
    BY <1>2, <2>1, <2>2, <2>3
<1>6. whole' # {} => todo' = <<>> /\ writing' = <<>>
  <2>1. CASE g + l < SizeOf(requests)
    BY <1>1, <1>2, <2>1 DEF ServerInOrder
  <2>2. CASE g + l = SizeOf(requests)
    BY <1>2, <2>2
  <2> QED
    BY <1>2, <1>3, <2>1, <2>2
<1>7. arrived' # {} => answers' = <<>>
  <2>1. heads # {} => g < 2
    OBVIOUS
  <2>2. g < 2 => ~Outstanding
    BY <1>3 DEF ServerInOrder
  <2> QED
    BY <1>1, <2>1, <2>2 DEF ServerInOrder, Outstanding
<1>8. "early" \notin quirks' /\ answers' # <<>> => todo' = <<>> /\ writing' = <<>>
  BY DEF ServerInOrder
<1>9. connection' # "closed" /\ Idle'
  BY DEF Idle
<1> HIDE DEF heads
<1> QED
  BY <1>1, <1>4, <1>5, <1>6, <1>7, <1>8, <1>9 DEF ServerInOrder

\* A step that leaves the server alone and keeps or ends the current request.
LEMMA ServerUndisturbed ==
    ASSUME ServerInOrder, UNCHANGED <<requests, serverVars, connection>>,
           todo = <<>> => todo' = <<>>, writing = <<>> \/ whole = {} => writing' = <<>> \/ whole = {},
           Outstanding => Gone' >= 2,
           "early" \notin quirks /\ answers # <<>> => todo' = <<>> /\ writing' = <<>>,
           connection # "open" => Idle', quirks \subseteq quirks'
    PROVE  ServerInOrder'
<1>1. Outstanding' <=> Outstanding
  BY DEF Outstanding, serverVars
<1> QED
  BY <1>1 DEF ServerInOrder, serverVars

\* While order reigns, a call takes all it is given.
LEMMA WrittenThrough ==
    ASSUME NEW parts \in Seq(RequestPart), NEW later \in Seq(RequestPart), NEW events,
           WriteThrough(parts, later, events), Orderly'
    PROVE  Deliver(parts) /\ todo' = later /\ Note(events)
<1>1. PICK n \in 0 .. Len(parts) :
          /\ Deliver(SubSeq(parts, 1, n))
          /\ todo' = Rest(parts, n) \o later
          /\ Note(events \cup (IF n < Len(parts) THEN {"repeated"} ELSE {}))
  BY DEF WriteThrough
<1>2. n = Len(parts)
  <2>1. ~(n < Len(parts))
    BY <1>1, NotedOrderly
  <2> QED
    BY <1>1, <2>1
<1>3. SubSeq(parts, 1, n) = parts /\ Rest(parts, n) = <<>>
  BY <1>2, SubSeqFull, SubSeqEmpty DEF Rest
<1>4. <<>> \o later = later
  BY ConcatEmptySeq
<1>5. events \cup (IF n < Len(parts) THEN {"repeated"} ELSE {}) = events
  <2>1. ~(n < Len(parts))
    BY <1>2
  <2> QED
    BY <2>1
<1> QED
  BY <1>1, <1>3, <1>4, <1>5

\* A write of the java layer keeps the order of the exchange.
LEMMA JavaWriteInOrder ==
    ASSUME TypeOK, HookStates, PartsInOrder, ServerInOrder, [Next]_vars, Orderly',
           NEW n \in 1 .. MaxWrite, JavaWrite(n)
    PROVE  PartsInOrder' /\ ServerInOrder'
<1>0. n <= Len(todo) /\ connection = "open" /\ layer = "java"
      /\ UNCHANGED <<case, writeVars, connection, requests, answers>>
  BY DEF JavaWrite
<1>1. writing = <<>> /\ pc = "idle" /\ writing' = <<>> /\ pc' = "idle" /\ bodied' = bodied
  BY <1>0 DEF HookStates, Idle, writeVars, case
<1>2. /\ n \in Nat \ {0} /\ requests # 0
      /\ Taken(n) \in Seq(RequestPart) /\ Len(Taken(n)) = n
      /\ \A i \in 1 .. n : Taken(n)[i] = PartOf(requests, Processed + i)
      /\ Len(Rest(todo, n)) = Len(todo) - n
  BY <1>0, PartsTaken
<1>q. quirks \subseteq quirks'
  BY QuirksStay
<1>3. PICK seen : IF seen.block THEN Refuse(Taken(n)) /\ Note(MarksOf(seen))
                  ELSE WriteThrough(Taken(n), Rest(todo, n), MarksOf(seen)) /\ UNCHANGED stopped
  BY DEF JavaWrite
<1>4. CASE seen.block
  <2>1. todo' = <<>> /\ UNCHANGED <<arrived, whole, received>>
    BY <1>3, <1>4 DEF Refuse
  <2>2. PartsInOrder' /\ Gone' = SizeOf(requests)
    BY <1>0, <1>1, <2>1, AfterStop
  <2>3. SizeOf(requests) >= 2
    BY Measures
  <2>4. ServerInOrder'
    BY <1>0, <1>1, <1>q, <2>1, <2>2, <2>3, ServerUndisturbed DEF serverVars
  <2> QED
    BY <2>2, <2>4
<1>5. CASE ~seen.block
  <2>1. Deliver(Taken(n)) /\ todo' = Rest(todo, n)
    <3>1. Rest(todo, n) \in Seq(RequestPart)
      BY <1>0, PartsTaken
    <3> QED
      BY <1>2, <1>3, <1>5, <3>1, WrittenThrough
  <2>2. PartsInOrder' /\ Processed' = Processed + n /\ Gone' = Gone + n
    BY <1>0, <1>1, <2>1, AfterTaken
  <2>3. Gone = Processed /\ Processed \in Nat /\ Processed + n <= SizeOf(requests)
        /\ (Processed + n = SizeOf(requests) <=> Len(todo) = n)
    BY <1>0, <1>1, <1>2, Measures DEF PartsInOrder
  <2>4. Len(todo) = n => todo' = <<>>
    <3>1. PICK rest \in Seq(RequestPart) : rest = Rest(todo, n)
      BY <1>0, PartsTaken
    <3> QED
      BY <1>2, <2>1, <3>1
  <2>5. todo # <<>>
    BY <1>0, <1>2, Measures
  <2>6. ServerInOrder'
    <3>1. /\ Processed \in Nat /\ Gone <= Processed
          /\ \A i \in 1 .. Len(Taken(n)) : Taken(n)[i] = PartOf(requests, Processed + i)
          /\ Processed + Len(Taken(n)) <= SizeOf(requests)
          /\ Gone' = Processed + Len(Taken(n))
      BY <1>2, <2>2, <2>3
    <3>2. Processed + Len(Taken(n)) = SizeOf(requests) => todo' = <<>> /\ writing' = <<>>
      BY <1>1, <1>2, <2>3, <2>4
    <3>3. /\ todo = <<>> => todo' = <<>>
          /\ writing = <<>> => writing' = <<>>
          /\ UNCHANGED <<requests, answers, connection>> /\ connection # "closed"
      BY <1>0, <1>1, <2>5
    <3> QED
      BY <1>1, <1>2, <1>q, <2>1, <3>1, <3>2, <3>3, ServerKeepsOrder
  <2> QED
    BY <2>2, <2>6
<1> QED
  BY <1>4, <1>5

\* A write of the native layer keeps the order of the exchange.
LEMMA NativeWriteInOrder ==
    ASSUME TypeOK, HookStates, PartsInOrder, ServerInOrder, [Next]_vars, Orderly',
           NEW n \in 1 .. MaxWrite, NativeWrite(n)
    PROVE  PartsInOrder' /\ ServerInOrder'
<1>0. n <= Len(todo) /\ pc = "idle" /\ writing' = Taken(n) /\ todo' = Rest(todo, n)
      /\ UNCHANGED <<case, connection, requests, serverVars>>
  BY DEF NativeWrite, Idle
<1>1. connection = "open"
  <2>1. PICK seen : Note(MarksOf(seen) \cup (IF connection = "closing" THEN {"raced"} ELSE {}))
    BY DEF NativeWrite
  <2>2. connection # "closing"
    BY <2>1, NotedOrderly
  <2>3. connection # "closed" /\ connection \in {"open", "closing", "closed"}
    BY DEF NativeWrite, TypeOK
  <2> QED
    BY <2>2, <2>3
<1>2. writing = <<>> /\ bodied' = bodied
  BY <1>0 DEF HookStates, Idle, case
<1>3. Len(Taken(n)) = n /\ Taken(n) \in Seq(RequestPart) /\ n # 0 /\ n \in Nat
  BY <1>0, PartsTaken
<1>4. writing' # <<>>
  BY <1>0, <1>3
<1>5. PartsInOrder' /\ Gone' = Gone
  BY <1>0, <1>2, <1>4, AfterTaken
<1>6. todo # <<>>
  BY <1>0, <1>3, Measures
<1>7. quirks \subseteq quirks'
  BY QuirksStay
<1>8. whole = {}
  BY <1>6 DEF ServerInOrder
<1>9. ServerInOrder'
  <2>1. Outstanding => Gone' >= 2
    BY <1>5 DEF ServerInOrder
  <2>2. ~("early" \notin quirks /\ answers # <<>>)
    BY <1>6 DEF ServerInOrder
  <2> QED
    BY <1>0, <1>1, <1>6, <1>7, <1>8, <2>1, <2>2, ServerUndisturbed
<1> QED
  BY <1>5, <1>9

\* So does the end of a native write, if it is not cut short.
LEMMA PutPendingInOrder ==
    ASSUME TypeOK, HookStates, PartsInOrder, ServerInOrder, [Next]_vars, Orderly', PutPending
    PROVE  PartsInOrder' /\ ServerInOrder'
<1>0. pc = "put" /\ pc' = "idle" /\ writing' = <<>> /\ UNCHANGED <<case, connection, requests, answers>>
  BY DEF PutPending
<1>1. connection = "open" /\ bodied' = bodied
  BY <1>0 DEF ServerInOrder, Idle, case
<1>q. quirks \subseteq quirks'
  BY QuirksStay
<1>2. CASE BlockWrite
  <2>1. todo' = <<>> /\ UNCHANGED <<arrived, whole, received>>
    BY <1>2 DEF BlockWrite, Refuse
  <2>2. PartsInOrder' /\ Gone' = SizeOf(requests)
    BY <1>0, <1>1, <2>1, AfterStop
  <2>3. SizeOf(requests) >= 2
    BY Measures
  <2>4. ServerInOrder'
    BY <1>0, <1>1, <1>q, <2>1, <2>2, <2>3, ServerUndisturbed DEF serverVars
  <2> QED
    BY <2>2, <2>4
<1>3. CASE WriteThrough(writing, todo, {})
  <2>w. writing \in Seq(RequestPart) /\ todo \in Seq(RequestPart)
    BY DEF TypeOK
  <2>4. Deliver(writing) /\ todo' = todo
    BY <1>3, <2>w, WrittenThrough
  <2>5. Processed' = Processed /\ Gone' = Gone + Len(writing) /\ Gone' = Processed
    <3>1. Len(writing') = 0
      BY <1>0
    <3> QED
      BY <1>0, <1>1, <2>4, <3>1, Measures DEF Processed, Gone, SizeOf
  <2>6. PartsInOrder'
    <3>1. \A r, i : PartOf(r, i)' = PartOf(r, i)
      BY <1>1 DEF PartOf, TrueLength
    <3>2. Len(writing') = 0 /\ Gone' >= 0
      BY <1>0, <2>5, Measures DEF PartsInOrder
    <3> QED
      BY <1>0, <2>4, <2>5, <3>1, <3>2 DEF PartsInOrder
  <2>7. Gone \in Nat /\ Gone + Len(writing) <= SizeOf(requests)
        /\ (Gone + Len(writing) = SizeOf(requests) => todo = <<>>)
    BY Measures DEF PartsInOrder
  <2>8. \A i \in 1 .. Len(writing) : writing[i] = PartOf(requests, Gone + i)
    BY DEF PartsInOrder
  <2>9. ServerInOrder'
    <3>1. Gone' = Gone + Len(writing) /\ Gone <= Gone
      BY <2>5, <2>7
    <3>2. Gone + Len(writing) = SizeOf(requests) => todo' = <<>> /\ writing' = <<>>
      BY <1>0, <2>4, <2>7
    <3>3. /\ todo = <<>> => todo' = <<>>
          /\ writing = <<>> => writing' = <<>>
          /\ UNCHANGED <<requests, answers, connection>> /\ connection # "closed"
      BY <1>0, <1>1, <2>4
    <3> QED
      BY <1>0, <1>q, <2>w, <2>4, <2>7, <2>8, <3>1, <3>2, <3>3, ServerKeepsOrder
  <2> QED
    BY <2>6, <2>9
<1> QED
  BY <1>1, <1>2, <1>3 DEF PutPending

\* A request that is begun when the exchange before it is over keeps the order.
LEMMA BeginInOrder ==
    ASSUME TypeOK, HookStates, PartsInOrder, ServerInOrder, [Next]_vars, Orderly', BeginRequest
    PROVE  PartsInOrder' /\ ServerInOrder'
<1>0. /\ pc = "idle" /\ connection = "open" /\ requests' = requests + 1
      /\ UNCHANGED <<case, writeVars, connection, serverVars>>
  BY DEF BeginRequest, Idle
<1>1. todo = <<>> /\ arrived = {} /\ answers = <<>>
  <2>1. PICK other : Note((IF todo = <<>> /\ arrived = {} /\ answers = <<>> THEN {} ELSE {"pipelined"})
                          \cup other)
    BY DEF BeginRequest
  <2> QED
    BY <2>1, NotedOrderly
<1>l. todo' = todo \o RequestParts(requests + 1, TrueLength(requests + 1))
  <2>1. PICK length \in Lengths :
            /\ Note((IF todo = <<>> /\ arrived = {} /\ answers = <<>> THEN {} ELSE {"pipelined"})
                    \cup (IF length = TrueLength(requests + 1) THEN {} ELSE {"unframed"}))
            /\ todo' = todo \o RequestParts(requests + 1, length)
    BY DEF BeginRequest
  <2> QED
    BY <2>1, NotedOrderly
<1>2. writing = <<>> /\ writing' = <<>> /\ bodied' = bodied
  BY <1>0 DEF HookStates, Idle, writeVars, case
<1>3. requests + 1 \in Requests /\ requests \in Nat
  BY <1>0, Http1Assumption DEF BeginRequest, TypeOK, Requests
<1>4. todo' = RequestParts(requests', TrueLength(requests'))
  <2>1. RequestParts(requests + 1, TrueLength(requests + 1)) \in Seq(RequestPart)
    BY <1>3, PartsOfRequest
  <2> QED
    BY <1>0, <1>1, <1>l, <2>1, ConcatEmptySeq
<1>6. Len(todo') = SizeOf(requests') /\ \A i \in 1 .. Len(todo') : todo'[i] = PartOf(requests', i)
  BY <1>0, <1>3, <1>4, PartsOfRequest
<1>7. SizeOf(requests)' = SizeOf(requests') /\ SizeOf(requests') \in {2, 3}
  BY <1>2 DEF SizeOf
<1>8. Processed' = 0 /\ Gone' = 0
  <2>1. Len(writing') = 0
    BY <1>2
  <2> QED
    BY <1>6, <1>7, <2>1 DEF Processed, Gone
<1>9. PartsInOrder'
  <2>1. \A r, i : PartOf(r, i)' = PartOf(r, i)
    BY <1>2 DEF PartOf, TrueLength
  <2>2. requests' # 0 /\ Len(writing') = 0
    BY <1>0, <1>2, <1>3
  <2>3. \A i \in 1 .. Len(todo') : todo'[i] = PartOf(requests', Processed' + i)
    <3>1. \A i \in 1 .. Len(todo') : Processed' + i = i
      BY <1>8
    <3> QED
      BY <1>6, <3>1
  <2> QED
    BY <1>8, <2>1, <2>2, <2>3 DEF PartsInOrder
<1>10. ServerInOrder'
  BY <1>0, <1>1 DEF ServerInOrder, serverVars, Outstanding
<1> QED
  BY <1>9, <1>10

\* The steps of the server, the reader and the closing keep the order.
LEMMA OthersInOrder ==
    ASSUME TypeOK, HookStates, PartsInOrder, ServerInOrder, [Next]_vars, Orderly',
           \/ ReadPending \/ ServerAnswers \/ onConnectionClosed \/ Close \/ Reopen \/ Expire \/ Forget
           \/ UNCHANGED vars \/ \E n \in 1 .. MaxWrite : Read(n)
    PROVE  PartsInOrder' /\ ServerInOrder'
<1>q. quirks \subseteq quirks'
  BY QuirksStay
<1>1. CASE ReadPending
  <2>1. UNCHANGED <<bodied, requests, todo, writing, serverVars, connection>> /\ pc # "idle"
    BY <1>1 DEF ReadPending, case, serverVars
  <2>2. connection = "open"
    BY <2>1 DEF ServerInOrder, Idle
  <2> QED
    BY <1>q, <2>1, <2>2, SameParts, ServerUndisturbed DEF ServerInOrder
<1>2. CASE ServerAnswers
  <2>1. PICK r \in arrived :
            /\ \E other, more : Note((IF r \in whole THEN {} ELSE {"early"}) \cup other \cup more)
            /\ arrived' = arrived \ {r}
            /\ whole' = whole \ {r}
    BY <1>2 DEF ServerAnswers
  <2>2. UNCHANGED <<case, hookVars, writeVars, connection, requests, todo>>
    BY <1>2 DEF ServerAnswers
  <2>3. PartsInOrder' /\ Gone' = Gone
    BY <2>2, SameParts DEF case, writeVars
  <2>4. arrived' = {} /\ whole' = {} /\ Gone >= 2
    BY <2>1 DEF ServerInOrder, Outstanding
  <2>5. "early" \notin quirks' => todo = <<>> /\ writing = <<>>
    <3>1. "early" \notin quirks' => r \in whole
      BY <2>1 DEF Note
    <3> QED
      BY <3>1 DEF ServerInOrder
  <2>6. connection # "closed"
    BY <2>1 DEF ServerInOrder, Outstanding
  <2> QED
    BY <2>2, <2>3, <2>4, <2>5, <2>6 DEF ServerInOrder, Outstanding, writeVars, Idle
<1>3. CASE onConnectionClosed
  <2>1. UNCHANGED <<case, writeVars, requests, todo, serverVars>> /\ connection' = "closing"
    BY <1>3 DEF onConnectionClosed
  <2>2. Idle
    <3>1. \E other : Note(other \cup (IF Idle THEN {} ELSE {"raced"}))
      BY <1>3 DEF onConnectionClosed
    <3>2. PICK other : Note(other \cup (IF Idle THEN {} ELSE {"raced"}))
      BY <3>1
    <3> QED
      BY <3>2, NotedOrderly
  <2>3. PartsInOrder' /\ Gone' = Gone
    BY <2>1, SameParts DEF case, writeVars
  <2> QED
    BY <1>q, <2>1, <2>2, <2>3 DEF ServerInOrder, Outstanding, serverVars, writeVars, Idle
<1>4. CASE Close
  <2>1. UNCHANGED <<case, writeVars, requests>> /\ connection' = "closed" /\ connection # "open"
        /\ todo' = <<>> /\ arrived' = {} /\ whole' = {} /\ answers' = <<>>
    BY <1>4 DEF Close
  <2>2. writing' = <<>> /\ Idle'
    BY <2>1 DEF ServerInOrder, HookStates, writeVars, Idle
  <2>3. PartsInOrder'
    BY <2>1, <2>2, AfterStop DEF case
  <2> QED
    BY <2>1, <2>2, <2>3 DEF ServerInOrder, Outstanding
<1>5. CASE Reopen
  <2>1. UNCHANGED <<bodied, requests, todo, writing, serverVars>> /\ connection' = "open"
    BY <1>5 DEF Reopen, case, writeVars, serverVars
  <2>2. PartsInOrder' /\ Gone' = Gone
    BY <2>1, SameParts
  <2> QED
    BY <1>q, <2>1, <2>2 DEF ServerInOrder, Outstanding, serverVars
<1>6. CASE Expire \/ Forget \/ UNCHANGED vars
  <2>1. UNCHANGED <<case, writeVars, connection, requests, todo, serverVars>>
    BY <1>6 DEF Expire, Forget, vars
  <2>2. PartsInOrder' /\ Gone' = Gone
    BY <2>1, SameParts DEF case, writeVars
  <2> QED
    BY <1>q, <2>1, <2>2 DEF ServerInOrder, Outstanding, serverVars, writeVars, Idle
<1>7. ASSUME NEW n \in 1 .. MaxWrite, Read(n) PROVE PartsInOrder' /\ ServerInOrder'
  <2>1. UNCHANGED <<case, writeVars, connection, requests, todo, arrived, whole, received>>
        /\ n <= Len(answers)
    BY <1>7 DEF Read
  <2>2. PartsInOrder' /\ Gone' = Gone
    BY <2>1, SameParts DEF case, writeVars
  <2>3. answers # <<>>
    <3>1. Len(answers) # 0
      BY <2>1, Http1Assumption DEF TypeOK
    <3> QED
      BY <3>1
  <2>4. connection # "closed"
    BY <2>3 DEF ServerInOrder, Outstanding
  <2> QED
    BY <1>q, <2>1, <2>2, <2>3, <2>4 DEF ServerInOrder, Outstanding, serverVars, writeVars, Idle
<1> QED
  BY <1>1, <1>2, <1>3, <1>4, <1>5, <1>6, <1>7

\* The parts of the current request are framed, so they are behind what is in the buffer.
LEMMA SizesJoined ==
    ASSUME TypeOK, PartsInOrder, TrueSizes(requestBuffer), NEW n \in 1 .. MaxWrite, n <= Len(todo)
    PROVE  LET b == requestBuffer \o Taken(n) IN b \in Seq(RequestPart) /\ TrueSizes(b)
<1> DEFINE b == requestBuffer \o Taken(n)
<1>1. /\ Taken(n) \in Seq(RequestPart) /\ Len(Taken(n)) = n /\ n \in Nat
      /\ \A i \in 1 .. n : Taken(n)[i] = PartOf(requests, Processed + i)
  BY PartsTaken
<1>2. requestBuffer \in Seq(RequestPart)
  BY DEF TypeOK
<1>3. PICK k \in Nat : k = Len(requestBuffer)
  BY <1>2
<1>4. /\ b \in Seq(RequestPart) /\ Len(b) = k + n
      /\ \A i \in 1 .. k : b[i] = requestBuffer[i]
      /\ \A i \in 1 .. n : b[k + i] = Taken(n)[i]
  <2>1. /\ b \in Seq(RequestPart) /\ Len(b) = Len(requestBuffer) + Len(Taken(n))
        /\ \A i \in 1 .. Len(requestBuffer) : b[i] = requestBuffer[i]
        /\ \A i \in 1 .. Len(Taken(n)) : b[Len(requestBuffer) + i] = Taken(n)[i]
    <3>1. requestBuffer \in Seq(RequestPart) /\ Taken(n) \in Seq(RequestPart)
      BY <1>1, <1>2
    <3> QED
      BY <3>1, Joined
  <2>2. Len(requestBuffer) = k /\ Len(Taken(n)) = n
    BY <1>1, <1>3
  <2> HIDE DEF b
  <2>3. \A i \in 1 .. n : b[k + i] = Taken(n)[i]
    BY <2>1, <2>2
  <2> QED
    BY <1>1, <2>1, <2>2, <2>3
<1> HIDE DEF b
<1>5. \A j : PartOf(requests, j).part # "chunks"
             /\ PartOf(requests, j).length = TrueLength(PartOf(requests, j).req)
  BY DEF PartOf
<1>6. ASSUME NEW i \in 1 .. k + n PROVE b[i].part # "chunks" /\ b[i].length = TrueLength(b[i].req)
  <2>1. CASE i <= k
    BY <1>3, <1>4, <2>1 DEF TrueSizes
  <2>2. CASE ~(i <= k)
    <3>1. i - k \in 1 .. n /\ k + (i - k) = i
      BY <1>1, <2>2
    <3>2. b[i] = PartOf(requests, Processed + (i - k))
      BY <1>1, <1>4, <3>1
    <3> QED
      BY <1>5, <3>2
  <2> QED
    BY <2>1, <2>2
<1> QED
  BY <1>4, <1>6 DEF TrueSizes, b

\* What is left of a buffer is its end.
LEMMA SeenLeft ==
    ASSUME requestState \in ParsingState, NEW buffer \in Seq(RequestPart),
           NEW seen \in processRequestBuffer(buffer)
    PROVE  seen.buffer = <<>> \/ \E k \in 0 .. Len(buffer) : seen.buffer = SubSeq(buffer, k + 1, Len(buffer))
<1> DEFINE size == requestState.headerSize + requestState.contentLength
           n == First(buffer, {"end", "chunks"})
           Goal == seen.buffer = <<>>
                   \/ \E k \in 0 .. Len(buffer) : seen.buffer = SubSeq(buffer, k + 1, Len(buffer))
<1> SUFFICES Goal
  OBVIOUS
<1>n. n \in 0 .. Len(buffer) /\ Len(buffer) \in Nat /\ size \in Int
  <2>1. n \in 0 .. Len(buffer)
    BY FirstPart
  <2> QED
    BY <2>1 DEF ParsingState, Lengths
<1>w. SubSeq(buffer, 0 + 1, Len(buffer)) = buffer
  <2>1. SubSeq(buffer, 1, Len(buffer)) = buffer
    BY SubSeqFull
  <2> QED
    BY <2>1
<1>1. CASE seen.buffer = <<>>
  BY <1>1
<1>2. CASE seen.buffer = buffer
  BY <1>2, <1>n, <1>w
<1>3. CASE size >= 0 /\ Len(buffer) >= size /\ seen.buffer = SubSeq(buffer, size + 1, Len(buffer))
  <2>1. size \in 0 .. Len(buffer)
    BY <1>n, <1>3
  <2> HIDE DEF size
  <2> QED
    BY <1>3, <2>1
<1>4. ASSUME ~requestState.isIgnored, ~requestState.isHeaderParsed, n > 0,
             NEW info \in buildHttpRequestWithoutBody(buffer, n),
             NEW length \in parseContentLength(buffer, n),
             ReadAs(seen, buffer, n, length, info)
      PROVE  Goal
  <2>1. length \in Int /\ n + length \in Int
    <3>1. n \in 1 .. Len(buffer) /\ n \in Nat
      BY <1>n, <1>4
    <3> HIDE DEF n
    <3>2. length \in Lengths
      BY <3>1, LengthRead
    <3> QED
      BY <3>1, <3>2 DEF Lengths
  <2> DEFINE k == n + length
  <2>2. \/ seen.buffer = <<>> \/ seen.buffer = buffer
        \/ k >= 0 /\ Len(buffer) >= k /\ seen.buffer = SubSeq(buffer, k + 1, Len(buffer))
    <3> HIDE DEF n
    <3>1. \/ seen = [buffer |-> <<>>, state |-> HeadState(n, length, TRUE, TRUE), info |-> info, block |-> TRUE]
          \/ seen = [buffer |-> <<>>, state |-> HeadState(n, length, TRUE, TRUE), info |-> info, block |-> FALSE]
          \/ seen = [buffer |-> buffer, state |-> HeadState(n, length, TRUE, FALSE), info |-> info, block |-> FALSE]
          \/ /\ k >= 0 /\ Len(buffer) >= k
             /\ seen = [buffer |-> SubSeq(buffer, k + 1, Len(buffer)),
                        state |-> HeadState(n, length, FALSE, FALSE), info |-> info, block |-> FALSE]
          \/ seen = [buffer |-> <<>>, state |-> FreshState, info |-> info, block |-> FALSE]
      BY <1>4, Zenon DEF ReadAs
    <3>2. ASSUME NEW rest, NEW state, NEW block,
                 seen = [buffer |-> rest, state |-> state, info |-> info, block |-> block]
          PROVE  seen.buffer = rest
      BY <3>2
    <3> HIDE DEF k
    <3> QED
      BY <3>1, <3>2, Zenon
  <2>3. k >= 0 /\ Len(buffer) >= k => k \in 0 .. Len(buffer)
    BY <1>n, <2>1
  <2> HIDE DEF k, n
  <2> QED
    BY <1>1, <1>2, <2>2, <2>3
<1> HIDE DEF Goal
<1> QED
  BY <1>1, <1>2, <1>3, <1>4, SeenCases

\* The end of a framed buffer is framed.
LEMMA SizesLeft ==
    ASSUME NEW b \in Seq(RequestPart), NEW k \in 0 .. Len(b), TrueSizes(b)
    PROVE  TrueSizes(SubSeq(b, k + 1, Len(b)))
<1> DEFINE rest == SubSeq(b, k + 1, Len(b))
<1>1. PICK l \in Nat : l = Len(b)
  OBVIOUS
<1>2. Len(rest) = l - k /\ \A i \in 1 .. l - k : rest[i] = b[k + i]
  BY <1>1, TakenAndRest
<1>3. \A i \in 1 .. l - k : k + i \in 1 .. l
  BY <1>1
<1> HIDE DEF rest
<1> QED
  BY <1>1, <1>2, <1>3 DEF TrueSizes, rest

\* The request buffer stays framed while the application frames its requests.
LEMMA SizesKept ==
    ASSUME TypeOK, PartsInOrder, TrueSizes(requestBuffer), [Next]_vars
    PROVE  TrueSizes(requestBuffer)'
<1>0. bodied' = bodied
  BY DEF Next, vars, case, BeginRequest, JavaWrite, NativeWrite, UnseenWrite, Read, ReadPending, PutPending,
     ServerAnswers, onConnectionClosed, Close, Reopen, Expire, Forget
<1>1. ASSUME TrueSizes(requestBuffer') PROVE TrueSizes(requestBuffer)'
  <2>1. \A r : TrueLength(r)' = TrueLength(r)
    BY <1>0 DEF TrueLength
  <2> QED
    BY <1>1, <2>1 DEF TrueSizes
<1>2. TrueSizes(<<>>)
  BY DEF TrueSizes
<1>3. ASSUME NEW n \in 1 .. MaxWrite, n <= Len(todo),
             NEW seen \in processRequestBuffer(requestBuffer \o Taken(n)), RequestSeen(seen)
      PROVE  TrueSizes(requestBuffer')
  <2> DEFINE b == requestBuffer \o Taken(n)
  <2>1. b \in Seq(RequestPart) /\ TrueSizes(b)
    BY <1>3, SizesJoined
  <2>2. requestBuffer' = seen.buffer
    BY <1>3 DEF RequestSeen
  <2>3. seen.buffer = <<>> \/ \E k \in 0 .. Len(b) : seen.buffer = SubSeq(b, k + 1, Len(b))
    BY <1>3, <2>1, SeenLeft DEF TypeOK
  <2> HIDE DEF b
  <2> QED
    BY <1>2, <2>1, <2>2, <2>3, SizesLeft
<1>4. \/ requestBuffer' = requestBuffer \/ requestBuffer' = <<>>
      \/ \E n \in 1 .. MaxWrite : JavaWrite(n) \/ NativeWrite(n)
  BY DEF Next, vars, hookVars, BeginRequest, UnseenWrite, Read, processResponseBuffer, ResponseIgnored,
     ResponseWaits, ResponseHeadOnly, ResponseWithBody, ReadPending, PutPending,
     ServerAnswers, onConnectionClosed, Close, Reopen, Expire, Forget
<1>5. ASSUME NEW n \in 1 .. MaxWrite, JavaWrite(n) \/ NativeWrite(n) PROVE TrueSizes(requestBuffer')
  BY <1>3, <1>5 DEF JavaWrite, NativeWrite
<1> QED
  BY <1>1, <1>2, <1>4, <1>5

\* While nothing breaks the order, the parts of the current request lie behind each other in todo
\* and in writing, and the server has that request alone.
LEMMA NextOneAtATime ==
    ASSUME TypeOK, HookStates, OneAtATime, [Next]_vars
    PROVE  OneAtATime'
<1> SUFFICES ASSUME Orderly' PROVE PartsInOrder' /\ ServerInOrder' /\ TrueSizes(requestBuffer)'
  BY DEF OneAtATime
<1>1. PartsInOrder /\ ServerInOrder /\ TrueSizes(requestBuffer)
  BY QuirksStay DEF OneAtATime, Orderly
<1>3. TrueSizes(requestBuffer)'
  BY <1>1, SizesKept
<1>2. ASSUME NEW n \in 1 .. MaxWrite, UnseenWrite(n) PROVE FALSE
  <2>1. Note({"unseen"})
    BY <1>2 DEF UnseenWrite
  <2> QED
    BY <2>1, NotedOrderly
<1> QED
  BY <1>1, <1>2, <1>3, BeginInOrder, OthersInOrder, JavaWriteInOrder, NativeWriteInOrder, PutPendingInOrder DEF Next

\* Before the first request nothing is on its way.
LEMMA InitOneAtATime == Init => OneAtATime
<1> SUFFICES ASSUME Init PROVE PartsInOrder /\ ServerInOrder /\ TrueSizes(requestBuffer)
  BY DEF OneAtATime
<1>1. todo = <<>> /\ writing = <<>> /\ Len(todo) = 0 /\ Len(writing) = 0 /\ SizeOf(requests) \in {2, 3}
  BY DEF Init, SizeOf
<1> QED
  BY <1>1 DEF Init, PartsInOrder, ServerInOrder, Outstanding, Processed, Gone, Idle, TrueSizes

----------------------------------------------------------------------------
(* Reports *)

\* A report with a response.
Report == [request : Infos \cup {None}, answers : SUBSET Requests, final : BOOLEAN, whole : BOOLEAN]

\* The behaviours in which ReportedOnce promises something.
Once == Orderly /\ "early" \notin quirks /\ "forgotten" \notin quirks

\* The end of the current request's head has still to be processed.
HeadComing == todo # <<>> /\ Processed < 2

\* The heads in buffer b: none of them was announced; no request has two; none of request r;
\* none of a request after r.
HeadsUnread(b) == \A i \in 1 .. Len(b) : b[i].part = "end" => announced[b[i].req] = 0
HeadsDistinct(b) ==
    \A i, j \in 1 .. Len(b) : i # j /\ b[i].part = "end" /\ b[j].part = "end" => b[i].req # b[j].req
NoHeadOf(b, r) == \A i \in 1 .. Len(b) : b[i].part = "end" => b[i].req # r
PartsUpTo(b, r) == \A i \in 1 .. Len(b) : b[i].req <= r

\* The head at the front of the buffer has been read and waits for its body.
HeldHead(r) ==
    /\ requestState.isHeaderParsed /\ ~requestState.isIgnored
    /\ requestState.headerSize = 2 /\ requestState.contentLength = 1
    /\ Len(requestBuffer) = 2 /\ requestBuffer[1].req = r /\ requestBuffer[2].req = r
    /\ requestBuffer[1].part # "end"
    /\ r \in bodied
    /\ whole = {} /\ answers = <<>>
    /\ writing # <<>> => r = requests /\ Processed = 2

\* A head that was announced is never in the buffer again, but for the one that waits for its body.
HeadsInv ==
    /\ announced \in [Requests -> {0, 1}]
    /\ \A r \in Requests : announced[r] = 1 => r <= requests
    /\ HeadComing => announced[requests] = 0 /\ NoHeadOf(requestBuffer, requests)
    /\ PartsUpTo(requestBuffer, requests)
    /\ HeadsDistinct(requestBuffer)
    /\ HeadsUnread(requestBuffer) \/ \E r \in Requests : HeldHead(r)

\* What is pending was announced and has its record in sentRequestsCache, so a write that announces
\* it again is not heard; what was reported is remembered there too.
ReportsInv ==
    /\ reported \in Seq(Report)
    /\ \A r \in Requests : r \in {pendingRequest, requestInfo} => announced[r] = 1 /\ r \in sentRequests
    /\ \A i \in 1 .. Len(reported) :
          reported[i].request \in Requests =>
              announced[reported[i].request] = 1 /\ reported[i].request \in replied
    /\ \A i, j \in 1 .. Len(reported) :
          i # j /\ reported[i].request = reported[j].request => reported[i].request \notin Requests

\* The inductive invariant about reports.
OnceInv == Once => HeadsInv /\ ReportsInv

\* What holds of a buffer holds of what is left when its beginning is cut off.
LEMMA HeadsLeft ==
    ASSUME NEW b \in Seq(RequestPart), NEW k \in Nat, k <= Len(b), NEW r
    PROVE  LET rest == SubSeq(b, k + 1, Len(b))
           IN  /\ PartsUpTo(b, r) => PartsUpTo(rest, r)
               /\ HeadsDistinct(b) => HeadsDistinct(rest)
               /\ NoHeadOf(b, r) => NoHeadOf(rest, r)
               /\ HeadsUnread(b) => HeadsUnread(rest)
               /\ \A i \in 1 .. k : HeadsDistinct(b) /\ b[i].part = "end" => NoHeadOf(rest, b[i].req)
<1> DEFINE rest == SubSeq(b, k + 1, Len(b))
<1>1. PICK l \in Nat : l = Len(b)
  OBVIOUS
<1>2. Len(rest) = l - k /\ \A i \in 1 .. l - k : rest[i] = b[k + i]
  BY <1>1, TakenAndRest
<1>3. \A i \in 1 .. l - k : k + i \in 1 .. l
  BY <1>1
<1>4. \A i, j \in 1 .. l - k : i # j => k + i # k + j
  BY <1>1
<1>5. \A i \in 1 .. k : i \in 1 .. l /\ \A j \in 1 .. l - k : i # k + j
  BY <1>1
<1> HIDE DEF rest
<1>6. PartsUpTo(b, r) => PartsUpTo(rest, r)
  BY <1>1, <1>2, <1>3 DEF PartsUpTo
<1>7. HeadsDistinct(b) => HeadsDistinct(rest)
  BY <1>1, <1>2, <1>3, <1>4 DEF HeadsDistinct
<1>8. NoHeadOf(b, r) => NoHeadOf(rest, r)
  <2> SUFFICES ASSUME NoHeadOf(b, r), NEW i \in 1 .. l - k, rest[i].part = "end" PROVE rest[i].req # r
    BY <1>1, <1>2 DEF NoHeadOf
  <2>1. k + i \in 1 .. Len(b) /\ rest[i] = b[k + i]
    BY <1>1, <1>2, <1>3
  <2> QED
    BY <2>1 DEF NoHeadOf
<1>9. HeadsUnread(b) => HeadsUnread(rest)
  BY <1>1, <1>2, <1>3 DEF HeadsUnread
<1>10. \A i \in 1 .. k : HeadsDistinct(b) /\ b[i].part = "end" => NoHeadOf(rest, b[i].req)
  <2> SUFFICES ASSUME NEW i \in 1 .. k, HeadsDistinct(b), b[i].part = "end",
                      NEW j \in 1 .. l - k, rest[j].part = "end"
               PROVE  rest[j].req # b[i].req
    BY <1>1, <1>2 DEF NoHeadOf
  <2>1. i \in 1 .. Len(b) /\ k + j \in 1 .. Len(b) /\ i # k + j /\ rest[j] = b[k + j]
    BY <1>1, <1>2, <1>3, <1>5
  <2> QED
    BY <2>1 DEF HeadsDistinct
<1> QED
  BY <1>6, <1>7, <1>8, <1>9, <1>10 DEF rest

\* The buffer with the next n parts.
LEMMA HeadsJoined ==
    ASSUME TypeOK, PartsInOrder, HeadsInv, NEW n \in 1 .. MaxWrite, n <= Len(todo)
    PROVE  LET b == requestBuffer \o Taken(n)
           IN  /\ b \in Seq(RequestPart) /\ Len(b) = Len(requestBuffer) + n
               /\ b[Len(b)] = PartOf(requests, Processed + n)
               /\ PartsUpTo(b, requests) /\ HeadsDistinct(b)
               /\ Processed + n < 2 => NoHeadOf(b, requests)
               /\ HeadsUnread(requestBuffer) => HeadsUnread(b)
<1> DEFINE b == requestBuffer \o Taken(n)
<1>1. /\ n \in Nat \ {0} /\ requests # 0
      /\ Taken(n) \in Seq(RequestPart) /\ Len(Taken(n)) = n
      /\ \A i \in 1 .. n : Taken(n)[i] = PartOf(requests, Processed + i)
  BY PartsTaken
<1>2. PICK k \in Nat : k = Len(requestBuffer) /\ requestBuffer \in Seq(RequestPart)
  BY DEF TypeOK
<1>3. /\ b \in Seq(RequestPart) /\ Len(b) = k + n
      /\ \A i \in 1 .. k : b[i] = requestBuffer[i]
      /\ \A i \in 1 .. n : b[k + i] = PartOf(requests, Processed + i)
  <2>1. /\ b \in Seq(RequestPart) /\ Len(b) = Len(requestBuffer) + Len(Taken(n))
        /\ \A i \in 1 .. Len(requestBuffer) : b[i] = requestBuffer[i]
        /\ \A i \in 1 .. Len(Taken(n)) : b[Len(requestBuffer) + i] = Taken(n)[i]
    <3>1. requestBuffer \in Seq(RequestPart) /\ Taken(n) \in Seq(RequestPart)
      BY <1>1, <1>2
    <3> QED
      BY <3>1, Joined
  <2>2. Len(requestBuffer) = k /\ Len(Taken(n)) = n
    BY <1>1, <1>2
  <2> HIDE DEF b
  <2>3. \A i \in 1 .. n : b[k + i] = Taken(n)[i]
    BY <2>1, <2>2
  <2> QED
    BY <1>1, <2>1, <2>2, <2>3
<1>4. PICK p \in Nat : p = Processed
  BY Measures DEF PartsInOrder
<1>5. \A j \in Nat : /\ PartOf(requests, j).req = requests
                     /\ PartOf(requests, j).part = "end" <=> j = 2
  BY DEF PartOf
<1>6. \A i \in 1 .. n : b[k + i].req = requests /\ (b[k + i].part = "end" <=> p + i = 2)
  <2> SUFFICES ASSUME NEW i \in 1 .. n
               PROVE  b[k + i].req = requests /\ (b[k + i].part = "end" <=> p + i = 2)
    OBVIOUS
  <2> HIDE DEF b
  <2>1. b[k + i] = PartOf(requests, p + i)
    BY <1>3, <1>4
  <2>2. p + i \in Nat
    BY <1>4
  <2> QED
    BY <1>5, <2>1, <2>2
<1>7. ASSUME NEW i \in 1 .. k + n
      PROVE  \/ i \in 1 .. k /\ b[i] = requestBuffer[i]
             \/ i - k \in 1 .. n /\ b[i].req = requests /\ (b[i].part = "end" <=> p + (i - k) = 2)
  <2>1. CASE i <= k
    BY <1>3, <2>1
  <2>2. CASE ~(i <= k)
    <3>1. i - k \in 1 .. n /\ k + (i - k) = i
      BY <1>1, <2>2
    <3> QED
      BY <1>6, <3>1
  <2> QED
    BY <2>1, <2>2
<1>8. requests \in Nat /\ requests <= requests
  BY Measures
<1> HIDE DEF b
<1>9. PartsUpTo(b, requests)
  BY <1>2, <1>3, <1>7, <1>8 DEF HeadsInv, PartsUpTo
<1>c. ASSUME NEW i \in 1 .. n, p + i = 2 PROVE NoHeadOf(requestBuffer, requests) /\ announced[requests] = 0
  <2>1. Processed < 2 /\ todo # <<>>
    BY <1>1, <1>4, <1>c, Measures
  <2> QED
    BY <2>1 DEF HeadComing, HeadsInv
<1>10. HeadsDistinct(b)
  <2> SUFFICES ASSUME NEW i \in 1 .. k + n, NEW j \in 1 .. k + n, i # j,
                      b[i].part = "end", b[j].part = "end"
               PROVE  b[i].req # b[j].req
    BY <1>3 DEF HeadsDistinct
  <2>1. CASE i \in 1 .. k /\ j \in 1 .. k
    BY <1>2, <1>3, <2>1 DEF HeadsInv, HeadsDistinct
  <2>2. CASE i \in 1 .. k /\ j \notin 1 .. k
    <3>1. j - k \in 1 .. n /\ b[j].req = requests /\ p + (j - k) = 2
      BY <1>7, <2>2
    <3>2. b[i] = requestBuffer[i]
      BY <1>3, <2>2
    <3> QED
      BY <1>2, <1>c, <2>2, <3>1, <3>2 DEF NoHeadOf
  <2>3. CASE i \notin 1 .. k /\ j \in 1 .. k
    <3>1. i - k \in 1 .. n /\ b[i].req = requests /\ p + (i - k) = 2
      BY <1>7, <2>3
    <3>2. b[j] = requestBuffer[j]
      BY <1>3, <2>3
    <3> QED
      BY <1>2, <1>c, <2>3, <3>1, <3>2 DEF NoHeadOf
  <2>4. CASE i \notin 1 .. k /\ j \notin 1 .. k
    <3>1. p + (i - k) = 2 /\ p + (j - k) = 2
      BY <1>7, <2>4
    <3> QED
      BY <1>2, <1>4, <3>1
  <2> QED
    BY <2>1, <2>2, <2>3, <2>4
<1>11. ASSUME Processed + n < 2 PROVE NoHeadOf(b, requests)
  <2>1. HeadComing
    BY <1>1, <1>4, <1>11, Measures DEF HeadComing
  <2>2. \A i \in 1 .. n : p + i # 2
    BY <1>1, <1>4, <1>11
  <2> QED
    BY <1>2, <1>3, <1>7, <2>1, <2>2 DEF HeadsInv, NoHeadOf
<1>12. ASSUME HeadsUnread(requestBuffer) PROVE HeadsUnread(b)
  BY <1>2, <1>3, <1>7, <1>12, <1>c DEF HeadsUnread
<1>13. b[Len(b)] = PartOf(requests, Processed + n)
  <2>1. n \in 1 .. n
    BY <1>1
  <2> QED
    BY <1>3, <2>1
<1> QED
  BY <1>2, <1>3, <1>9, <1>10, <1>11, <1>12, <1>13 DEF b

\* A request is read out of a head of two parts, both its own.
LEMMA ReadRequest ==
    ASSUME NEW buffer \in Seq(RequestPart), NEW n \in Nat,
           NEW info \in buildHttpRequestWithoutBody(buffer, n), info \in Requests
    PROVE  /\ n = 2 /\ buffer[1].part = "start" /\ buffer[1].req = info /\ buffer[2].req = info
           /\ IsHead(buffer, n)
<1>1. None \notin Requests /\ Garbled \notin Requests /\ Unwanted \notin Requests
  BY Http1Assumption DEF Requests, None, Garbled, Unwanted
<1>2. info \in (IF IsHead(buffer, n) THEN {buffer[1].req} ELSE {None, Garbled, Unwanted})
  BY Zenon DEF buildHttpRequestWithoutBody
<1>3. IsHead(buffer, n) /\ info = buffer[1].req
  BY <1>1, <1>2
<1> QED
  BY <1>3 DEF IsHead

\* announced after info was read.
Counted(info) == IF info \in Requests THEN [announced EXCEPT ![info] = @ + 1] ELSE announced

\* The head just read is in the buffer and waits for its body.
HeldNow(seen, p) ==
    /\ seen.info \in Requests /\ seen.info \in bodied /\ seen.info = requests /\ p = 2
    /\ seen.state.isHeaderParsed /\ ~seen.state.isIgnored
    /\ seen.state.headerSize = 2 /\ seen.state.contentLength = 1
    /\ Len(seen.buffer) = 2 /\ seen.buffer[1].req = seen.info /\ seen.buffer[2].req = seen.info
    /\ seen.buffer[1].part # "end"

\* What is read is read for the first time, and what is left in the buffer has not been read.
LEMMA SeenOnce ==
    ASSUME TypeOK, PartsInOrder, TrueSizes(requestBuffer), HeadsInv,
           NEW n \in 1 .. MaxWrite, n <= Len(todo),
           NEW seen \in processRequestBuffer(requestBuffer \o Taken(n))
    PROVE  /\ PartsUpTo(seen.buffer, requests) /\ HeadsDistinct(seen.buffer)
           /\ Processed + n < 2 => NoHeadOf(seen.buffer, requests) /\ seen.info # requests
           /\ seen.info \in Requests => announced[seen.info] = 0 /\ seen.info <= requests
           /\ \/ \A i \in 1 .. Len(seen.buffer) :
                    seen.buffer[i].part = "end" => Counted(seen.info)[seen.buffer[i].req] = 0
              \/ HeldNow(seen, Processed + n)
<1> DEFINE b == requestBuffer \o Taken(n)
           size == requestState.headerSize + requestState.contentLength
           f == First(b, {"end", "chunks"})
           Unread(rest, info) == \A i \in 1 .. Len(rest) : rest[i].part = "end" => Counted(info)[rest[i].req] = 0
<1>b. /\ b \in Seq(RequestPart) /\ Len(b) = Len(requestBuffer) + n
      /\ b[Len(b)] = PartOf(requests, Processed + n)
      /\ PartsUpTo(b, requests) /\ HeadsDistinct(b)
      /\ Processed + n < 2 => NoHeadOf(b, requests)
      /\ HeadsUnread(requestBuffer) => HeadsUnread(b)
      /\ TrueSizes(b)
  BY HeadsJoined, SizesJoined
<1>s. /\ seen \in processRequestBuffer(b) /\ requestState \in ParsingState /\ requestBuffer \in Seq(RequestPart)
  BY DEF TypeOK
<1>n. n \in Nat \ {0} /\ Len(requestBuffer) \in Nat /\ Processed \in Nat /\ requests \in Requests
  <2>1. requests # 0
    BY PartsTaken
  <2>2. requests \in Requests
    BY <2>1 DEF TypeOK, Requests
  <2> QED
    BY <1>s, <2>2, Measures, Http1Assumption DEF PartsInOrder
<1>o. None \notin Requests
  BY DEF None, Requests
<1>f. /\ f \in 0 .. Len(b) /\ (f > 0 => b[f].part = "end")
      /\ \A i \in 1 .. Len(b) : b[i].part = "end" => f \in 1 .. i
  <2>1. /\ f \in 0 .. Len(b) /\ (f > 0 => b[f].part \in {"end", "chunks"})
        /\ \A i \in 1 .. Len(b) : b[i].part \in {"end", "chunks"} => f \in 1 .. i
    BY <1>b, FirstPart
  <2> HIDE DEF b, f
  <2>2. f > 0 => b[f].part # "chunks"
    BY <1>b, <2>1 DEF TrueSizes
  <2> QED
    BY <2>1, <2>2
<1> HIDE DEF b
<1>e. PartsUpTo(<<>>, requests) /\ HeadsDistinct(<<>>) /\ NoHeadOf(<<>>, requests)
      /\ \A info : Unread(<<>>, info)
  BY DEF PartsUpTo, HeadsDistinct, NoHeadOf
<1>1. CASE \/ seen = [buffer |-> <<>>, state |-> requestState, info |-> None, block |-> FALSE]
           \/ seen = [buffer |-> <<>>, state |-> FreshState, info |-> None, block |-> FALSE]
  BY <1>1, <1>e, <1>o, <1>n
<1>2. CASE /\ ~requestState.isIgnored
           /\ IF requestState.isHeaderParsed THEN Len(b) < size ELSE f = 0
           /\ seen = [buffer |-> b, state |-> requestState, info |-> None, block |-> FALSE]
  <2>1. HeadsUnread(b)
    <3>1. CASE HeadsUnread(requestBuffer)
      BY <1>b, <3>1
    <3>2. ASSUME NEW r \in Requests, HeldHead(r) PROVE FALSE
      <4>1. Len(b) >= 3 /\ size = 3
        BY <1>b, <1>n, <3>2 DEF HeldHead
      <4> QED
        BY <1>2, <3>2, <4>1 DEF HeldHead
    <3> QED
      BY <3>1, <3>2 DEF HeadsInv
  <2>2. Unread(b, None)
    BY <1>o, <2>1 DEF HeadsUnread, Counted
  <2> QED
    BY <1>2, <1>b, <1>o, <1>n, <2>2
<1>3. CASE /\ ~requestState.isIgnored /\ requestState.isHeaderParsed
           /\ size >= 0 /\ Len(b) >= size
           /\ seen = [buffer |-> SubSeq(b, size + 1, Len(b)),
                      state |-> [requestState EXCEPT !.isHeaderParsed = FALSE],
                      info |-> None, block |-> FALSE]
  <2>0. size \in Nat /\ size <= Len(b)
    <3>1. size \in Int
      BY <1>s DEF ParsingState, Lengths
    <3> QED
      BY <1>3, <3>1
  <2> DEFINE rest == SubSeq(b, size + 1, Len(b))
  <2>1. /\ PartsUpTo(rest, requests) /\ HeadsDistinct(rest)
        /\ Processed + n < 2 => NoHeadOf(rest, requests)
        /\ HeadsUnread(b) => HeadsUnread(rest)
    <3> HIDE DEF size
    <3> QED
      BY <1>b, <2>0, HeadsLeft
  <2>2. HeadsUnread(rest)
    <3>1. CASE HeadsUnread(requestBuffer)
      BY <1>b, <2>1, <3>1
    <3>2. ASSUME NEW r \in Requests, HeldHead(r) PROVE HeadsUnread(rest)
      <4>1. size = 3 /\ Len(requestBuffer) = 2
        BY <3>2 DEF HeldHead
      <4>2. /\ Len(rest) = n - 1
            /\ \A i \in 1 .. n - 1 : rest[i] = PartOf(requests, Processed + 1 + i)
        <5>1. Len(b) = n + 2 /\ 3 <= Len(b)
          BY <1>b, <1>n, <4>1
        <5>2. Len(rest) = Len(b) - 3 /\ \A i \in 1 .. Len(b) - 3 : rest[i] = b[3 + i]
          <6>0. size = 3
            BY <4>1
          <6>1. b \in Seq(RequestPart) /\ size \in Nat /\ size <= Len(b)
            BY <1>b, <4>1, <5>1
          <6> HIDE DEF size
          <6>2. /\ Len(rest) = Len(b) - size
                /\ \A i \in 1 .. Len(b) - size : rest[i] = b[size + i]
            BY <6>1, TakenAndRest
          <6> QED
            BY <6>0, <6>2
        <5>3. /\ Taken(n) \in Seq(RequestPart) /\ Len(Taken(n)) = n
              /\ \A i \in 1 .. n : Taken(n)[i] = PartOf(requests, Processed + i)
          BY PartsTaken
        <5>4. \A i \in 1 .. n : b[2 + i] = Taken(n)[i]
          <6>1. \A i \in 1 .. Len(Taken(n)) : (requestBuffer \o Taken(n))[Len(requestBuffer) + i] = Taken(n)[i]
            BY <1>s, <5>3, Joined
          <6> QED
            BY <4>1, <5>3, <6>1 DEF b
        <5>5. ASSUME NEW i \in 1 .. n - 1 PROVE rest[i] = PartOf(requests, Processed + 1 + i)
          <6>1. i + 1 \in 1 .. n /\ 2 + (i + 1) = 3 + i /\ Processed + (i + 1) = Processed + 1 + i
            BY <1>n
          <6>2. b[3 + i] = Taken(n)[i + 1]
            BY <5>4, <6>1
          <6>3. i \in 1 .. Len(b) - 3
            BY <1>n, <5>1
          <6> QED
            BY <5>2, <5>3, <6>1, <6>2, <6>3
        <5>6. Len(rest) = n - 1
          <6>1. (n + 2) - 3 = n - 1
            BY <1>n
          <6> QED
            BY <5>1, <5>2, <6>1
        <5> QED
          BY <5>5, <5>6
      <4>3. \A i \in 1 .. n - 1 : rest[i].part = "end" => HeadComing /\ rest[i].req = requests
        <5>1. ASSUME NEW i \in 1 .. n - 1, rest[i].part = "end" PROVE HeadComing /\ rest[i].req = requests
          <6>1. PartOf(requests, Processed + 1 + i).part = "end"
            BY <4>2, <5>1
          <6>2. Processed + 1 + i = 2
            BY <1>n, <6>1 DEF PartOf
          <6>3. Processed < 2
            BY <1>n, <6>2
          <6>4. todo # <<>>
            BY <1>n, Measures
          <6>5. rest[i].req = requests
            <7>1. \A j : PartOf(requests, j).req = requests
              BY DEF PartOf
            <7> QED
              BY <4>2, <7>1
          <6> QED
            BY <6>3, <6>4, <6>5 DEF HeadComing
        <5> QED
          BY <5>1
      <4> QED
        BY <4>2, <4>3 DEF HeadsUnread, HeadsInv
    <3> QED
      BY <3>1, <3>2 DEF HeadsInv
  <2>3. Unread(rest, None)
    BY <1>o, <2>2 DEF HeadsUnread, Counted
  <2> HIDE DEF rest
  <2>4. seen.buffer = rest /\ seen.info = None
    BY <1>3 DEF rest
  <2> QED
    BY <1>o, <1>n, <2>1, <2>3, <2>4
<1>4. ASSUME ~requestState.isHeaderParsed, f > 0,
             NEW info \in buildHttpRequestWithoutBody(b, f), NEW length \in parseContentLength(b, f),
             ReadAs(seen, b, f, length, info)
      PROVE  /\ PartsUpTo(seen.buffer, requests) /\ HeadsDistinct(seen.buffer)
             /\ Processed + n < 2 => NoHeadOf(seen.buffer, requests) /\ seen.info # requests
             /\ seen.info \in Requests => announced[seen.info] = 0 /\ seen.info <= requests
             /\ Unread(seen.buffer, seen.info) \/ HeldNow(seen, Processed + n)
  <2>1. HeadsUnread(b)
    BY <1>4, <1>b DEF HeadsInv, HeldHead
  <2>0. f \in Nat /\ f <= Len(b) /\ Len(b) \in Nat
    BY <1>f, <1>b
  <2>3. info \in Requests => /\ f = 2 /\ b[1].part = "start" /\ b[1].req = info /\ b[2].req = info
                             /\ IsHead(b, f)
    BY <1>b, <1>4, <2>0, ReadRequest
  <2>t. length \in {0, 1} /\ (IsHead(b, f) => length = TrueLength(b[f].req))
    <3>1. f \in 1 .. Len(b)
      BY <1>f, <1>4
    <3> HIDE DEF f
    <3>2. b[f].length = TrueLength(b[f].req) /\ TrueLength(b[f].req) \in {0, 1}
      BY <1>b, <3>1 DEF TrueSizes, TrueLength
    <3> QED
      BY <1>4, <3>2 DEF parseContentLength
  <2>2. f \in Nat /\ f <= Len(b) /\ Len(b) \in Nat /\ length \in {0, 1}
    BY <2>0, <2>t
  <2>4. info \in Requests => b[2].part = "end" /\ 2 \in 1 .. Len(b)
    BY <1>f, <1>4, <2>2, <2>3
  <2>5. info \in Requests => /\ announced[info] = 0 /\ info <= requests
                             /\ Counted(info) = [announced EXCEPT ![info] = 1]
    <3>1. ASSUME info \in Requests PROVE announced[info] = 0 /\ info <= requests
      BY <1>b, <2>1, <2>3, <2>4, <3>1 DEF HeadsUnread, PartsUpTo
    <3>2. ASSUME info \in Requests PROVE Counted(info) = [announced EXCEPT ![info] = 1]
      BY <3>1, <3>2 DEF Counted, HeadsInv
    <3> QED
      BY <3>1, <3>2
  <2>6. Processed + n < 2 => info # requests
    BY <1>b, <1>n, <2>3, <2>4 DEF NoHeadOf
  <2>7. \/ seen.buffer = <<>> /\ seen.info = info
        \/ /\ Len(b) < f + length /\ seen.info = info /\ seen.buffer = b
           /\ seen.state = HeadState(f, length, TRUE, FALSE)
        \/ Len(b) >= f + length /\ seen.info = info /\ seen.buffer = SubSeq(b, f + length + 1, Len(b))
    <3> HIDE DEF f
    <3>1. \/ seen = [buffer |-> <<>>, state |-> HeadState(f, length, TRUE, TRUE), info |-> info, block |-> TRUE]
          \/ seen = [buffer |-> <<>>, state |-> HeadState(f, length, TRUE, TRUE), info |-> info, block |-> FALSE]
          \/ /\ Len(b) < f + length
             /\ seen = [buffer |-> b, state |-> HeadState(f, length, TRUE, FALSE), info |-> info, block |-> FALSE]
          \/ /\ Len(b) >= f + length
             /\ seen = [buffer |-> SubSeq(b, f + length + 1, Len(b)),
                        state |-> HeadState(f, length, FALSE, FALSE), info |-> info, block |-> FALSE]
          \/ seen = [buffer |-> <<>>, state |-> FreshState, info |-> info, block |-> FALSE]
      BY <1>4, Zenon DEF ReadAs
    <3>2. ASSUME NEW rest, NEW state, NEW block,
                 seen = [buffer |-> rest, state |-> state, info |-> info, block |-> block]
          PROVE  /\ seen.buffer = rest /\ seen.info = info /\ seen.state = state
      BY <3>2
    <3> QED
      BY <3>1, <3>2, Zenon
  <2>8. CASE seen.buffer = <<>> /\ seen.info = info
    BY <1>e, <2>5, <2>6, <2>8
  <2>9. CASE /\ Len(b) < f + length /\ seen.info = info /\ seen.buffer = b
             /\ seen.state = HeadState(f, length, TRUE, FALSE)
    <3>1. CASE info \in Requests
      <4>1. Len(b) = 2 /\ length = 1 /\ f = 2
        <5>1. f = 2 /\ Len(b) < f + length /\ 2 \in 1 .. Len(b) /\ Len(b) \in Nat
          BY <2>2, <2>3, <2>4, <2>9, <3>1, Zenon
        <5>2. PICK l \in {0, 1}, m \in Nat : l = length /\ m = Len(b)
          BY <2>2
        <5> HIDE DEF f
        <5>3. m < 2 + l /\ 2 <= m
          BY <5>1, <5>2
        <5>4. m = 2 /\ l = 1
          BY <5>3
        <5> QED
          BY <5>1, <5>2, <5>4
      <4>2. PartOf(requests, Processed + n) = b[2]
        BY <1>b, <4>1
      <4>3. Processed + n = 2 /\ info = requests
        BY <1>n, <2>3, <2>4, <3>1, <4>2 DEF PartOf
      <4>4. info \in bodied
        BY <2>3, <2>t, <3>1, <4>1 DEF TrueLength
      <4>5. HeldNow(seen, Processed + n)
        BY <2>3, <2>9, <3>1, <4>1, <4>3, <4>4 DEF HeldNow, HeadState
      <4> QED
        BY <1>b, <1>n, <2>5, <2>6, <2>9, <4>5
    <3>2. CASE info \notin Requests
      <4>1. Unread(b, info)
        BY <2>1, <3>2 DEF HeadsUnread, Counted
      <4> QED
        BY <1>b, <2>6, <2>9, <3>2, <4>1
    <3> QED
      BY <3>1, <3>2
  <2>10. CASE Len(b) >= f + length /\ seen.info = info /\ seen.buffer = SubSeq(b, f + length + 1, Len(b))
    <3> DEFINE k == f + length
               rest == SubSeq(b, k + 1, Len(b))
    <3>1. k \in Nat /\ k <= Len(b) /\ f \in 1 .. k
      BY <1>4, <2>2, <2>10
    <3>2. seen.buffer = rest /\ seen.info = info
      BY <2>10
    <3> HIDE DEF k
    <3>3. /\ PartsUpTo(rest, requests) /\ HeadsDistinct(rest)
          /\ Processed + n < 2 => NoHeadOf(rest, requests)
          /\ HeadsUnread(rest)
          /\ NoHeadOf(rest, b[f].req)
      BY <1>b, <1>f, <1>4, <2>1, <3>1, HeadsLeft
    <3>r. rest \in Seq(RequestPart)
      BY <1>b, <3>1, TakenAndRest
    <3> HIDE DEF rest
    <3>4. Unread(rest, info)
      <4> SUFFICES ASSUME NEW i \in 1 .. Len(rest), rest[i].part = "end"
                   PROVE  Counted(info)[rest[i].req] = 0
        OBVIOUS
      <4>1. announced[rest[i].req] = 0
        BY <3>3 DEF HeadsUnread
      <4>2. rest[i].req \in Requests
        <5>1. rest[i] \in RequestPart
          BY <3>r, ElementOfSeq
        <5> QED
          BY <5>1 DEF RequestPart
      <4>3. info \in Requests => rest[i].req # info
        BY <2>3, <3>3 DEF NoHeadOf
      <4> QED
        BY <2>5, <4>1, <4>2, <4>3 DEF Counted, HeadsInv
    <3> QED
      BY <2>5, <2>6, <3>2, <3>3, <3>4
  <2> QED
    BY <2>7, <2>8, <2>9, <2>10
<1> HIDE DEF f, size
<1>5. \/ seen = [buffer |-> <<>>, state |-> requestState, info |-> None, block |-> FALSE]
      \/ /\ ~requestState.isIgnored
         /\ IF requestState.isHeaderParsed THEN Len(b) < size ELSE f = 0
         /\ seen = [buffer |-> b, state |-> requestState, info |-> None, block |-> FALSE]
      \/ /\ ~requestState.isIgnored /\ requestState.isHeaderParsed
         /\ size >= 0 /\ Len(b) >= size
         /\ seen = [buffer |-> SubSeq(b, size + 1, Len(b)),
                    state |-> [requestState EXCEPT !.isHeaderParsed = FALSE],
                    info |-> None, block |-> FALSE]
      \/ /\ ~requestState.isHeaderParsed /\ f > 0
         /\ \E info \in buildHttpRequestWithoutBody(b, f) : \E length \in parseContentLength(b, f) :
               ReadAs(seen, b, f, length, info)
      \/ seen = [buffer |-> <<>>, state |-> FreshState, info |-> None, block |-> FALSE]
  BY <1>b, <1>s, SeenCases DEF f, size
<1> QED
  BY <1>1, <1>2, <1>3, <1>4, <1>5

\* A write of the next n parts, however it ends.
LEMMA WriteOnce ==
    ASSUME TypeOK, PartsInOrder, ServerInOrder, TrueSizes(requestBuffer), "early" \notin quirks,
           HeadsInv, ReportsInv,
           NEW n \in 1 .. MaxWrite, n <= Len(todo),
           NEW seen \in processRequestBuffer(requestBuffer \o Taken(n)), RequestSeen(seen),
           UNCHANGED <<bodied, requests, requestInfo, answers>>,
           todo' # <<>> => Processed' = Processed + n,
           writing' # <<>> => Processed' = Processed + n,
           Processed + n < SizeOf(requests) => whole' = {}
    PROVE  HeadsInv' /\ ReportsInv'
<1>1. /\ PartsUpTo(seen.buffer, requests) /\ HeadsDistinct(seen.buffer)
      /\ Processed + n < 2 => NoHeadOf(seen.buffer, requests) /\ seen.info # requests
      /\ seen.info \in Requests => announced[seen.info] = 0 /\ seen.info <= requests
      /\ \/ \A i \in 1 .. Len(seen.buffer) :
               seen.buffer[i].part = "end" => Counted(seen.info)[seen.buffer[i].req] = 0
         \/ HeldNow(seen, Processed + n)
  BY SeenOnce
<1>2. announced \in [Requests -> {0, 1}]
  BY DEF HeadsInv
<1>3. /\ requestBuffer' = seen.buffer /\ requestState' = seen.state
      /\ pendingRequest' = IF seen.info = None THEN pendingRequest ELSE seen.info
      /\ sentRequests' = sentRequests \cup ({seen.info} \cap Requests)
      /\ replied' = replied \ {seen.info} /\ reported' = reported
      /\ announced' = Counted(seen.info)
  BY DEF RequestSeen, Counted
<1>4. announced' = IF seen.info \in Requests THEN [announced EXCEPT ![seen.info] = 1] ELSE announced
  <2>1. CASE seen.info \in Requests
    <3>1. announced[seen.info] + 1 = 1
      BY <1>1, <2>1
    <3> QED
      BY <1>3, <2>1, <3>1 DEF Counted
  <2>2. CASE seen.info \notin Requests
    BY <1>3, <2>2 DEF Counted
  <2> QED
    BY <2>1, <2>2
<1>5. announced' \in [Requests -> {0, 1}]
      /\ \A r \in Requests : announced'[r] = IF r = seen.info THEN 1 ELSE announced[r]
  BY <1>2, <1>4
<1>n. n \in Nat \ {0} /\ requests \in Requests /\ Processed \in Nat /\ todo # <<>>
  <2>1. requests # 0 /\ n \in Nat \ {0}
    BY PartsTaken
  <2>2. requests \in Requests
    BY <2>1 DEF TypeOK, Requests
  <2> QED
    BY <2>1, <2>2, Measures DEF PartsInOrder
<1>6. \A r \in Requests : announced'[r] = 1 => r <= requests'
  BY <1>1, <1>5 DEF HeadsInv
<1>7. HeadComing' => announced'[requests'] = 0 /\ NoHeadOf(requestBuffer', requests')
  <2> SUFFICES ASSUME HeadComing' PROVE announced'[requests] = 0 /\ NoHeadOf(requestBuffer', requests)
    OBVIOUS
  <2>1. Processed + n < 2
    BY DEF HeadComing
  <2>2. HeadComing
    BY <1>n, <2>1 DEF HeadComing
  <2> QED
    BY <1>1, <1>3, <1>5, <1>n, <2>1, <2>2 DEF HeadsInv
<1>8. HeadsUnread(requestBuffer)' \/ \E r \in Requests : HeldHead(r)'
  <2>1. CASE \A i \in 1 .. Len(seen.buffer) :
                seen.buffer[i].part = "end" => Counted(seen.info)[seen.buffer[i].req] = 0
    BY <1>3, <2>1 DEF HeadsUnread
  <2>2. CASE HeldNow(seen, Processed + n)
    <3>1. whole' = {} /\ answers' = <<>>
      <4>1. SizeOf(requests) = 3
        BY <2>2 DEF HeldNow, SizeOf
      <4> QED
        BY <1>n, <2>2, <4>1 DEF HeldNow, ServerInOrder
    <3>2. HeldHead(seen.info)'
      BY <1>3, <2>2, <3>1 DEF HeldNow, HeldHead
    <3> QED
      BY <2>2, <3>2 DEF HeldNow
  <2> QED
    BY <1>1, <2>1, <2>2
<1>9. HeadsInv'
  <2>1. PartsUpTo(requestBuffer, requests)' /\ HeadsDistinct(requestBuffer)'
    BY <1>1, <1>3 DEF PartsUpTo, HeadsDistinct
  <2>2. HeadComing' => NoHeadOf(requestBuffer, requests)'
    BY <1>7 DEF NoHeadOf
  <2> QED
    BY <1>5, <1>6, <1>7, <1>8, <2>1, <2>2 DEF HeadsInv
<1>10. ReportsInv'
  <2>1. \A i \in 1 .. Len(reported) : reported[i].request \in Requests => reported[i].request # seen.info
    BY <1>1 DEF ReportsInv
  <2>2. \A r \in Requests :
            r \in {pendingRequest', requestInfo'} => announced'[r] = 1 /\ r \in sentRequests'
    BY <1>3, <1>5 DEF ReportsInv
  <2>3. \A i \in 1 .. Len(reported) :
           reported[i].request \in Requests =>
              announced'[reported[i].request] = 1 /\ reported[i].request \in replied'
    BY <1>3, <1>5, <2>1 DEF ReportsInv
  <2> QED
    BY <1>3, <2>2, <2>3 DEF ReportsInv
<1> QED
  BY <1>9, <1>10

\* The steps that read no request keep what HeadsInv says if the held head is not disturbed.
LEMMA HeadsUndisturbed ==
    ASSUME HeadsInv,
           UNCHANGED <<announced, requests, bodied>>,
           todo' = todo \/ todo' = <<>>,
           requestBuffer' = requestBuffer \/ requestBuffer' = <<>>,
           \/ requestBuffer' = <<>>
           \/ HeadsUnread(requestBuffer)
           \/ /\ UNCHANGED requestState
              /\ whole' = {} \/ whole' \subseteq whole
              /\ answers' = answers \/ answers' = <<>>
              /\ writing' = <<>> \/ UNCHANGED <<writing, todo>>
    PROVE  HeadsInv'
<1>1. Processed' = Processed \/ todo' = <<>>
  BY DEF Processed, SizeOf
<1>2. HeadComing' => HeadComing
  BY <1>1 DEF HeadComing
<1>3. CASE requestBuffer' = <<>>
  <2>1. PartsUpTo(requestBuffer, requests)' /\ HeadsDistinct(requestBuffer)'
        /\ HeadsUnread(requestBuffer)' /\ NoHeadOf(requestBuffer, requests)'
    BY <1>3 DEF PartsUpTo, HeadsDistinct, HeadsUnread, NoHeadOf
  <2> QED
    BY <1>2, <2>1 DEF HeadsInv
<1>4. CASE requestBuffer' = requestBuffer
  <2>1. PartsUpTo(requestBuffer, requests)' /\ HeadsDistinct(requestBuffer)'
        /\ (HeadsUnread(requestBuffer) => HeadsUnread(requestBuffer)')
        /\ (HeadComing' => NoHeadOf(requestBuffer, requests)')
    BY <1>2, <1>4 DEF HeadsInv, PartsUpTo, HeadsDistinct, HeadsUnread, NoHeadOf
  <2>2. CASE HeadsUnread(requestBuffer)
    BY <1>2, <2>1, <2>2 DEF HeadsInv
  <2>3. ASSUME NEW r \in Requests, HeldHead(r), UNCHANGED requestState,
               whole' = {} \/ whole' \subseteq whole, answers' = answers \/ answers' = <<>>,
               writing' = <<>> \/ UNCHANGED <<writing, todo>>
        PROVE  HeadsInv'
    <3>1. writing' # <<>> => Processed' = Processed
      BY <2>3 DEF Processed, SizeOf
    <3>2. whole' = {} /\ answers' = <<>>
      BY <2>3 DEF HeldHead
    <3>3. HeldHead(r)'
      BY <1>4, <2>3, <3>1, <3>2 DEF HeldHead
    <3> QED
      BY <1>2, <2>1, <3>3 DEF HeadsInv
  <2>4. CASE requestBuffer' = <<>>
    BY <1>3, <2>4
  <2> QED
    BY <2>2, <2>3, <2>4 DEF HeadsInv
<1> QED
  BY <1>3, <1>4

\* A read either leaves the requests alone or reports the pending one and forgets it.
LEMMA ReadOutcomes ==
    ASSUME TypeOK, HookStates, NEW n \in 1 .. MaxWrite, Read(n)
    PROVE  /\ UNCHANGED <<requestBuffer, announced>>
           /\ \/ UNCHANGED <<requestState, pendingRequest, sentVars, reported, stopped>>
              \/ \E bytes \in Seq(ResponsePart) :
                    /\ bytes # <<>> /\ completeAndDispatchRequest(bytes)
                    /\ pendingRequest # None /\ pendingRequest' = None
                    /\ requestState' = requestState \/ (collect /\ requestState' = FreshState)
<1>0. responseBuffer \in Seq(ResponsePart) /\ answers \in Seq(ResponsePart) /\ responseState \in ParsingState
  BY DEF TypeOK
<1>1. n \in Nat /\ n <= Len(answers)
  BY Http1Assumption DEF Read
<1>2. PICK buffer \in Seq(ResponsePart) :
         \/ UNCHANGED <<requestBuffer, requestState, pendingRequest, sentVars, reported, announced, stopped>>
         \/ processResponseBuffer(buffer)
  <2>1. responseBuffer \o SubSeq(answers, 1, n) \in Seq(ResponsePart)
    BY <1>0, <1>1, TakenAndRest
  <2> QED
    BY <2>1 DEF Read, reportVars
<1>3. CASE processResponseBuffer(buffer)
  <2> DEFINE f == First(buffer, {"head", "interim"})
  <2>0. f \in 0 .. Len(buffer) /\ Len(buffer) \in Nat
    BY FirstPart
  <2>1. CASE ResponseIgnored(buffer) \/ ResponseWaits(buffer)
    BY <1>3, <2>1 DEF processResponseBuffer, ResponseIgnored, ResponseWaits
  <2>2. CASE ResponseHeadOnly(buffer)
    <3>1. /\ completeAndDispatchRequest(SubSeq(buffer, 1, f))
          /\ pendingRequest # None /\ pendingRequest' = None /\ UNCHANGED <<requestBuffer, requestState>>
          /\ f > 0
      BY <2>2 DEF ResponseHeadOnly
    <3>2. SubSeq(buffer, 1, f) \in Seq(ResponsePart) /\ SubSeq(buffer, 1, f) # <<>>
      <4>1. f \in Nat /\ f <= Len(buffer)
        BY <2>0
      <4> HIDE DEF f
      <4>2. SubSeq(buffer, 1, f) \in Seq(ResponsePart) /\ Len(SubSeq(buffer, 1, f)) = f
        BY <4>1, TakenAndRest
      <4> QED
        BY <3>1, <4>1, <4>2
    <3> HIDE DEF f
    <3> QED
      BY <1>3, <3>1, <3>2 DEF processResponseBuffer
  <2>3. CASE ResponseWithBody(buffer)
    <3> DEFINE state == IF responseState.isHeaderParsed THEN responseState
                        ELSE [isHeaderParsed |-> TRUE, headerSize |-> f,
                              contentLength |-> buffer[f].length, isIgnored |-> FALSE]
               size == state.headerSize + state.contentLength
               end == IF size > f THEN size ELSE f
    <3>1. UNCHANGED requestBuffer /\ pendingRequest # None /\ collect
      BY <2>3 DEF ResponseWithBody, HookStates
    <3>2. \/ UNCHANGED <<requestState, pendingRequest, sentVars, reported, stopped>>
          \/ /\ Len(buffer) >= size
             /\ completeAndDispatchRequest(SubSeq(buffer, 1, end))
             /\ requestState' = FreshState \/ UNCHANGED requestState
             /\ pendingRequest' = None
      BY <2>3 DEF ResponseWithBody, MessageSize
    <3>3. size \in Int
      <4>1. responseState.isHeaderParsed \/ f > 0
        BY <2>3 DEF ResponseWithBody
      <4>2. f > 0 => buffer[f] \in ResponsePart
        BY <2>0
      <4>3. f > 0 => buffer[f].length \in Lengths
        BY <4>2 DEF ResponsePart
      <4>4. state \in ParsingState
        BY <1>0, <2>0, <4>1, <4>3 DEF ParsingState
      <4> QED
        BY <4>4 DEF ParsingState, Lengths
    <3>5. f > 0 \/ size > 0
      BY <2>3 DEF ResponseWithBody, HookStates, MessageSize
    <3>4. Len(buffer) >= size =>
              SubSeq(buffer, 1, end) \in Seq(ResponsePart) /\ SubSeq(buffer, 1, end) # <<>>
      <4>1. Len(buffer) >= size => end \in Nat /\ end <= Len(buffer) /\ end > 0
        BY <2>0, <3>3, <3>5
      <4> HIDE DEF end, size
      <4>2. Len(buffer) >= size =>
                SubSeq(buffer, 1, end) \in Seq(ResponsePart) /\ Len(SubSeq(buffer, 1, end)) = end
        BY <4>1, TakenAndRest
      <4> QED
        BY <4>1, <4>2
    <3> HIDE DEF size, end
    <3> QED
      BY <1>3, <3>1, <3>2, <3>4 DEF processResponseBuffer
  <2> QED
    BY <1>3, <2>1, <2>2, <2>3 DEF processResponseBuffer
<1> QED
  BY <1>2, <1>3

\* A report of the pending request is the first one of it.
LEMMA ReportOnce ==
    ASSUME TypeOK, ReportsInv, UNCHANGED <<announced, requestInfo>>,
           NEW bytes \in Seq(ResponsePart), bytes # <<>>, completeAndDispatchRequest(bytes),
           pendingRequest' = None
    PROVE  ReportsInv'
<1> DEFINE entry == [request |-> pendingRequest, answers |-> Senders(bytes),
                     final |-> First(bytes, {"head"}) = 1, whole |-> bytes[Len(bytes)].last]
<1>0. pendingRequest \in Infos \cup {None} /\ None \notin Requests /\ replied \subseteq Requests
  BY DEF TypeOK, None, Requests
<1>1. /\ sentRequests' = sentRequests \cup ({pendingRequest} \cap Requests)
      /\ replied' = replied \cup ({pendingRequest} \cap Requests)
      /\ reported' = IF pendingRequest \in replied THEN reported ELSE Append(reported, entry)
  BY DEF completeAndDispatchRequest
<1>2. entry \in Report /\ entry.request = pendingRequest
  <2>1. Senders(bytes) \subseteq Requests
    BY SendersAreRequests
  <2>2. bytes[Len(bytes)].last \in BOOLEAN
    <3>1. Len(bytes) \in 1 .. Len(bytes)
      OBVIOUS
    <3>2. bytes[Len(bytes)] \in ResponsePart
      BY <3>1, ElementOfSeq
    <3> QED
      BY <3>2 DEF ResponsePart
  <2> QED
    BY <1>0, <2>1, <2>2 DEF Report
<1>3. \A r \in Requests :
          r \in {pendingRequest', requestInfo'} => announced'[r] = 1 /\ r \in sentRequests'
  BY <1>0, <1>1 DEF ReportsInv
<1>4. CASE pendingRequest \in replied
  BY <1>0, <1>1, <1>3, <1>4 DEF ReportsInv
<1>5. CASE pendingRequest \notin replied
  <2> HIDE DEF entry
  <2>0. reported \in Seq(Report)
    BY DEF ReportsInv
  <2>1. PICK l \in Nat : l = Len(reported)
    BY <2>0
  <2>2. /\ reported' \in Seq(Report) /\ Len(reported') = l + 1
        /\ \A i \in 1 .. l : reported'[i] = reported[i]
        /\ reported'[l + 1] = entry
    BY <1>1, <1>2, <1>5, <2>0, <2>1
  <2>3. \A i \in 1 .. l + 1 : i \in 1 .. l \/ i = l + 1
    BY <2>1
  <2>4. \A i \in 1 .. l : reported[i].request \in Requests => reported[i].request # pendingRequest
    BY <1>5, <2>1 DEF ReportsInv
  <2>5. pendingRequest \in Requests => announced[pendingRequest] = 1
    BY DEF ReportsInv
  <2>6. \A i \in 1 .. l + 1 : reported'[i].request \in Requests =>
              announced'[reported'[i].request] = 1 /\ reported'[i].request \in replied'
    BY <1>1, <1>2, <2>1, <2>2, <2>3, <2>5 DEF ReportsInv
  <2>7. ASSUME NEW i \in 1 .. l + 1, NEW j \in 1 .. l + 1,
               i # j, reported'[i].request = reported'[j].request
        PROVE  reported'[i].request \notin Requests
    <3>1. CASE i \in 1 .. l /\ j \in 1 .. l
      BY <2>1, <2>2, <2>7, <3>1 DEF ReportsInv
    <3>2. CASE i \in 1 .. l /\ j = l + 1
      BY <1>2, <2>2, <2>4, <2>7, <3>2
    <3>3. CASE j \in 1 .. l /\ i = l + 1
      BY <1>2, <2>2, <2>4, <2>7, <3>3
    <3> QED
      BY <2>3, <2>7, <3>1, <3>2, <3>3
  <2> QED
    BY <1>3, <2>2, <2>6, <2>7 DEF ReportsInv
<1> QED
  BY <1>4, <1>5

\* Nothing is reported when only what is pending changes hands.
LEMMA ReportsKept ==
    ASSUME ReportsInv, UNCHANGED <<announced, replied, reported>>, sentRequests \subseteq sentRequests',
           pendingRequest' \in {pendingRequest, requestInfo, None},
           requestInfo' \in {pendingRequest, requestInfo, None}
    PROVE  ReportsInv'
<1>1. None \notin Requests
  BY DEF None, Requests
<1> QED
  BY <1>1 DEF ReportsInv

\* A write of the java layer announces a head at most once.
LEMMA JavaWriteOnce ==
    ASSUME TypeOK, HookStates, PartsInOrder, ServerInOrder, TrueSizes(requestBuffer), "early" \notin quirks,
           HeadsInv, ReportsInv, Orderly',
           NEW n \in 1 .. MaxWrite, JavaWrite(n)
    PROVE  HeadsInv' /\ ReportsInv'
<1>0. n <= Len(todo) /\ layer = "java" /\ UNCHANGED <<case, writeVars, requests, answers>>
  BY DEF JavaWrite
<1>1. writing = <<>> /\ writing' = <<>> /\ bodied' = bodied /\ requestInfo' = requestInfo
  BY <1>0 DEF HookStates, Idle, writeVars, case
<1>2. PICK seen \in processRequestBuffer(requestBuffer \o Taken(n)) :
          /\ RequestSeen(seen)
          /\ IF seen.block THEN Refuse(Taken(n)) /\ Note(MarksOf(seen))
             ELSE WriteThrough(Taken(n), Rest(todo, n), MarksOf(seen)) /\ UNCHANGED stopped
  BY DEF JavaWrite
<1>3. /\ n \in Nat \ {0} /\ Taken(n) \in Seq(RequestPart) /\ Len(Taken(n)) = n
      /\ \A i \in 1 .. n : Taken(n)[i] = PartOf(requests, Processed + i)
      /\ Len(Rest(todo, n)) = Len(todo) - n
  BY <1>0, PartsTaken
<1>4. todo # <<>> /\ whole = {}
  <2>1. todo # <<>>
    BY <1>0, <1>3, Measures
  <2> QED
    BY <2>1 DEF ServerInOrder
<1>5. /\ todo' # <<>> => Processed' = Processed + n
      /\ Processed + n < SizeOf(requests) => whole' = {}
  <2>1. CASE seen.block
    BY <1>2, <1>4, <2>1 DEF Refuse
  <2>2. CASE ~seen.block
    <3>1. Deliver(Taken(n)) /\ todo' = Rest(todo, n)
      <4>1. Rest(todo, n) \in Seq(RequestPart)
        BY <1>0, PartsTaken
      <4> QED
        BY <1>2, <1>3, <2>2, <4>1, WrittenThrough
    <3>2. Processed' = Processed + n
      BY <1>0, <1>1, <3>1, AfterTaken
    <3>3. Processed \in Nat /\ Processed + n <= SizeOf(requests)
      BY <1>0, <1>1, <1>3, Measures DEF PartsInOrder
    <3>4. /\ \A i \in 1 .. Len(Taken(n)) : Taken(n)[i] = PartOf(requests, Processed + i)
          /\ Processed + Len(Taken(n)) <= SizeOf(requests)
          /\ arrived \subseteq {requests} /\ whole \subseteq arrived
      BY <1>3, <3>3 DEF ServerInOrder
    <3>5. Processed + Len(Taken(n)) < SizeOf(requests) => whole' \subseteq whole
      BY <1>3, <3>1, <3>3, <3>4, DeliveredInOrder
    <3> QED
      BY <1>3, <1>4, <3>2, <3>5
  <2> QED
    BY <2>1, <2>2
<1> QED
  BY <1>0, <1>1, <1>2, <1>5, WriteOnce

\* A write of the native layer announces a head at most once.
LEMMA NativeWriteOnce ==
    ASSUME TypeOK, HookStates, PartsInOrder, ServerInOrder, TrueSizes(requestBuffer), "early" \notin quirks,
           HeadsInv, ReportsInv,
           NEW n \in 1 .. MaxWrite, NativeWrite(n)
    PROVE  HeadsInv' /\ ReportsInv'
<1>0. /\ n <= Len(todo) /\ pc = "idle" /\ writing' = Taken(n) /\ todo' = Rest(todo, n)
      /\ UNCHANGED <<bodied, requests, requestInfo, answers, whole>>
  BY DEF NativeWrite, Idle, case, serverVars
<1>1. writing = <<>>
  BY <1>0 DEF HookStates, Idle
<1>2. PICK seen \in processRequestBuffer(requestBuffer \o Taken(n)) : RequestSeen(seen)
  BY DEF NativeWrite
<1>3. Processed' = Processed + n
  BY <1>0, <1>1, AfterTaken
<1>4. whole' = {}
  <2>1. todo # <<>>
    BY <1>0, PartsTaken, Measures
  <2> QED
    BY <1>0, <2>1 DEF ServerInOrder
<1> QED
  BY <1>0, <1>2, <1>3, <1>4, WriteOnce

\* The end of a native write announces nothing and puts back only what was announced.
LEMMA PutPendingOnce ==
    ASSUME TypeOK, HookStates, PartsInOrder, ServerInOrder, HeadsInv, ReportsInv, PutPending, Orderly'
    PROVE  HeadsInv' /\ ReportsInv'
<1>0. pc = "put" /\ writing' = <<>> /\ requestInfo' = None /\ Announce(requestInfo)
      /\ UNCHANGED <<requestBuffer, requestState, bodied, requests, connection, answers>>
  BY DEF PutPending, case
<1>a. UNCHANGED <<announced, replied, reported>> /\ sentRequests \subseteq sentRequests'
  <2>1. requestInfo \notin Requests \ sentRequests
    BY DEF ReportsInv
  <2> QED
    BY <1>0, <2>1 DEF Announce
<1>1. pendingRequest' \in {pendingRequest, requestInfo, None}
  BY DEF PutPending, BlockWrite
<1>2. ReportsInv'
  BY <1>0, <1>1, <1>a, ReportsKept
<1>3. connection = "open" /\ writing # <<>>
  BY <1>0 DEF ServerInOrder, HookStates, Idle
<1>4. CASE BlockWrite
  <2>1. todo' = <<>> /\ UNCHANGED whole
    BY <1>4 DEF BlockWrite, Refuse
  <2> QED
    BY <1>0, <1>2, <1>a, <2>1, HeadsUndisturbed
<1>5. CASE WriteThrough(writing, todo, {})
  <2>w. writing \in Seq(RequestPart) /\ todo \in Seq(RequestPart)
    BY DEF TypeOK
  <2>4. Deliver(writing) /\ todo' = todo
    BY <1>5, <2>w, WrittenThrough
  <2>5. CASE HeadsUnread(requestBuffer)
    BY <1>0, <1>2, <1>a, <2>4, <2>5, HeadsUndisturbed
  <2>6. ASSUME NEW r \in Requests, HeldHead(r) PROVE HeadsInv'
    <3>1. Processed = 2 /\ r = requests /\ SizeOf(requests) = 3
      BY <1>3, <2>6 DEF HeldHead, SizeOf
    <3>2. Gone \in Nat /\ Gone + Len(writing) = Processed
      BY Measures DEF PartsInOrder
    <3>3. Gone + Len(writing) <= SizeOf(requests) /\ Gone + Len(writing) < SizeOf(requests)
      BY <3>1, <3>2
    <3>4. /\ \A i \in 1 .. Len(writing) : writing[i] = PartOf(requests, Gone + i)
          /\ arrived \subseteq {requests} /\ whole \subseteq arrived
      BY DEF PartsInOrder, ServerInOrder
    <3>5. whole' \subseteq whole
      BY <2>w, <2>4, <3>2, <3>3, <3>4, DeliveredInOrder
    <3> QED
      BY <1>0, <1>a, <2>4, <3>5, HeadsUndisturbed
  <2> QED
    BY <1>2, <2>5, <2>6 DEF HeadsInv
<1> QED
  BY <1>3, <1>4, <1>5 DEF PutPending

\* A new request has not been announced.
LEMMA BeginOnce ==
    ASSUME TypeOK, HookStates, ServerInOrder, HeadsInv, ReportsInv, BeginRequest
    PROVE  HeadsInv' /\ ReportsInv'
<1>0. /\ requests' = requests + 1 /\ pc = "idle"
      /\ UNCHANGED <<requestBuffer, requestState, pendingRequest, sentVars, requestInfo, writing, bodied,
                     announced, reported, whole, answers>>
  BY DEF BeginRequest, Idle, case, hookVars, writeVars, serverVars, reportVars
<1>1. writing = <<>>
  BY <1>0 DEF HookStates, Idle
<1>2. requests \in Nat /\ requestBuffer \in Seq(RequestPart) /\ requests + 1 \in Requests
  BY Http1Assumption DEF TypeOK, BeginRequest, Requests
<1>3. \A r \in Requests : r <= requests => r # requests + 1 /\ r <= requests + 1
  BY <1>2 DEF Requests
<1>4. ASSUME NEW i \in 1 .. Len(requestBuffer) PROVE requestBuffer[i].req \in Requests
  <2>1. requestBuffer[i] \in RequestPart
    BY <1>2, ElementOfSeq
  <2> QED
    BY <2>1 DEF RequestPart
<1>5. announced[requests + 1] = 0
  BY <1>2, <1>3 DEF HeadsInv
<1>6. NoHeadOf(requestBuffer, requests + 1) /\ PartsUpTo(requestBuffer, requests + 1)
  BY <1>3, <1>4 DEF HeadsInv, PartsUpTo, NoHeadOf
<1>7. HeadsUnread(requestBuffer) => HeadsUnread(requestBuffer)'
  BY <1>0 DEF HeadsUnread
<1>8. \A r \in Requests : HeldHead(r) => HeldHead(r)'
  BY <1>0, <1>1 DEF HeldHead
<1>9. HeadsDistinct(requestBuffer)' /\ PartsUpTo(requestBuffer, requests)' /\ NoHeadOf(requestBuffer, requests)'
  BY <1>0, <1>6 DEF HeadsInv, HeadsDistinct, PartsUpTo, NoHeadOf
<1>10. HeadsInv'
  BY <1>0, <1>3, <1>5, <1>7, <1>8, <1>9 DEF HeadsInv
<1> QED
  BY <1>0, <1>10, ReportsKept DEF sentVars

\* A read reports a request at most once; the other steps report nothing.
LEMMA OthersOnce ==
    ASSUME TypeOK, HookStates, PartsInOrder, ServerInOrder, HeadsInv, ReportsInv, "early" \notin quirks',
           [Next]_vars,
           \/ ReadPending \/ ServerAnswers \/ onConnectionClosed \/ Close \/ Reopen \/ Expire
           \/ UNCHANGED vars \/ \E n \in 1 .. MaxWrite : Read(n)
    PROVE  HeadsInv' /\ ReportsInv'
<1>q. "early" \notin quirks
  BY QuirksStay
<1>1. CASE ReadPending
  <2>1. UNCHANGED <<bodied, requests, todo, writing, serverVars, hookVars, reportVars>> /\ requestInfo' = pendingRequest
    BY <1>1 DEF ReadPending, case
  <2> QED
    BY <2>1, HeadsUndisturbed, ReportsKept DEF hookVars, sentVars, serverVars, reportVars
<1>2. CASE ServerAnswers
  <2>1. PICK r \in arrived :
           /\ \E other, more : Note((IF r \in whole THEN {} ELSE {"early"}) \cup other \cup more)
           /\ arrived' = arrived \ {r}
           /\ whole' = whole \ {r}
    BY <1>2 DEF ServerAnswers
  <2>2. UNCHANGED <<case, hookVars, writeVars, connection, requests, todo, reportVars>>
    BY <1>2 DEF ServerAnswers
  <2>3. whole # {}
    BY <2>1 DEF Note
  <2>4. HeadsUnread(requestBuffer)
    BY <2>3 DEF HeadsInv, HeldHead
  <2> QED
    BY <2>2, <2>4, HeadsUndisturbed, ReportsKept DEF hookVars, sentVars, writeVars, reportVars, case
<1>3. CASE onConnectionClosed
  <2>1. UNCHANGED <<case, writeVars, requests, todo, sentVars, reportVars>> /\ requestBuffer' = <<>> /\ pendingRequest' = None
    BY <1>3 DEF onConnectionClosed
  <2> QED
    BY <2>1, HeadsUndisturbed, ReportsKept DEF sentVars, writeVars, reportVars, case
<1>4. CASE Close
  <2>1. UNCHANGED <<case, hookVars, writeVars, requests, reportVars>> /\ connection # "open"
        /\ todo' = <<>> /\ whole' = {} /\ answers' = <<>>
    BY <1>4 DEF Close
  <2>2. writing' = <<>>
    BY <2>1 DEF ServerInOrder, HookStates, writeVars
  <2> QED
    BY <2>1, <2>2, HeadsUndisturbed, ReportsKept DEF hookVars, sentVars, writeVars, reportVars, case
<1>5. CASE Reopen \/ UNCHANGED vars
  <2>1. UNCHANGED <<case, hookVars, writeVars, requests, todo, serverVars, reportVars>>
    BY <1>5 DEF Reopen, vars
  <2> QED
    BY <2>1, HeadsUndisturbed, ReportsKept DEF hookVars, sentVars, writeVars, serverVars, reportVars, case
<1>6. CASE Expire
  <2>1. UNCHANGED <<case, sentVars, writeVars, requests, todo, serverVars, reportVars>>
    BY <1>6 DEF Expire
  <2>2. /\ requestBuffer' = <<>> \/ UNCHANGED <<requestBuffer, requestState>>
        /\ pendingRequest' \in {pendingRequest, None}
    BY <1>6 DEF Expire
  <2>3. HeadsInv'
    <3>1. CASE requestBuffer' = <<>>
      BY <2>1, <3>1, HeadsUndisturbed DEF reportVars, case
    <3>2. CASE UNCHANGED <<requestBuffer, requestState>>
      BY <2>1, <3>2, HeadsUndisturbed DEF writeVars, serverVars, reportVars, case
    <3> QED
      BY <2>2, <3>1, <3>2
  <2> QED
    BY <2>1, <2>2, <2>3, ReportsKept DEF sentVars, writeVars, reportVars
<1>7. ASSUME NEW n \in 1 .. MaxWrite, Read(n) PROVE HeadsInv' /\ ReportsInv'
  <2>1. UNCHANGED <<case, writeVars, requests, todo>> /\ n <= Len(answers)
    BY <1>7 DEF Read
  <2>2. answers # <<>>
    <3>1. Len(answers) # 0
      BY <2>1, Http1Assumption DEF TypeOK
    <3> QED
      BY <3>1
  <2>3. HeadsUnread(requestBuffer)
    BY <2>2 DEF HeadsInv, HeldHead
  <2>4. /\ UNCHANGED <<requestBuffer, announced>>
        /\ \/ UNCHANGED <<requestState, pendingRequest, sentVars, reported, stopped>>
           \/ \E bytes \in Seq(ResponsePart) :
                 bytes # <<>> /\ completeAndDispatchRequest(bytes) /\ pendingRequest' = None
    BY <1>7, ReadOutcomes
  <2>5. HeadsInv'
    BY <2>1, <2>3, <2>4, HeadsUndisturbed DEF case
  <2>6. ReportsInv'
    <3>1. CASE UNCHANGED <<requestState, pendingRequest, sentVars, reported, stopped>>
      BY <2>1, <2>4, <3>1, ReportsKept DEF sentVars, writeVars
    <3>2. ASSUME NEW bytes \in Seq(ResponsePart), bytes # <<>>, completeAndDispatchRequest(bytes),
                 pendingRequest' = None
          PROVE  ReportsInv'
      BY <2>1, <2>4, <3>2, ReportOnce DEF writeVars
    <3> QED
      BY <2>4, <3>1, <3>2
  <2> QED
    BY <2>5, <2>6
<1> QED
  BY <1>1, <1>2, <1>3, <1>4, <1>5, <1>6, <1>7

\* Every step preserves the invariant about reports.
LEMMA NextOnce ==
    ASSUME TypeOK, HookStates, OneAtATime, OnceInv, [Next]_vars
    PROVE  OnceInv'
<1> SUFFICES ASSUME Once' PROVE HeadsInv' /\ ReportsInv'
  BY DEF OnceInv
<1>1. Orderly' /\ "early" \notin quirks' /\ "forgotten" \notin quirks' /\ Once
  BY QuirksStay DEF Once, Orderly
<1>2. PartsInOrder /\ ServerInOrder /\ TrueSizes(requestBuffer) /\ HeadsInv /\ ReportsInv /\ "early" \notin quirks
  BY <1>1 DEF OneAtATime, OnceInv, Once
<1>3. ASSUME NEW n \in 1 .. MaxWrite, UnseenWrite(n) PROVE FALSE
  <2>1. Note({"unseen"})
    BY <1>3 DEF UnseenWrite
  <2> QED
    BY <1>1, <2>1, NotedOrderly
<1>4. ~Forget
  BY <1>1 DEF Forget, Note
<1> QED
  BY <1>1, <1>2, <1>3, <1>4, BeginOnce, JavaWriteOnce, NativeWriteOnce, PutPendingOnce, OthersOnce DEF Next

\* It holds before the first request.
LEMMA InitOnce == Init => OnceInv
<1> SUFFICES ASSUME Init PROVE HeadsInv /\ ReportsInv
  BY DEF OnceInv
<1>1. None \notin Requests /\ Len(reported) = 0 /\ Len(requestBuffer) = 0
  BY DEF Init, None, Requests
<1>2. HeadsInv
  BY <1>1 DEF Init, HeadsInv, HeadComing, PartsUpTo, HeadsDistinct, HeadsUnread
<1>3. reported \in Seq(Report)
  BY DEF Init
<1> QED
  BY <1>1, <1>2, <1>3 DEF Init, ReportsInv

\* A request is announced once, by the write that completes its head and silently by every later
\* write that finds it pending, and reported with a response once (checkShouldBlockRequest and
\* completeAndDispatchRequest with sentRequestsCache), but after the events ReportedOnce names: among
\* them the loss of the record while the request is pending.
THEOREM NothingIsReportedTwice == Spec => []ReportedOnce
<1>1. Init => TypeOK /\ HookStates /\ OneAtATime /\ OnceInv
  BY InitType, InitHookStates, InitOneAtATime, InitOnce
<1>2. TypeOK /\ HookStates /\ OneAtATime /\ OnceInv /\ [Next]_vars => (TypeOK /\ HookStates /\ OneAtATime /\ OnceInv)'
  BY NextType, NextHookStates, NextOneAtATime, NextOnce
<1>3. TypeOK /\ OnceInv => ReportedOnce
  <2> SUFFICES ASSUME TypeOK, OnceInv, Once PROVE /\ \A r \in Requests : announced[r] <= 1
       /\ \A i, j \in DOMAIN reported :
             i # j /\ reported[i].request = reported[j].request => reported[i].request \notin Requests
    BY DEF ReportedOnce, Once, Orderly
  <2>1. HeadsInv /\ ReportsInv
    BY DEF OnceInv
  <2>2. \A r \in Requests : announced[r] <= 1
    BY <2>1 DEF HeadsInv
  <2>3. DOMAIN reported = 1 .. Len(reported)
    BY <2>1 DEF ReportsInv
  <2> QED
    BY <2>1, <2>2, <2>3 DEF ReportsInv
<1> QED
  BY <1>1, <1>2, <1>3, PTL DEF Spec
----------------------------------------------------------------------------
(* Refusals *)

\* Nothing has happened that leaves a mark or a buffer of an earlier message behind.
Quiet == Orderly /\ quirks \cap {"cut", "idle"} = {} /\ ~(layer = "java" /\ "stopped" \in quirks)

\* The buffer is the beginning of the current request, as far as it has been written.
Collected ==
    /\ Len(requestBuffer) <= 2
    /\ \A i \in 1 .. Len(requestBuffer) : requestBuffer[i] = PartOf(requests, i)
    /\ requestBuffer = <<>> => todo = <<>> \/ Processed = 0
    /\ requestBuffer # <<>> => Len(requestBuffer) = Processed /\ requests # 0
    /\ Len(requestBuffer) = 2 => requests \in bodied /\ requests \notin denied /\ collect
    /\ requestState.isHeaderParsed =>
          Len(requestBuffer) = 2 /\ requestState.headerSize = 2 /\ requestState.contentLength = 1

\* The buffer is ignored and empty, or collects the current request; closing empties it.
Framed ==
    /\ connection = "open" => IF requestState.isIgnored THEN requestBuffer = <<>> ELSE Collected
    /\ connection # "open" => requestBuffer = <<>> /\ ~requestState.isHeaderParsed

\* A pending request that is blocked is the current one and its write is still under way;
\* a connection that is ignored has nothing pending but that.
Judged ==
    /\ Blocked(pendingRequest) => pendingRequest = requests /\ ~Idle /\ requestState.isIgnored
    /\ pc = "put" => pendingRequest \in {requestInfo, None}
    /\ Blocked(requestInfo) => requestInfo = requests /\ requestState.isIgnored
    /\ requestState.isIgnored /\ collect =>
          /\ requestInfo = None \/ Blocked(requestInfo)
          /\ pendingRequest = None \/ (Blocked(pendingRequest) /\ Gone < 2)
    /\ connection # "open" => pendingRequest = None

\* The inductive invariant about refusals: only the denied are stopped.
QuietInv == Quiet => Framed /\ Judged /\ stopped \subseteq denied

\* What the next n parts make of a buffer in order.
SeenInOrder(seen, m) ==
    \/ /\ requestState.isIgnored /\ seen.buffer = <<>> /\ seen.state = requestState
       /\ seen.info = None /\ ~seen.block
    \/ /\ ~requestState.isIgnored /\ m = 1 /\ Len(seen.buffer) = 1
       /\ seen.buffer[1] = PartOf(requests, 1)
       /\ ~seen.state.isIgnored /\ ~seen.state.isHeaderParsed /\ seen.info = None /\ ~seen.block
    \/ /\ ~requestState.isIgnored /\ Processed = 2 /\ m = SizeOf(requests) /\ seen.buffer = <<>>
       /\ ~seen.state.isHeaderParsed /\ ~seen.state.isIgnored /\ seen.info = None /\ ~seen.block
    \/ /\ ~requestState.isIgnored /\ m >= 2 /\ seen.info = requests
       /\ \/ /\ requests \in denied /\ Processed < 2
             /\ seen.buffer = <<>> /\ seen.state.isIgnored /\ seen.block
          \/ /\ requests \notin denied /\ ~seen.block /\ ~collect /\ requests \in bodied
             /\ Processed < 2 /\ seen.buffer = <<>> /\ seen.state.isIgnored
          \/ /\ requests \notin denied /\ ~seen.block /\ requests \in bodied /\ collect /\ m = 2
             /\ Len(seen.buffer) = 2 /\ \A i \in 1 .. 2 : seen.buffer[i] = PartOf(requests, i)
             /\ seen.state = HeadState(2, 1, TRUE, FALSE)
          \/ /\ requests \notin denied /\ ~seen.block /\ m = SizeOf(requests)
             /\ seen.buffer = <<>> /\ ~seen.state.isHeaderParsed /\ ~seen.state.isIgnored

\* What processRequestBuffer makes of a buffer that is in order and the next n parts.
LEMMA SeenFramed ==
    ASSUME TypeOK, PartsInOrder, IF requestState.isIgnored THEN requestBuffer = <<>> ELSE Collected,
           NEW n \in 1 .. MaxWrite, n <= Len(todo),
           NEW seen \in processRequestBuffer(requestBuffer \o Taken(n))
    PROVE  SeenInOrder(seen, Processed + n)
<1> DEFINE b == requestBuffer \o Taken(n)
           size == requestState.headerSize + requestState.contentLength
           f == First(b, {"end", "chunks"})
<1>0. requestState \in ParsingState /\ requestBuffer \in Seq(RequestPart)
  BY DEF TypeOK
<1>1. /\ n \in Nat \ {0} /\ requests # 0
      /\ Taken(n) \in Seq(RequestPart) /\ Len(Taken(n)) = n
      /\ \A i \in 1 .. n : Taken(n)[i] = PartOf(requests, Processed + i)
  BY PartsTaken
<1>2. /\ Processed \in Nat /\ Processed + n <= SizeOf(requests) /\ todo # <<>>
      /\ SizeOf(requests) = IF requests \in bodied THEN 3 ELSE 2
  BY <1>1, Measures DEF PartsInOrder, SizeOf
<1>b. b \in Seq(RequestPart)
  BY <1>0, <1>1
<1>i. CASE requestState.isIgnored
  <2>1. seen = [buffer |-> <<>>, state |-> requestState, info |-> None, block |-> FALSE]
    BY <1>i DEF processRequestBuffer, Kept
  <2> QED
    BY <1>i, <2>1 DEF SeenInOrder
<1>c. CASE ~requestState.isIgnored
  <2>1. Len(requestBuffer) = Processed
    <3>1. CASE requestBuffer = <<>>
      <4>1. Len(requestBuffer) = 0
        BY <3>1
      <4> QED
        BY <1>2, <1>c, <3>1, <4>1 DEF Collected
    <3> QED
      BY <1>c, <3>1 DEF Collected
  <2>2. PICK m \in Nat : m = Processed + n
    BY <1>1, <1>2
  <2>3. Len(b) = m /\ \A i \in 1 .. m : b[i] = PartOf(requests, i)
    <3>1. /\ Len(b) = Len(requestBuffer) + Len(Taken(n))
          /\ \A i \in 1 .. Len(requestBuffer) : b[i] = requestBuffer[i]
          /\ \A i \in 1 .. Len(Taken(n)) : b[Len(requestBuffer) + i] = Taken(n)[i]
      <4>1. requestBuffer \in Seq(RequestPart) /\ Taken(n) \in Seq(RequestPart)
        BY <1>0, <1>1
      <4> QED
        BY <4>1, Joined
    <3> HIDE DEF b
    <3>2. ASSUME NEW i \in 1 .. m PROVE b[i] = PartOf(requests, i)
      <4>1. CASE i <= Processed
        BY <1>2, <1>c, <2>1, <2>2, <3>1, <4>1 DEF Collected
      <4>2. CASE ~(i <= Processed)
        <5>1. i - Processed \in 1 .. n /\ Processed + (i - Processed) = i
          BY <1>1, <1>2, <2>2, <4>2
        <5> QED
          BY <1>1, <2>1, <3>1, <5>1
      <4> QED
        BY <4>1, <4>2
    <3> QED
      BY <1>1, <2>1, <2>2, <3>1, <3>2
  <2> HIDE DEF b
  <2>4. \A i \in 1 .. m : /\ b[i].req = requests /\ b[i].length = TrueLength(requests)
                          /\ b[i].part \in {"end", "chunks"} <=> i = 2
                          /\ b[i].part = "end" <=> i = 2
                          /\ b[i].part = "start" <=> i = 1
    BY <2>3 DEF PartOf
  <2>5. /\ f \in 0 .. m /\ (f > 0 => b[f].part \in {"end", "chunks"})
        /\ \A i \in 1 .. m : b[i].part \in {"end", "chunks"} => f \in 1 .. i
    BY <1>b, <2>3, FirstPart
  <2>6. f = IF m >= 2 THEN 2 ELSE 0
    <3>1. f > 0 => f = 2
      BY <2>4, <2>5
    <3>2. m >= 2 => f > 0
      <4>1. m >= 2 => 2 \in 1 .. m
        BY <2>2
      <4> QED
        BY <2>4, <2>5, <4>1
    <3> HIDE DEF f
    <3> QED
      BY <2>5, <3>1, <3>2
  <2>7. m <= 3 /\ 1 <= m
    BY <1>1, <1>2, <2>2
  <2>8. TrueLength(requests) \in {0, 1} /\ TrueLength(requests) = SizeOf(requests) - 2
    BY <1>2 DEF TrueLength
  <2> HIDE DEF f, size
  <2>9. CASE /\ IF requestState.isHeaderParsed THEN Len(b) < size ELSE f = 0
             /\ seen = [buffer |-> b, state |-> requestState, info |-> None, block |-> FALSE]
    <3>1. ~requestState.isHeaderParsed
      <4> SUFFICES ASSUME requestState.isHeaderParsed PROVE FALSE
        OBVIOUS
      <4>1. size = 3 /\ Processed = 2
        BY <1>c, <2>1 DEF Collected, size
      <4> QED
        BY <1>1, <2>2, <2>3, <2>9, <4>1
    <3>2. m = 1
      BY <2>6, <2>7, <2>9, <3>1
    <3>3. seen.buffer = b /\ seen.state = requestState /\ seen.info = None /\ ~seen.block
      BY <2>9
    <3>4. Len(seen.buffer) = 1 /\ seen.buffer[1] = PartOf(requests, 1)
      BY <2>3, <3>2, <3>3
    <3> QED
      BY <1>c, <2>2, <3>1, <3>2, <3>3, <3>4 DEF SeenInOrder
  <2>13. CASE requestState.isHeaderParsed /\ size < 0
    <3>1. size = 3
      BY <1>c, <2>13 DEF Collected, size
    <3> QED
      BY <2>13, <3>1
  <2>10. CASE /\ requestState.isHeaderParsed
              /\ Len(b) >= size
              /\ seen = [buffer |-> SubSeq(b, size + 1, Len(b)),
                         state |-> [requestState EXCEPT !.isHeaderParsed = FALSE],
                         info |-> None, block |-> FALSE]
    <3>1. size = 3 /\ Processed = 2 /\ requests \in bodied
      BY <1>c, <2>1, <2>10 DEF Collected, size
    <3>2. m = 3
      BY <1>1, <2>2, <2>7, <3>1
    <3>3. SubSeq(b, size + 1, Len(b)) = <<>>
      BY <1>b, <2>3, <3>1, <3>2, SubSeqEmpty
    <3>4. seen.state.isHeaderParsed = FALSE /\ seen.state.isIgnored = requestState.isIgnored
      BY <1>0, <2>10 DEF ParsingState
    <3> QED
      BY <1>2, <1>c, <2>2, <2>10, <3>1, <3>2, <3>3, <3>4 DEF SeenInOrder
  <2>11. ASSUME ~requestState.isHeaderParsed, f > 0,
                NEW info \in buildHttpRequestWithoutBody(b, f), NEW length \in parseContentLength(b, f),
                ReadAs(seen, b, f, length, info)
         PROVE  SeenInOrder(seen, m)
    <3>1. f = 2 /\ m >= 2 /\ 1 \in 1 .. m /\ 2 \in 1 .. m
      BY <2>2, <2>6, <2>11
    <3>h. IsHead(b, f)
      BY <2>4, <3>1 DEF IsHead
    <3>2. info = requests /\ length = SizeOf(requests) - 2 /\ length \in {0, 1}
      BY <2>4, <2>8, <2>11, <3>1, <3>h DEF buildHttpRequestWithoutBody, parseContentLength
    <3>3. requests \in Requests /\ requests # None /\ requests # Unwanted
      BY <1>1 DEF TypeOK, Requests, None, Unwanted
    <3>4. Blocked(info) <=> requests \in denied
      BY <3>2, <3>3 DEF Blocked
    <3>5. requests \in denied \/ ~collect => Processed < 2
      <4>1. Processed = 2 => requests \notin denied /\ collect
        BY <1>c, <2>1 DEF Collected
      <4>2. Processed <= 2
        BY <1>c, <2>1 DEF Collected
      <4> QED
        BY <1>2, <4>1, <4>2
    <3>6. ASSUME Len(b) < f + length PROVE m = 2 /\ length = 1 /\ requests \in bodied
      BY <1>2, <2>3, <2>8, <3>1, <3>2, <3>6
    <3>7. ASSUME Len(b) >= f + length PROVE m = SizeOf(requests) /\ SubSeq(b, f + length + 1, Len(b)) = <<>>
      <4>1. m = SizeOf(requests) /\ f + length = m
        BY <1>2, <2>2, <2>3, <2>8, <3>1, <3>2, <3>7
      <4> QED
        BY <1>b, <2>3, <4>1, SubSeqEmpty
    <3>8. CASE seen = [buffer |-> <<>>, state |-> HeadState(f, length, TRUE, TRUE), info |-> info, block |-> TRUE]
               /\ Blocked(info)
      BY <1>c, <3>1, <3>2, <3>4, <3>5, <3>8 DEF SeenInOrder, HeadState
    <3>9. CASE seen = [buffer |-> <<>>, state |-> HeadState(f, length, TRUE, TRUE), info |-> info, block |-> FALSE]
               /\ ~Blocked(info) /\ ~collect /\ length > 0
      <4>1. requests \in bodied
        BY <1>2, <3>2, <3>9
      <4> QED
        BY <1>c, <3>1, <3>2, <3>4, <3>5, <3>9, <4>1 DEF SeenInOrder, HeadState
    <3>10. CASE /\ ~Blocked(info) /\ (collect \/ ~(length > 0)) /\ Len(b) < f + length
                /\ seen = [buffer |-> b, state |-> HeadState(f, length, TRUE, FALSE), info |-> info, block |-> FALSE]
      <4>1. /\ seen.buffer = b /\ seen.state = HeadState(2, 1, TRUE, FALSE) /\ seen.info = requests /\ ~seen.block
        BY <3>1, <3>2, <3>6, <3>10
      <4>2. Len(seen.buffer) = 2 /\ \A i \in 1 .. 2 : seen.buffer[i] = PartOf(requests, i)
        BY <2>3, <3>6, <3>10, <4>1
      <4>3. collect /\ requests \in bodied /\ requests \notin denied /\ m = 2 /\ m >= 2
        BY <3>2, <3>4, <3>6, <3>10
      <4> QED
        BY <1>c, <2>2, <4>1, <4>2, <4>3, Zenon DEF SeenInOrder
    <3>11. CASE /\ ~Blocked(info) /\ Len(b) >= f + length
                /\ seen = [buffer |-> SubSeq(b, f + length + 1, Len(b)),
                           state |-> HeadState(f, length, FALSE, FALSE), info |-> info, block |-> FALSE]
      BY <1>c, <3>1, <3>2, <3>4, <3>7, <3>11 DEF SeenInOrder, HeadState
    <3>12. ~(f + length < 0)
      BY <3>1, <3>2
    <3> QED
      BY <2>11, <3>2, <3>3, <3>8, <3>9, <3>10, <3>11, <3>12, Zenon DEF ReadAs
  <2>12. \/ /\ IF requestState.isHeaderParsed THEN Len(b) < size ELSE f = 0
            /\ seen = [buffer |-> b, state |-> requestState, info |-> None, block |-> FALSE]
         \/ /\ requestState.isHeaderParsed
            /\ Len(b) >= size
            /\ seen = [buffer |-> SubSeq(b, size + 1, Len(b)),
                       state |-> [requestState EXCEPT !.isHeaderParsed = FALSE],
                       info |-> None, block |-> FALSE]
         \/ /\ ~requestState.isHeaderParsed /\ f > 0
            /\ \E info \in buildHttpRequestWithoutBody(b, f) : \E length \in parseContentLength(b, f) :
                  ReadAs(seen, b, f, length, info)
         \/ requestState.isHeaderParsed /\ size < 0
    <3>1. seen \in processRequestBuffer(b)
      BY DEF b
    <3> QED
      BY <1>0, <1>b, <1>c, <3>1, SeenCases DEF f, size
  <2> QED
    BY <2>2, <2>9, <2>10, <2>11, <2>12, <2>13
<1> QED
  BY <1>i, <1>c

\* What is blocked is a request the rules deny, or one that nobody made.
LEMMA BlockedRequests ==
    ASSUME denied \subseteq Requests
    PROVE  ~Blocked(None) /\ (Blocked(requests) /\ requests \in Nat => requests \in denied)
  BY DEF Blocked, None, Unwanted, Requests

\* What the writing of the next n parts makes of the hook's side.
LEMMA WriteFramed ==
    ASSUME TypeOK, HookStates, PartsInOrder, Framed, Judged, connection = "open", Idle,
           NEW n \in 1 .. MaxWrite, n <= Len(todo),
           NEW seen \in processRequestBuffer(requestBuffer \o Taken(n)), RequestSeen(seen),
           UNCHANGED <<case, requests, requestInfo, connection>>,
           todo' = Rest(todo, n),
           \/ UNCHANGED <<writing, pc>> /\ ~seen.block
           \/ writing' = Taken(n) /\ pc' = "get"
    PROVE  Framed' /\ Judged'
<1>0. UNCHANGED <<collect, denied, bodied, layer>>
  BY DEF case
<1>1. writing = <<>> /\ requestInfo = None /\ requestInfo' = None /\ pc = "idle" /\ pc' \in {"idle", "get"}
  BY DEF HookStates, Idle
<1>2. /\ n \in Nat \ {0} /\ requests # 0 /\ requests \in Nat
      /\ Len(Taken(n)) = n /\ Len(Rest(todo, n)) = Len(todo) - n
  BY PartsTaken, Measures
<1>3. Processed' = Processed + n /\ (writing' # <<>> => Gone' = Gone) /\ Gone = Processed
  BY <1>0, <1>1, AfterTaken, Measures
<1>4. Processed \in Nat /\ (Processed + n = SizeOf(requests) => Len(todo') = 0)
  BY <1>1, <1>2, Measures DEF PartsInOrder
<1>5. todo' \in Seq(RequestPart)
  BY PartsTaken
<1>6. SeenInOrder(seen, Processed + n)
  BY SeenFramed DEF Framed
<1>7. Processed + n = SizeOf(requests) => todo' = <<>>
  BY <1>4, <1>5
<1>8. /\ requestBuffer' = seen.buffer /\ requestState' = seen.state
      /\ pendingRequest' = IF seen.info = None THEN pendingRequest ELSE seen.info
  BY DEF RequestSeen
<1>9. requests # None /\ denied \subseteq Requests /\ ~Blocked(None) /\ (Blocked(requests) => requests \in denied)
  <2>1. denied \subseteq Requests
    BY DEF TypeOK
  <2> QED
    BY <1>2, <2>1, BlockedRequests DEF None
<1>10. \A info : Blocked(info)' <=> Blocked(info)
  BY <1>0 DEF Blocked
<1>11. ~Blocked(pendingRequest) /\ (requestState.isIgnored /\ collect => pendingRequest = None)
  BY DEF Judged
<1>p. \A i : PartOf(requests, i)' = PartOf(requests, i)
  BY <1>0 DEF PartOf, TrueLength
<1>12. Framed'
  <2>1. CASE seen.buffer = <<>> /\ seen.state.isIgnored
    BY <1>8, <2>1 DEF Framed
  <2>2. CASE seen.buffer = <<>> /\ ~seen.state.isIgnored /\ ~seen.state.isHeaderParsed /\ todo' = <<>>
    <3>1. Len(requestBuffer') = 0
      BY <1>8, <2>2
    <3>2. Collected'
      BY <1>8, <2>2, <3>1 DEF Collected
    <3> QED
      BY <1>8, <2>2, <3>2 DEF Framed
  <2>3. CASE /\ Processed + n = 1 /\ Len(seen.buffer) = 1 /\ seen.buffer[1] = PartOf(requests, 1)
             /\ ~seen.state.isIgnored /\ ~seen.state.isHeaderParsed
    <3>1. Len(requestBuffer') = 1 /\ requestBuffer' # <<>>
      BY <1>8, <2>3
    <3>2. \A i \in 1 .. Len(requestBuffer') : requestBuffer'[i] = PartOf(requests, i)'
      <4>1. \A i \in 1 .. Len(requestBuffer') : i = 1
        BY <3>1
      <4> QED
        BY <1>8, <1>p, <2>3, <4>1
    <3>3. Collected'
      BY <1>2, <1>3, <1>8, <2>3, <3>1, <3>2 DEF Collected
    <3> QED
      BY <1>8, <2>3, <3>3 DEF Framed
  <2>4. CASE /\ requests \notin denied /\ requests \in bodied /\ collect /\ Processed + n = 2
             /\ Len(seen.buffer) = 2 /\ \A i \in 1 .. 2 : seen.buffer[i] = PartOf(requests, i)
             /\ seen.state = HeadState(2, 1, TRUE, FALSE)
    <3>1. Len(requestBuffer') = 2 /\ requestBuffer' # <<>>
      BY <1>8, <2>4
    <3>2. requestState'.isHeaderParsed /\ requestState'.headerSize = 2 /\ requestState'.contentLength = 1
          /\ ~requestState'.isIgnored
      BY <1>8, <2>4 DEF HeadState
    <3>3. \A i \in 1 .. Len(requestBuffer') : requestBuffer'[i] = PartOf(requests, i)'
      <4>1. \A i \in 1 .. Len(requestBuffer') : i \in 1 .. 2
        BY <3>1
      <4> QED
        BY <1>8, <1>p, <2>4, <4>1
    <3>4. /\ requests' # 0 /\ requests' \in bodied' /\ requests' \notin denied' /\ collect'
          /\ Len(requestBuffer') = Processed'
      BY <1>0, <1>2, <1>3, <2>4, <3>1
    <3>5. Collected'
      <4>1. Len(requestBuffer') <= 2
        BY <3>1
      <4> QED
        BY <3>1, <3>2, <3>3, <3>4, <4>1, Zenon DEF Collected
    <3> QED
      BY <1>8, <2>4, <3>2, <3>5 DEF Framed
  <2>5. \/ seen.buffer = <<>> /\ seen.state.isIgnored
        \/ seen.buffer = <<>> /\ ~seen.state.isIgnored /\ ~seen.state.isHeaderParsed /\ Processed + n = SizeOf(requests)
        \/ /\ Processed + n = 1 /\ Len(seen.buffer) = 1 /\ seen.buffer[1] = PartOf(requests, 1)
           /\ ~seen.state.isIgnored /\ ~seen.state.isHeaderParsed
        \/ /\ requests \notin denied /\ requests \in bodied /\ collect /\ Processed + n = 2
           /\ Len(seen.buffer) = 2 /\ \A i \in 1 .. 2 : seen.buffer[i] = PartOf(requests, i)
           /\ seen.state = HeadState(2, 1, TRUE, FALSE)
    BY <1>6 DEF SeenInOrder
  <2> QED
    BY <1>7, <2>1, <2>2, <2>3, <2>4, <2>5
<1>13. Judged'
  <2>1. connection' = "open" /\ pc' # "put"
    BY <1>1
  <2>2. CASE seen.info = None /\ (seen.state.isIgnored => requestState.isIgnored)
    BY <1>0, <1>1, <1>8, <1>9, <1>10, <1>11, <2>1, <2>2 DEF Judged
  <2>3. CASE seen.info = requests /\ requests \notin denied /\ (seen.state.isIgnored => ~collect)
    BY <1>0, <1>1, <1>8, <1>9, <1>10, <2>1, <2>3 DEF Judged
  <2>4. CASE seen.info = requests /\ requests \in denied /\ Processed < 2 /\ seen.state.isIgnored /\ seen.block
    <3>1. ~Idle' /\ Gone' < 2
      BY <1>1, <1>2, <1>3, <2>4 DEF Idle
    <3>2. Blocked(requests)
      BY <2>4 DEF Blocked
    <3> QED
      BY <1>0, <1>1, <1>8, <1>9, <1>10, <2>1, <2>4, <3>1, <3>2 DEF Judged
  <2>5. \/ seen.info = None /\ (seen.state.isIgnored => requestState.isIgnored)
        \/ seen.info = requests /\ requests \notin denied /\ (seen.state.isIgnored => ~collect)
        \/ seen.info = requests /\ requests \in denied /\ Processed < 2 /\ seen.state.isIgnored /\ seen.block
    <3>1. HeadState(2, 1, TRUE, FALSE).isIgnored = FALSE
      BY DEF HeadState
    <3> QED
      BY <1>6, <3>1 DEF SeenInOrder
  <2> QED
    BY <2>2, <2>3, <2>4, <2>5
<1> QED
  BY <1>12, <1>13

\* The case never changes.
LEMMA CaseStays == [Next]_vars => UNCHANGED case
  BY DEF Next, vars, BeginRequest, JavaWrite, NativeWrite, UnseenWrite, Read, ReadPending, PutPending,
       ServerAnswers, onConnectionClosed, Close, Reopen, Expire, Forget

\* A behaviour that is quiet was quiet and in order one step earlier.
LEMMA QuietBefore ==
    ASSUME [Next]_vars, Quiet'
    PROVE  Quiet /\ Orderly' /\ Orderly
<1>1. quirks \subseteq quirks' /\ layer' = layer
  BY QuirksStay, CaseStays DEF case
<1> QED
  BY <1>1 DEF Quiet, Orderly

\* A write of the java layer while order reigns: what is not refused goes out in one piece.
LEMMA JavaTaken ==
    ASSUME TypeOK, PartsInOrder, Orderly', NEW n \in 1 .. MaxWrite, JavaWrite(n)
    PROVE  \E seen \in processRequestBuffer(requestBuffer \o Taken(n)) :
               /\ RequestSeen(seen) /\ Note(MarksOf(seen))
               /\ ~seen.block => Deliver(Taken(n)) /\ todo' = Rest(todo, n) /\ UNCHANGED stopped
<1>1. PICK seen \in processRequestBuffer(requestBuffer \o Taken(n)) :
          /\ RequestSeen(seen)
          /\ IF seen.block THEN Refuse(Taken(n)) /\ Note(MarksOf(seen))
             ELSE WriteThrough(Taken(n), Rest(todo, n), MarksOf(seen)) /\ UNCHANGED stopped
  BY DEF JavaWrite
<1>2. Taken(n) \in Seq(RequestPart) /\ Rest(todo, n) \in Seq(RequestPart)
  BY PartsTaken DEF JavaWrite
<1>3. CASE seen.block
  BY <1>1, <1>3
<1>4. CASE ~seen.block
  <2>1. Deliver(Taken(n)) /\ todo' = Rest(todo, n) /\ Note(MarksOf(seen))
    BY <1>1, <1>2, <1>4, WrittenThrough
  <2> QED
    BY <1>1, <1>4, <2>1
<1> QED
  BY <1>3, <1>4

\* A write of the java layer keeps the buffer in order and refuses nothing in quiet behaviours.
LEMMA JavaWriteQuiet ==
    ASSUME TypeOK, HookStates, PartsInOrder, ServerInOrder, Framed, Judged, Quiet', Orderly',
           NEW n \in 1 .. MaxWrite, JavaWrite(n)
    PROVE  Framed' /\ Judged' /\ stopped' = stopped
<1>0. /\ n <= Len(todo) /\ layer = "java" /\ connection = "open" /\ Idle
      /\ UNCHANGED <<case, writing, pc, requestInfo, connection, requests>>
  BY DEF JavaWrite, HookStates, writeVars
<1>1. PICK seen \in processRequestBuffer(requestBuffer \o Taken(n)) :
          /\ RequestSeen(seen) /\ Note(MarksOf(seen))
          /\ ~seen.block => Deliver(Taken(n)) /\ todo' = Rest(todo, n) /\ UNCHANGED stopped
  BY <1>0, JavaTaken
<1>2. SeenInOrder(seen, Processed + n)
  BY <1>0, SeenFramed DEF Framed
<1>3. ~seen.block
  <2> SUFFICES ASSUME seen.block PROVE FALSE
    OBVIOUS
  <2>1. ~requestState.isIgnored /\ seen.state.isIgnored
    BY <1>2 DEF SeenInOrder
  <2>2. "stopped" \in quirks' /\ layer' = "java"
    BY <1>0, <1>1, <2>1 DEF MarksOf, Note, case
  <2> QED
    BY <2>2 DEF Quiet
<1> QED
  BY <1>0, <1>1, <1>3, WriteFramed

\* A write of the native layer keeps the buffer in order and only marks the denied.
LEMMA NativeWriteQuiet ==
    ASSUME TypeOK, HookStates, PartsInOrder, ServerInOrder, Framed, Judged, Quiet', Orderly',
           NEW n \in 1 .. MaxWrite, NativeWrite(n)
    PROVE  Framed' /\ Judged' /\ stopped' = stopped /\ connection = "open"
<1>0. /\ n <= Len(todo) /\ Idle
      /\ UNCHANGED <<case, requestInfo, connection, requests, stopped>>
      /\ todo' = Rest(todo, n) /\ writing' = Taken(n) /\ pc' = "get"
  BY DEF NativeWrite
<1>1. PICK seen \in processRequestBuffer(requestBuffer \o Taken(n)) :
          RequestSeen(seen) /\ Note(MarksOf(seen) \cup (IF connection = "closing" THEN {"raced"} ELSE {}))
  BY DEF NativeWrite
<1>2. connection = "open"
  <2>1. connection # "closing"
    BY <1>1, NotedOrderly
  <2> QED
    BY <2>1 DEF NativeWrite, TypeOK
<1> QED
  BY <1>0, <1>1, <1>2, WriteFramed

\* The end of a native write under order: the parts are delivered, or the write is blocked.
LEMMA PutOrderly ==
    ASSUME TypeOK, PartsInOrder, ServerInOrder, Orderly', PutPending
    PROVE  /\ connection = "open" /\ pc = "put"
           /\ \/ BlockWrite
              \/ /\ ~Blocked(requestInfo) /\ Deliver(writing) /\ todo' = todo /\ stopped' = stopped
                 /\ pendingRequest' = IF requestInfo = None THEN pendingRequest ELSE requestInfo
<1>0. pc = "put" /\ connection = "open"
  BY DEF PutPending, ServerInOrder, Idle
<1>1. CASE /\ ~Blocked(requestInfo) /\ WriteThrough(writing, todo, {}) /\ UNCHANGED stopped
           /\ pendingRequest' = IF requestInfo = None THEN pendingRequest ELSE requestInfo
  <2>w. writing \in Seq(RequestPart) /\ todo \in Seq(RequestPart)
    BY DEF TypeOK
  <2>4. Deliver(writing) /\ todo' = todo
    BY <1>1, <2>w, WrittenThrough
  <2> QED
    BY <1>0, <1>1, <2>4
<1> QED
  BY <1>0, <1>1 DEF PutPending

\* The end of a native write refuses only the current request, which is denied.
LEMMA PutPendingQuiet ==
    ASSUME TypeOK, HookStates, PartsInOrder, ServerInOrder, Framed, Judged, stopped \subseteq denied,
           Orderly', PutPending
    PROVE  Framed' /\ Judged' /\ stopped' \subseteq denied'
<1>0. /\ pc' = "idle" /\ writing' = <<>> /\ requestInfo' = None
      /\ UNCHANGED <<collect, denied, bodied, requestBuffer, requestState, connection, requests>>
  BY DEF PutPending, case
<1>1. connection = "open" /\ connection' = "open" /\ pc = "put"
  BY <1>0, PutOrderly
<1>2. ~Blocked(None) /\ (Blocked(requests) => requests \in denied)
  BY BlockedRequests, Measures DEF TypeOK
<1>3. \A info : Blocked(info)' <=> Blocked(info)
  BY <1>0 DEF Blocked
<1>4. CASE BlockWrite
  <2>1. requestInfo = requests /\ requestState.isIgnored /\ requests \in denied
    BY <1>2, <1>4 DEF BlockWrite, Judged
  <2>2. Framed'
    BY <1>0, <1>1, <2>1 DEF Framed
  <2>3. Judged'
    BY <1>0, <1>1, <1>2, <1>3, <1>4 DEF BlockWrite, Judged
  <2>4. stopped' \subseteq denied'
    <3>1. stopped' = stopped \cup Senders(writing)
      BY <1>4 DEF BlockWrite, Refuse
    <3>2. \A i \in DOMAIN writing : writing[i].req = requests
      <4>1. DOMAIN writing = 1 .. Len(writing)
        BY DEF TypeOK
      <4> QED
        BY <4>1 DEF PartsInOrder, PartOf
    <3>3. Senders(writing) \subseteq {requests}
      BY <3>2 DEF Senders
    <3> QED
      BY <1>0, <2>1, <3>1, <3>3
  <2> QED
    BY <2>2, <2>3, <2>4
<1>5. CASE /\ ~Blocked(requestInfo) /\ todo' = todo /\ stopped' = stopped
           /\ pendingRequest' = IF requestInfo = None THEN pendingRequest ELSE requestInfo
  <2>1. Processed' = Processed
    BY <1>0, <1>5 DEF Processed, SizeOf
  <2>2. \A i : PartOf(requests, i)' = PartOf(requests, i)
    BY <1>0 DEF PartOf, TrueLength
  <2>3. Collected => Collected'
    BY <1>0, <1>5, <2>1, <2>2 DEF Collected
  <2>4. Framed'
    BY <1>0, <1>1, <2>3 DEF Framed
  <2>5. ~Blocked(pendingRequest')
    BY <1>1, <1>2, <1>5 DEF Judged
  <2>6. requestState.isIgnored /\ collect => pendingRequest' = None
    BY <1>1, <1>5 DEF Judged
  <2>7. Judged'
    BY <1>0, <1>1, <1>2, <1>3, <2>5, <2>6 DEF Judged
  <2> QED
    BY <1>0, <1>5, <2>4, <2>7
<1> QED
  BY <1>4, <1>5, PutOrderly

\* A read leaves the request side as it is, or fresh when the exchange is over.
LEMMA ReadQuiet ==
    ASSUME TypeOK, HookStates, PartsInOrder, ServerInOrder, Framed, Judged, Orderly',
           NEW n \in 1 .. MaxWrite, Read(n)
    PROVE  Framed' /\ Judged' /\ stopped' = stopped /\ connection = "open"
<1>0. UNCHANGED <<case, writeVars, connection, requests, todo>> /\ n <= Len(answers)
  BY DEF Read
<1>1. UNCHANGED <<collect, denied, bodied, layer, pc, writing, requestInfo>>
  BY <1>0 DEF case, writeVars
<1>2. answers # <<>>
  <2>1. Len(answers) # 0
    BY <1>0, Http1Assumption DEF TypeOK
  <2> QED
    BY <2>1
<1>3. Gone >= 2 /\ Gone' = Gone /\ Processed' = Processed /\ ~(Gone < 2)
  BY <1>0, <1>1, <1>2, SameParts, Measures DEF ServerInOrder, Outstanding
<1>4. connection = "open"
  <2>1. connection # "closing"
    <3> SUFFICES ASSUME connection = "closing" PROVE FALSE
      OBVIOUS
    <3>1. Note({"unseen"}) \/ Note({"raced"})
      BY DEF Read
    <3> QED
      BY <3>1, NotedOrderly
  <2> QED
    BY <2>1 DEF Read
<1>5. \A i : PartOf(requests, i)' = PartOf(requests, i)
  BY <1>0 DEF PartOf, TrueLength, case
<1>6. \A info : Blocked(info)' <=> Blocked(info)
  BY <1>1 DEF Blocked
<1>7. ~Blocked(None)
  BY BlockedRequests DEF TypeOK
<1>8. UNCHANGED requestBuffer
  BY ReadOutcomes
<1>9. CASE UNCHANGED <<requestState, pendingRequest, sentVars, reported, stopped>>
  <2>1. Collected => Collected'
    BY <1>0, <1>1, <1>3, <1>5, <1>8, <1>9 DEF Collected
  <2>2. Framed'
    BY <1>0, <1>4, <1>8, <1>9, <2>1 DEF Framed
  <2>3. Judged'
    BY <1>0, <1>1, <1>3, <1>4, <1>6, <1>9 DEF Judged, Idle
  <2> QED
    BY <1>4, <1>9, <2>2, <2>3
<1>10. ASSUME NEW bytes, completeAndDispatchRequest(bytes), pendingRequest # None, pendingRequest' = None,
              requestState' = requestState \/ (collect /\ requestState' = FreshState)
       PROVE  Framed' /\ Judged' /\ stopped' = stopped
  <2>1. ~(collect /\ requestState.isIgnored)
    BY <1>3, <1>10 DEF Judged
  <2>2. FreshState.isIgnored = FALSE /\ FreshState.isHeaderParsed = FALSE
    BY DEF FreshState
  <2>3. requestState'.isIgnored <=> requestState.isIgnored
    BY <1>10, <2>1, <2>2
  <2>4. requestState'.isHeaderParsed => requestState' = requestState
    BY <1>10, <2>2
  <2>5. Collected => Collected'
    BY <1>0, <1>1, <1>3, <1>5, <1>8, <2>4 DEF Collected
  <2>6. Framed'
    BY <1>0, <1>4, <1>8, <2>3, <2>5 DEF Framed
  <2>7. Judged'
    BY <1>0, <1>1, <1>3, <1>4, <1>6, <1>7, <1>10, <2>1, <2>3 DEF Judged, Idle
  <2>8. stopped' = stopped
    <3>1. ~(layer = "java" /\ Blocked(pendingRequest))
      BY DEF Judged, HookStates
    <3> QED
      BY <1>10, <3>1 DEF completeAndDispatchRequest
  <2> QED
    BY <2>6, <2>7, <2>8
<1> QED
  BY <1>4, <1>9, <1>10, ReadOutcomes

\* A new request finds the buffer empty.
LEMMA BeginQuiet ==
    ASSUME TypeOK, HookStates, PartsInOrder, ServerInOrder, PartsInOrder', Framed, Judged, Orderly',
           BeginRequest
    PROVE  Framed' /\ Judged' /\ stopped' = stopped
<1>0. /\ Idle /\ connection = "open" /\ requests' = requests + 1
      /\ UNCHANGED <<collect, denied, bodied, requestBuffer, requestState, pendingRequest, pc, writing, requestInfo,
                     connection, stopped>>
  BY DEF BeginRequest, case, hookVars, writeVars
<1>1. todo = <<>>
  <2>1. PICK other : Note((IF todo = <<>> /\ arrived = {} /\ answers = <<>> THEN {} ELSE {"pipelined"})
                          \cup other)
    BY DEF BeginRequest
  <2> QED
    BY <2>1, NotedOrderly
<1>2. Processed = SizeOf(requests) /\ SizeOf(requests) = IF requests \in bodied THEN 3 ELSE 2
  <2>1. Len(todo) = 0
    BY <1>1
  <2> QED
    BY <2>1, Measures DEF SizeOf
<1>3. writing = <<>> /\ requestInfo = None /\ pc = "idle"
  BY <1>0 DEF HookStates, Idle
<1>4. ~Blocked(pendingRequest) /\ ~Blocked(requestInfo)
  <2>1. ~Blocked(None)
    BY BlockedRequests DEF TypeOK
  <2> QED
    BY <1>0, <1>3, <2>1 DEF Judged
<1>5. \A info : Blocked(info)' <=> Blocked(info)
  BY <1>0 DEF Blocked
<1>6. Judged'
  BY <1>0, <1>3, <1>4, <1>5 DEF Judged
<1>7. ASSUME Collected PROVE requestBuffer = <<>>
  BY <1>2, <1>7 DEF Collected
<1>8. Processed' = 0
  <2>1. requests + 1 \in Requests
    BY <1>0, Http1Assumption DEF BeginRequest, TypeOK, Requests
  <2> DEFINE parts == RequestParts(requests + 1, TrueLength(requests + 1))
  <2>2. Len(parts) = SizeOf(requests + 1) /\ parts \in Seq(RequestPart)
    BY <2>1, PartsOfRequest
  <2>l. PICK length \in Lengths :
            /\ Note((IF todo = <<>> /\ arrived = {} /\ answers = <<>> THEN {} ELSE {"pipelined"})
                    \cup (IF length = TrueLength(requests + 1) THEN {} ELSE {"unframed"}))
            /\ todo' = todo \o RequestParts(requests + 1, length)
    BY DEF BeginRequest
  <2>3. todo' = <<>> \o parts
    BY <1>1, <2>l, NotedOrderly
  <2> HIDE DEF parts
  <2>4. todo' = parts
    BY <2>2, <2>3, ConcatEmptySeq
  <2>5. SizeOf(requests)' = SizeOf(requests + 1) /\ SizeOf(requests + 1) \in {2, 3}
    BY <1>0 DEF SizeOf
  <2> QED
    BY <2>2, <2>4, <2>5 DEF Processed
<1>9. Collected => Collected'
  <2> SUFFICES ASSUME Collected PROVE Collected'
    OBVIOUS
  <2>1. requestBuffer' = <<>> /\ ~requestState'.isHeaderParsed
    <3>1. requestBuffer = <<>> /\ Len(requestBuffer) # 2
      BY <1>7
    <3> QED
      BY <1>0, <3>1 DEF Collected
  <2>3. Len(requestBuffer') = 0
    BY <2>1
  <2> QED
    BY <1>8, <2>1, <2>3 DEF Collected
<1>10. Framed'
  BY <1>0, <1>9 DEF Framed
<1> QED
  BY <1>0, <1>6, <1>10

\* Closing, expiry and the server leave the buffer empty or as it was.
LEMMA OthersQuiet ==
    ASSUME TypeOK, HookStates, PartsInOrder, ServerInOrder, Framed, Judged, Quiet', Orderly', [Next]_vars,
           \/ ReadPending \/ ServerAnswers \/ onConnectionClosed \/ Close \/ Reopen \/ Expire \/ Forget
           \/ UNCHANGED vars
    PROVE  Framed' /\ Judged' /\ stopped' = stopped
<1>0. UNCHANGED <<case, requests, stopped>>
  BY CaseStays DEF ReadPending, ServerAnswers, onConnectionClosed, Close, Reopen, Expire, Forget, vars
<1>1. UNCHANGED <<collect, denied, bodied, layer>>
  BY <1>0 DEF case
<1>5. \A i : PartOf(requests, i)' = PartOf(requests, i)
  BY <1>0 DEF PartOf, TrueLength, case
<1>6. \A info : Blocked(info)' <=> Blocked(info)
  BY <1>1 DEF Blocked
<1>7. ~Blocked(None)
  BY BlockedRequests DEF TypeOK
<1>8. ASSUME UNCHANGED <<todo, requestBuffer, requestState>> PROVE Collected => Collected'
  <2>1. Processed' = Processed
    BY <1>0, <1>1, <1>8 DEF Processed, SizeOf
  <2> QED
    BY <1>0, <1>1, <1>5, <1>8, <2>1 DEF Collected
<1>9. ASSUME UNCHANGED <<todo, writing>> PROVE Gone' = Gone
  BY <1>0, <1>1, <1>9 DEF Gone, Processed, SizeOf
<1>10. CASE ReadPending
  <2>1. pc = "get" /\ pc' = "put" /\ requestInfo' = pendingRequest
        /\ UNCHANGED <<todo, requestBuffer, requestState, pendingRequest, writing, connection>>
    BY <1>10 DEF ReadPending, hookVars
  <2>2. Framed'
    BY <1>8, <2>1 DEF Framed
  <2>3. Judged'
    BY <1>0, <1>1, <1>6, <1>9, <2>1 DEF Judged, Idle
  <2> QED
    BY <1>0, <2>2, <2>3
<1>11. CASE ServerAnswers \/ Forget \/ UNCHANGED vars
  <2>1. UNCHANGED <<todo, requestBuffer, requestState, pendingRequest, writing, connection, requestInfo, pc>>
    BY <1>11 DEF ServerAnswers, Forget, vars, hookVars, writeVars
  <2>2. Framed'
    BY <1>8, <2>1 DEF Framed
  <2>3. Judged'
    BY <1>0, <1>1, <1>6, <1>9, <2>1 DEF Judged, Idle
  <2> QED
    BY <1>0, <2>2, <2>3
<1>12. CASE onConnectionClosed
  <2>1. /\ requestBuffer' = <<>> /\ pendingRequest' = None /\ connection' = "closing"
        /\ Note((IF requestState.isHeaderParsed \/ responseState.isHeaderParsed THEN {"cut"} ELSE {})
            \cup (IF Idle THEN {} ELSE {"raced"}))
        /\ UNCHANGED <<requestState, todo, writing, requestInfo, pc>>
    BY <1>12 DEF onConnectionClosed, writeVars
  <2>2. ~requestState.isHeaderParsed
    BY <2>1 DEF Note, Quiet
  <2>3. Framed'
    BY <2>1, <2>2 DEF Framed
  <2>4. Judged'
    BY <1>0, <1>1, <1>6, <1>7, <1>9, <2>1 DEF Judged, Idle
  <2> QED
    BY <1>0, <2>3, <2>4
<1>13. CASE Close \/ Reopen
  <2>1. /\ connection \in {"closing", "closed"} /\ connection' \in {"open", "closed"}
        /\ connection' = "open" => connection = "closed" /\ todo' = todo
        /\ UNCHANGED <<requestBuffer, requestState, pendingRequest, writing, requestInfo, pc>>
    BY <1>13 DEF Close, Reopen, hookVars, writeVars
  <2>2. pendingRequest = None /\ ~requestState.isHeaderParsed /\ ~requestState.isIgnored /\ requestBuffer = <<>>
        /\ Idle /\ pc # "put" /\ requestInfo = None
    BY <2>1 DEF Judged, Framed, HookStates, ServerInOrder, Idle
  <2>3. connection' = "open" => Collected'
    <3> SUFFICES ASSUME connection' = "open" PROVE Collected'
      OBVIOUS
    <3>1. todo' = <<>> /\ Len(requestBuffer') = 0 /\ requestBuffer' = <<>> /\ ~requestState'.isHeaderParsed
      BY <2>1, <2>2 DEF ServerInOrder
    <3> QED
      BY <3>1 DEF Collected
  <2>4. Framed'
    BY <2>1, <2>2, <2>3 DEF Framed
  <2>5. Judged'
    BY <1>6, <1>7, <2>1, <2>2 DEF Judged
  <2> QED
    BY <1>0, <2>4, <2>5
<1>14. CASE Expire
  <2>1. UNCHANGED <<writing, requestInfo, pc, connection, todo>> /\ pendingRequest' \in {pendingRequest, None}
        /\ (pendingRequest' = pendingRequest \/ Note({"idle"}))
    BY <1>14 DEF Expire, writeVars
  <2>2. pendingRequest' = pendingRequest
    BY <2>1 DEF Note, Quiet
  <2>3. CASE UNCHANGED <<requestBuffer, requestState>>
    <3>1. Framed'
      BY <1>8, <2>1, <2>3 DEF Framed
    <3>2. Judged'
      BY <1>0, <1>1, <1>6, <1>9, <2>1, <2>2, <2>3 DEF Judged, Idle
    <3> QED
      BY <1>0, <3>1, <3>2
  <2>4. CASE Idle /\ requestBuffer' = <<>> /\ requestState' = FreshState
             /\ (IF requestBuffer # <<>> \/ requestState.isHeaderParsed
                 THEN Note({"idle"}) ELSE UNCHANGED noted)
    <3>1. requestBuffer = <<>> /\ ~requestState.isHeaderParsed /\ ~requestState.isIgnored
      BY <2>4 DEF Note, Quiet, HookStates
    <3>2. ~requestState'.isHeaderParsed /\ ~requestState'.isIgnored
      BY <2>4 DEF FreshState
    <3>3. Collected => Collected'
      <4>1. Processed' = Processed
        BY <1>0, <1>1, <2>1 DEF Processed, SizeOf
      <4>2. Len(requestBuffer') = 0 /\ requestBuffer' = <<>>
        BY <2>4
      <4> QED
        BY <2>1, <3>1, <3>2, <4>1, <4>2 DEF Collected
    <3>4. Framed'
      BY <2>1, <2>4, <3>1, <3>2, <3>3 DEF Framed
    <3>5. Judged'
      BY <1>0, <1>1, <1>6, <1>9, <2>1, <2>2, <3>1, <3>2 DEF Judged, Idle
    <3> QED
      BY <1>0, <3>4, <3>5
  <2> QED
    BY <1>14, <2>3, <2>4 DEF Expire
<1> QED
  BY <1>10, <1>11, <1>12, <1>13, <1>14

\* Every step preserves the invariant about refusals.
LEMMA NextQuiet ==
    ASSUME TypeOK, HookStates, OneAtATime, OneAtATime', QuietInv, [Next]_vars
    PROVE  QuietInv'
<1> SUFFICES ASSUME Quiet' PROVE Framed' /\ Judged' /\ stopped' \subseteq denied'
  BY DEF QuietInv
<1>1. Quiet /\ Orderly /\ Orderly'
  BY QuietBefore
<1>2. PartsInOrder /\ ServerInOrder /\ PartsInOrder' /\ Framed /\ Judged /\ stopped \subseteq denied
  BY <1>1 DEF OneAtATime, QuietInv
<1>3. denied' = denied
  BY CaseStays DEF case
<1>4. ASSUME NEW n \in 1 .. MaxWrite, UnseenWrite(n) PROVE FALSE
  <2>1. Note({"unseen"})
    BY <1>4 DEF UnseenWrite
  <2> QED
    BY <1>1, <2>1, NotedOrderly
<1> QED
  BY <1>1, <1>2, <1>3, <1>4, BeginQuiet, JavaWriteQuiet, NativeWriteQuiet, PutPendingQuiet, ReadQuiet, OthersQuiet DEF Next

\* It holds before the first request.
LEMMA InitQuiet == Init => QuietInv
<1> SUFFICES ASSUME Init PROVE Framed /\ Judged /\ stopped \subseteq denied
  BY DEF QuietInv
<1>1. ~Blocked(None)
  BY BlockedRequests DEF Init
<1>2. Len(requestBuffer) = 0 /\ requestBuffer = <<>> /\ todo = <<>>
  BY DEF Init
<1>3. Collected
  BY <1>2 DEF Init, FreshState, Collected
<1>4. Framed
  BY <1>2, <1>3 DEF Init, FreshState, Framed
<1> QED
  BY <1>1, <1>4 DEF Init, FreshState, Judged, Idle

\* The behaviours in which no mark isIgnored was ever set.
Unmarked == Quiet /\ quirks \cap {"skipped", "stopped"} = {}

\* The whole head of the current request was judged and is in the hands of a native write.
HeadInHand == writing # <<>> /\ Gone < 2 /\ Processed >= 2

\* No head of a denied request has been judged and passed on.
Passed ==
    /\ ~requestState.isIgnored
    /\ HeadInHand => requests \notin denied
    /\ received \cap denied = {}

\* The inductive invariant about denied requests.
PassedInv == Unmarked => Passed

\* A head that was judged without a mark is not denied.
LEMMA WriteUnmarked ==
    ASSUME NEW seen, NEW m \in Nat, SeenInOrder(seen, m), ~requestState.isIgnored, NEW events,
           Note(MarksOf(seen) \cup events), quirks' \cap {"skipped", "stopped"} = {}
    PROVE  /\ ~seen.state.isIgnored /\ ~seen.block
           /\ m >= 2 /\ Processed < 2 => requests \notin denied
<1>1. "skipped" \notin MarksOf(seen) /\ "stopped" \notin MarksOf(seen)
  BY DEF Note
<1>2. ~seen.state.isIgnored
  <2> SUFFICES ASSUME seen.state.isIgnored PROVE FALSE
    OBVIOUS
  <2>1. MarksOf(seen) = IF seen.block THEN {"stopped"} ELSE {"skipped"}
    BY DEF MarksOf
  <2> QED
    BY <1>1, <2>1
<1>3. ~(Processed = 2 /\ Processed < 2) /\ ~(m = 1 /\ m >= 2)
  OBVIOUS
<1>4. /\ ~seen.block
      /\ m = 1 \/ Processed = 2 \/ requests \notin denied
  BY <1>2, Zenon DEF SeenInOrder
<1> QED
  BY <1>2, <1>3, <1>4

\* A write of the java layer passes no denied head on.
LEMMA JavaWritePassed ==
    ASSUME TypeOK, HookStates, PartsInOrder, ServerInOrder, Framed, Judged, Passed, Unmarked', Orderly',
           NEW n \in 1 .. MaxWrite, JavaWrite(n)
    PROVE  Passed'
<1>0. /\ n <= Len(todo) /\ connection = "open" /\ writing' = <<>> /\ writing = <<>>
      /\ UNCHANGED <<denied, requests>>
  BY DEF JavaWrite, HookStates, writeVars, case
<1>1. PICK seen \in processRequestBuffer(requestBuffer \o Taken(n)) :
          /\ RequestSeen(seen) /\ Note(MarksOf(seen))
          /\ ~seen.block => Deliver(Taken(n)) /\ todo' = Rest(todo, n) /\ UNCHANGED stopped
  BY <1>0, JavaTaken
<1>2. /\ n \in Nat \ {0} /\ Taken(n) \in Seq(RequestPart) /\ Len(Taken(n)) = n
      /\ \A i \in 1 .. n : Taken(n)[i] = PartOf(requests, Processed + i)
  BY <1>0, PartsTaken
<1>3. Processed \in Nat /\ Processed + n <= SizeOf(requests)
  BY <1>0, <1>2, Measures DEF PartsInOrder
<1>4. SeenInOrder(seen, Processed + n)
  BY <1>0, SeenFramed DEF Framed
<1>5. /\ ~seen.state.isIgnored /\ ~seen.block
      /\ Processed + n >= 2 /\ Processed < 2 => requests \notin denied
  <2>1. Note(MarksOf(seen) \cup {}) /\ Processed + n \in Nat /\ ~requestState.isIgnored
    BY <1>1, <1>2, <1>3 DEF Passed
  <2> QED
    BY <1>4, <2>1, WriteUnmarked DEF Unmarked
<1>6. received' = received \cup (IF Processed < 2 /\ Processed + n >= 2 THEN {requests} ELSE {})
  <2>1. /\ \A i \in 1 .. Len(Taken(n)) : Taken(n)[i] = PartOf(requests, Processed + i)
        /\ Processed + Len(Taken(n)) <= SizeOf(requests)
        /\ arrived \subseteq {requests} /\ whole \subseteq arrived /\ Deliver(Taken(n))
    BY <1>1, <1>2, <1>3, <1>5 DEF ServerInOrder
  <2>2. received' = received \cup (IF Processed < 2 /\ Processed + Len(Taken(n)) >= 2 THEN {requests} ELSE {})
    BY <1>2, <1>3, <2>1, DeliveredInOrder
  <2> QED
    BY <1>2, <2>2
<1> QED
  BY <1>0, <1>1, <1>5, <1>6 DEF Passed, HeadInHand, RequestSeen

\* A write of the native layer takes no denied head in hand.
LEMMA NativeWritePassed ==
    ASSUME TypeOK, HookStates, PartsInOrder, ServerInOrder, Framed, Judged, Passed, Unmarked', connection = "open",
           NEW n \in 1 .. MaxWrite, NativeWrite(n)
    PROVE  Passed'
<1>0. /\ n <= Len(todo) /\ writing = <<>>
      /\ UNCHANGED <<denied, bodied, requests, received>> /\ todo' = Rest(todo, n) /\ writing' = Taken(n)
  BY DEF NativeWrite, HookStates, case
<1>1. PICK seen \in processRequestBuffer(requestBuffer \o Taken(n)) :
          RequestSeen(seen) /\ Note(MarksOf(seen) \cup (IF connection = "closing" THEN {"raced"} ELSE {}))
  BY DEF NativeWrite
<1>2. n \in Nat \ {0}
  BY <1>0, PartsTaken
<1>3. Processed \in Nat /\ Gone = Processed
  BY <1>0, <1>2, Measures DEF PartsInOrder
<1>4. SeenInOrder(seen, Processed + n)
  BY <1>0, SeenFramed DEF Framed
<1>5. /\ ~seen.state.isIgnored
      /\ Processed + n >= 2 /\ Processed < 2 => requests \notin denied
  <2>1. Processed + n \in Nat /\ ~requestState.isIgnored
    BY <1>2, <1>3 DEF Passed
  <2> QED
    BY <1>1, <1>4, <2>1, WriteUnmarked DEF Unmarked
<1>6. Processed' = Processed + n /\ (writing' # <<>> => Gone' = Gone)
  BY <1>0, AfterTaken
<1> QED
  BY <1>0, <1>1, <1>3, <1>5, <1>6 DEF Passed, HeadInHand, RequestSeen

\* The end of a native write delivers what it has in hand.
LEMMA PutPendingPassed ==
    ASSUME TypeOK, HookStates, PartsInOrder, ServerInOrder, Passed, Orderly', PutPending
    PROVE  Passed'
<1>0. writing' = <<>> /\ UNCHANGED <<denied, requests, requestState>> /\ pc = "put"
  BY DEF PutPending, case
<1>1. CASE BlockWrite
  BY <1>0, <1>1 DEF BlockWrite, Refuse, Passed, HeadInHand
<1>2. CASE Deliver(writing)
  <2>1. Gone \in Nat /\ Gone + Len(writing) = Processed /\ Processed <= SizeOf(requests) /\ writing \in Seq(RequestPart)
    BY InHand
  <2>2. /\ \A i \in 1 .. Len(writing) : writing[i] = PartOf(requests, Gone + i)
        /\ Gone + Len(writing) <= SizeOf(requests)
        /\ arrived \subseteq {requests} /\ whole \subseteq arrived
    BY <2>1 DEF PartsInOrder, ServerInOrder
  <2>3. received' = received \cup (IF Gone < 2 /\ Gone + Len(writing) >= 2 THEN {requests} ELSE {})
    BY <1>2, <2>1, <2>2, DeliveredInOrder
  <2>4. writing # <<>>
    BY <1>0 DEF HookStates, Idle
  <2> QED
    BY <1>0, <2>1, <2>3, <2>4 DEF Passed, HeadInHand
<1> QED
  BY <1>1, <1>2, PutOrderly

\* The other steps deliver nothing.
LEMMA OthersPassed ==
    ASSUME TypeOK, HookStates, PartsInOrder, ServerInOrder, Passed, [Next]_vars, Orderly',
           \/ BeginRequest \/ ReadPending \/ ServerAnswers \/ onConnectionClosed \/ Close \/ Reopen \/ Expire \/ Forget
           \/ UNCHANGED vars \/ \E n \in 1 .. MaxWrite : Read(n)
    PROVE  Passed'
<1>0. UNCHANGED <<case, received, writing>>
  BY CaseStays DEF BeginRequest, ReadPending, ServerAnswers, onConnectionClosed, Close, Reopen, Expire, Forget, Read, vars, writeVars
<1>1. ~requestState'.isIgnored
  <2>1. FreshState.isIgnored = FALSE
    BY DEF FreshState
  <2>2. requestState' \in {requestState, FreshState}
    BY ReadOutcomes DEF BeginRequest, ReadPending, ServerAnswers, onConnectionClosed, Close, Reopen, Expire, Forget, vars, hookVars
  <2> QED
    BY <2>1, <2>2 DEF Passed
<1>2. CASE writing = <<>>
  BY <1>0, <1>1, <1>2 DEF Passed, HeadInHand, case
<1>3. CASE writing # <<>>
  <2>1. ~Idle /\ connection = "open"
    BY <1>3 DEF HookStates, ServerInOrder
  <2>2. UNCHANGED <<todo, requests>>
    BY <2>1 DEF BeginRequest, ReadPending, ServerAnswers, onConnectionClosed, Close, Reopen, Expire, Forget, Read, vars
  <2>3. Gone' = Gone /\ Processed' = Processed
    BY <1>0, <2>2, SameParts DEF case
  <2> QED
    BY <1>0, <1>1, <2>2, <2>3 DEF Passed, HeadInHand, case
<1> QED
  BY <1>2, <1>3

\* Every step preserves the invariant about denied requests.
LEMMA NextPassed ==
    ASSUME TypeOK, HookStates, OneAtATime, QuietInv, PassedInv, [Next]_vars
    PROVE  PassedInv'
<1> SUFFICES ASSUME Unmarked' PROVE Passed'
  BY DEF PassedInv
<1>1. Quiet /\ Orderly /\ Orderly' /\ Quiet' /\ Unmarked
  BY QuietBefore, QuirksStay DEF Unmarked
<1>2. PartsInOrder /\ ServerInOrder /\ Framed /\ Judged /\ Passed
  BY <1>1 DEF OneAtATime, QuietInv, PassedInv
<1>4. ASSUME NEW n \in 1 .. MaxWrite, UnseenWrite(n) PROVE FALSE
  <2>1. Note({"unseen"})
    BY <1>4 DEF UnseenWrite
  <2> QED
    BY <1>1, <2>1, NotedOrderly
<1>5. ASSUME NEW n \in 1 .. MaxWrite, NativeWrite(n) PROVE Passed'
  BY <1>1, <1>2, <1>5, NativeWriteQuiet, NativeWritePassed
<1> QED
  BY <1>1, <1>2, <1>4, <1>5, JavaWritePassed, PutPendingPassed, OthersPassed DEF Next

\* It holds before the first request.
LEMMA InitPassed == Init => PassedInv
  BY DEF Init, PassedInv, Passed, HeadInHand, FreshState

\* The invariants together; each needs those before it.
ConnInv == TypeOK /\ HookStates /\ OneAtATime /\ OnceInv /\ QuietInv /\ PassedInv

\* They hold before the first request.
LEMMA InitConn == Init => ConnInv
  BY InitType, InitHookStates, InitOneAtATime, InitOnce, InitQuiet, InitPassed DEF ConnInv

\* Every step preserves them.
LEMMA NextConn == ConnInv /\ [Next]_vars => ConnInv'
  BY NextType, NextHookStates, NextOneAtATime, NextOnce, NextQuiet, NextPassed DEF ConnInv

\* No head of a denied request reaches a server (processRequestBuffer judges it before its
\* last part is written), but after the events DeniedIsStopped names.
THEOREM TheDeniedAreStopped == Spec => []DeniedIsStopped
<1>1. ConnInv => DeniedIsStopped
  BY DEF ConnInv, PassedInv, Passed, Unmarked, Quiet, Orderly, DeniedIsStopped
<1> QED
  BY InitConn, NextConn, <1>1, PTL DEF Spec

\* No write or read of an allowed request is refused because of an earlier one (BlockWrite,
\* completeAndDispatchRequest), but after the events InnocentPasses names.
THEOREM TheInnocentPass == Spec => []InnocentPasses
<1>1. ConnInv => InnocentPasses
  BY DEF ConnInv, QuietInv, Quiet, Orderly, InnocentPasses
<1> QED
  BY InitConn, NextConn, <1>1, PTL DEF Spec

----------------------------------------------------------------------------
(* Answers *)

\* The behaviours in which AnswersMatch promises something.
Tame == Quiet /\ quirks \cap {"stopped", "interim", "unsized"} = {}

\* The parts of an answer to the current request.
HeadOf(l) == Answer(requests, "head", l, l = 0)
BodyOf == Answer(requests, "body", 0, TRUE)

\* The answer to the current request, on its way or begun to be read.
AnswerInOrder ==
    \/ /\ responseBuffer = <<>> /\ ~responseState.isHeaderParsed
       /\ answers \in {<<>>, <<HeadOf(0)>>, <<HeadOf(1), BodyOf>>}
    \/ /\ responseBuffer = <<HeadOf(1)>> /\ answers = <<BodyOf>>
       /\ responseState.isHeaderParsed
       /\ responseState.headerSize = 1 /\ responseState.contentLength = 1

\* As long as an answer is to come, its request is pending.
Expected ==
    /\ Outstanding \/ HeadInHand => pendingRequest = requests /\ (pc = "put" => requestInfo = requests)
    /\ requestState.isIgnored => Outstanding \/ HeadInHand

\* Nothing pending is blocked, and the response side is ignored or in step with the exchange.
Answered ==
    /\ ~Blocked(pendingRequest) /\ ~Blocked(requestInfo)
    /\ connection = "open" => responseState.isIgnored \/ (Expected /\ AnswerInOrder)
    /\ connection # "open" => responseBuffer = <<>> /\ ~responseState.isHeaderParsed

\* Every report is of the final answer to the request it is reported with, up to the answer's
\* end when bodies are collected.
Matched ==
    /\ reported \in Seq(Report)
    /\ \A i \in 1 .. Len(reported) :
          /\ reported[i].final /\ reported[i].answers = {reported[i].request}
          /\ collect => reported[i].whole

\* The inductive invariant about answers.
AnswersInv == Tame => Answered /\ Matched

\* The bytes of a report: they begin with the final head and come from the current request's answer.
LEMMA BytesInOrder ==
    ASSUME NEW buffer \in Seq(ResponsePart), NEW k \in 1 .. Len(buffer), requests \in Requests,
           buffer[1].part = "head", \A i \in 1 .. Len(buffer) : buffer[i].req = requests
    PROVE  LET bytes == SubSeq(buffer, 1, k)
           IN  /\ bytes \in Seq(ResponsePart) /\ Senders(bytes) = {requests} /\ First(bytes, {"head"}) = 1
               /\ bytes # <<>> /\ bytes[Len(bytes)] = buffer[k]
               /\ First(buffer, {"head", "interim"}) = 1
<1> DEFINE bytes == SubSeq(buffer, 1, k)
<1>0. k \in Nat /\ k <= Len(buffer) /\ 1 \in 1 .. k /\ Len(buffer) \in Nat
  OBVIOUS
<1>1. bytes \in Seq(ResponsePart) /\ Len(bytes) = k /\ \A i \in 1 .. k : bytes[i] = buffer[i]
  BY <1>0, TakenAndRest
<1> HIDE DEF bytes
<1>2. bytes[1].part = "head" /\ \A i \in 1 .. k : bytes[i].req = requests
  BY <1>0, <1>1
<1>3. First(bytes, {"head"}) = 1
  <2>1. First(bytes, {"head"}) \in 1 .. 1
    BY <1>0, <1>1, <1>2, FirstPart
  <2> QED
    BY <2>1
<1>4. First(buffer, {"head", "interim"}) = 1
  <2>1. First(buffer, {"head", "interim"}) \in 1 .. 1
    <3>1. 1 \in 1 .. Len(buffer)
      BY <1>0
    <3> QED
      BY <3>1, FirstPart
  <2> QED
    BY <2>1
<1>6. bytes # <<>> /\ bytes[Len(bytes)] = buffer[k]
  BY <1>0, <1>1
<1>5. Senders(bytes) = {requests}
  <2>1. DOMAIN bytes = 1 .. k
    BY <1>1
  <2> QED
    BY <1>0, <1>2, <2>1 DEF Senders
<1> QED
  BY <1>1, <1>3, <1>4, <1>5, <1>6 DEF bytes

\* What the next n parts make of the response's buffer: all of the answer, or its head.
LEMMA AnswerTaken ==
    ASSUME TypeOK, AnswerInOrder, answers # <<>>, requests \in Requests,
           NEW n \in 1 .. MaxWrite, n <= Len(answers)
    PROVE  LET buffer == responseBuffer \o SubSeq(answers, 1, n)
           IN  \E l \in {0, 1} :
                  /\ buffer \in Seq(ResponsePart) /\ buffer[1] = HeadOf(l)
                  /\ \A i \in 1 .. Len(buffer) : buffer[i].req = requests
                  /\ \/ Len(buffer) = l + 1 /\ Rest(answers, n) = <<>> /\ buffer[l + 1].last
                     \/ l = 1 /\ Len(buffer) = 1 /\ buffer = <<HeadOf(1)>> /\ Rest(answers, n) = <<BodyOf>>
                        /\ ~responseState.isHeaderParsed
                  /\ responseState.isHeaderParsed =>
                        l = 1 /\ responseState.headerSize = 1 /\ responseState.contentLength = 1
<1> DEFINE taken == SubSeq(answers, 1, n)
           rest == Rest(answers, n)
           buffer == responseBuffer \o taken
<1>0. n \in Nat \ {0} /\ responseBuffer \in Seq(ResponsePart) /\ answers \in Seq(ResponsePart)
  BY Http1Assumption DEF TypeOK
<1>1. /\ taken \in Seq(ResponsePart) /\ Len(taken) = n /\ \A i \in 1 .. n : taken[i] = answers[i]
      /\ rest \in Seq(ResponsePart) /\ Len(rest) = Len(answers) - n
      /\ \A i \in 1 .. Len(answers) - n : rest[i] = answers[n + i]
  BY <1>0, TakenAndRest DEF Rest
<1> HIDE DEF taken, rest
<1>2. /\ buffer \in Seq(ResponsePart) /\ Len(buffer) = Len(responseBuffer) + n
      /\ \A i \in 1 .. Len(responseBuffer) : buffer[i] = responseBuffer[i]
      /\ \A i \in 1 .. n : buffer[Len(responseBuffer) + i] = taken[i]
  <2>1. taken \in Seq(ResponsePart) /\ Len(taken) = n
    BY <1>1
  <2>2. /\ buffer \in Seq(ResponsePart) /\ Len(buffer) = Len(responseBuffer) + Len(taken)
        /\ \A i \in 1 .. Len(responseBuffer) : buffer[i] = responseBuffer[i]
        /\ \A i \in 1 .. Len(taken) : buffer[Len(responseBuffer) + i] = taken[i]
    <3>1. responseBuffer \in Seq(ResponsePart) /\ taken \in Seq(ResponsePart)
      BY <1>0, <2>1
    <3> QED
      BY <3>1, Joined DEF buffer
  <2> QED
    BY <2>1, <2>2
<1> HIDE DEF buffer
<1>3. HeadOf(0).req = requests /\ HeadOf(1).req = requests /\ BodyOf.req = requests
      /\ HeadOf(0).last /\ BodyOf.last
  BY DEF HeadOf, BodyOf, Answer
<1>4. CASE responseBuffer = <<>> /\ answers = <<HeadOf(0)>> /\ ~responseState.isHeaderParsed
  <2>1. Len(responseBuffer) = 0 /\ Len(answers) = 1 /\ answers[1] = HeadOf(0)
    BY <1>4
  <2>2. n = 1
    BY <1>0, <2>1
  <2>3. Len(buffer) = 1 /\ buffer[1] = HeadOf(0) /\ Len(rest) = 0
    BY <1>1, <1>2, <2>1, <2>2
  <2>4. rest = <<>>
    BY <1>1, <2>3
  <2>5. \A i \in 1 .. Len(buffer) : buffer[i].req = requests
    BY <1>3, <2>3
  <2> QED
    BY <1>2, <1>3, <1>4, <2>3, <2>4, <2>5 DEF buffer, taken, rest
<1>5. CASE responseBuffer = <<>> /\ answers = <<HeadOf(1), BodyOf>> /\ ~responseState.isHeaderParsed
  <2>1. Len(responseBuffer) = 0 /\ Len(answers) = 2 /\ answers[1] = HeadOf(1) /\ answers[2] = BodyOf
    BY <1>5
  <2>2. n = 1 \/ n = 2
    BY <1>0, <2>1
  <2>3. buffer[1] = HeadOf(1) /\ Len(buffer) = n /\ Len(rest) = 2 - n
        /\ \A i \in 1 .. n : buffer[i] = answers[i]
    BY <1>0, <1>1, <1>2, <2>1, <2>2
  <2>4. \A i \in 1 .. Len(buffer) : buffer[i].req = requests
    BY <1>3, <2>1, <2>2, <2>3
  <2>5. CASE n = 1
    <3>1. buffer = <<HeadOf(1)>>
      <4>1. buffer \in Seq(ResponsePart) /\ Len(buffer) = 1 /\ buffer[1] = HeadOf(1)
        BY <1>2, <2>3, <2>5
      <4> QED
        BY <4>1
    <3>2. Len(rest) = 1 /\ rest[1] = BodyOf
      BY <1>1, <2>1, <2>3, <2>5
    <3>3. rest = <<BodyOf>>
      BY <1>1, <3>2
    <3> QED
      BY <1>2, <1>5, <2>3, <2>4, <2>5, <3>1, <3>3 DEF buffer, taken, rest
  <2>6. CASE n = 2
    <3>1. Len(rest) = 0
      BY <2>3, <2>6
    <3>2. rest = <<>>
      BY <1>1, <3>1
    <3>3. buffer[2].last
      BY <1>3, <2>1, <2>3, <2>6
    <3> QED
      BY <1>2, <1>5, <2>3, <2>4, <2>6, <3>2, <3>3 DEF buffer, taken, rest
  <2> QED
    BY <2>2, <2>5, <2>6
<1>6. CASE /\ responseBuffer = <<HeadOf(1)>> /\ answers = <<BodyOf>>
           /\ responseState.headerSize = 1 /\ responseState.contentLength = 1
  <2>1. Len(responseBuffer) = 1 /\ Len(answers) = 1 /\ responseBuffer[1] = HeadOf(1) /\ answers[1] = BodyOf
    BY <1>6
  <2>2. n = 1
    BY <1>0, <2>1
  <2>3. Len(buffer) = 2 /\ buffer[1] = HeadOf(1) /\ Len(rest) = 0 /\ buffer[2] = BodyOf
    BY <1>1, <1>2, <2>1, <2>2
  <2>4. rest = <<>>
    BY <1>1, <2>3
  <2>5. \A i \in 1 .. Len(buffer) : buffer[i].req = requests
    <3>1. \A i \in 1 .. Len(buffer) : i = 1 \/ i = 2
      BY <2>3
    <3> QED
      BY <1>3, <2>3, <3>1
  <2> QED
    BY <1>2, <1>3, <1>6, <2>3, <2>4, <2>5 DEF buffer, taken, rest
<1> QED
  BY <1>4, <1>5, <1>6 DEF AnswerInOrder

\* A read of the answer that is expected: it is not complete yet, or it is reported.
LEMMA ReadAnswer ==
    ASSUME TypeOK, HookStates, AnswerInOrder, ~responseState.isIgnored, Orderly',
           pendingRequest = requests, requests \in Requests,
           NEW n \in 1 .. MaxWrite, Read(n)
    PROVE  \/ /\ AnswerInOrder' /\ answers' # <<>>
              /\ UNCHANGED <<requestState, pendingRequest, reported>>
           \/ /\ \E bytes \in Seq(ResponsePart) :
                    /\ completeAndDispatchRequest(bytes)
                    /\ Senders(bytes) = {requests} /\ First(bytes, {"head"}) = 1
                    /\ bytes # <<>> /\ (collect => bytes[Len(bytes)].last)
              /\ pendingRequest' = None
              /\ responseState'.isIgnored \/ (AnswerInOrder' /\ answers' = <<>> /\ ~requestState'.isIgnored)
<1> DEFINE buffer == responseBuffer \o SubSeq(answers, 1, n)
           f == First(buffer, {"head", "interim"})
<1>0. n <= Len(answers) /\ answers' = Rest(answers, n) /\ UNCHANGED requests
  BY DEF Read
<1>1. answers # <<>>
  <2>1. Len(answers) # 0
    BY <1>0, Http1Assumption DEF TypeOK
  <2> QED
    BY <2>1
<1>2. PICK l \in {0, 1} :
         /\ buffer \in Seq(ResponsePart) /\ buffer[1] = HeadOf(l)
         /\ \A i \in 1 .. Len(buffer) : buffer[i].req = requests
         /\ \/ Len(buffer) = l + 1 /\ Rest(answers, n) = <<>> /\ buffer[l + 1].last
            \/ l = 1 /\ Len(buffer) = 1 /\ buffer = <<HeadOf(1)>> /\ Rest(answers, n) = <<BodyOf>>
               /\ ~responseState.isHeaderParsed
         /\ responseState.isHeaderParsed =>
               l = 1 /\ responseState.headerSize = 1 /\ responseState.contentLength = 1
  BY <1>0, <1>1, AnswerTaken
<1>3. processResponseBuffer(buffer)
  <2>1. ~Note({"unseen"})
    BY NotedOrderly
  <2> QED
    BY <2>1 DEF Read
<1> HIDE DEF buffer
<1>4. buffer[1].part = "head" /\ buffer[1].length = l
  BY <1>2 DEF HeadOf, Answer
<1>5. ASSUME NEW k \in 1 .. Len(buffer)
      PROVE  /\ SubSeq(buffer, 1, k) \in Seq(ResponsePart) /\ Senders(SubSeq(buffer, 1, k)) = {requests}
             /\ First(SubSeq(buffer, 1, k), {"head"}) = 1
             /\ SubSeq(buffer, 1, k) # <<>> /\ SubSeq(buffer, 1, k)[Len(SubSeq(buffer, 1, k))] = buffer[k]
             /\ f = 1
  BY <1>2, <1>4, BytesInOrder
<1>6. f = 1 /\ 1 \in 1 .. Len(buffer) /\ Len(buffer) \in 1 .. l + 1
  <2>1. Len(buffer) \in 1 .. l + 1 /\ 1 \in 1 .. Len(buffer)
    BY <1>2
  <2> QED
    BY <1>5, <2>1
<1> HIDE DEF f
<1>7. CASE ResponseIgnored(buffer)
  BY <1>7 DEF ResponseIgnored
<1>8. CASE ResponseWaits(buffer)
  <2>1. pendingRequest # None
    BY DEF Requests, None
  <2> QED
    BY <1>6, <1>8, <2>1 DEF ResponseWaits, f
<1>9. CASE ResponseHeadOnly(buffer)
  <2>1. /\ completeAndDispatchRequest(SubSeq(buffer, 1, 1)) /\ ~collect
        /\ pendingRequest' = None /\ responseState'.isIgnored
    BY <1>6, <1>9 DEF ResponseHeadOnly, f
  <2>2. SubSeq(buffer, 1, 1) \in Seq(ResponsePart) /\ Senders(SubSeq(buffer, 1, 1)) = {requests}
        /\ First(SubSeq(buffer, 1, 1), {"head"}) = 1 /\ SubSeq(buffer, 1, 1) # <<>>
    BY <1>5, <1>6
  <2> QED
    BY <2>1, <2>2
<1>10. CASE ResponseWithBody(buffer)
  <2> DEFINE state == IF responseState.isHeaderParsed THEN responseState
                      ELSE [isHeaderParsed |-> TRUE, headerSize |-> f,
                            contentLength |-> buffer[f].length, isIgnored |-> FALSE]
             size == state.headerSize + state.contentLength
  <2>1. \/ /\ Len(buffer) < size
           /\ responseBuffer' = buffer
           /\ responseState' = state
           /\ UNCHANGED <<requestState, pendingRequest, sentVars, reported, stopped>>
        \/ /\ Len(buffer) >= size
           /\ completeAndDispatchRequest(SubSeq(buffer, 1, IF size > f THEN size ELSE f))
           /\ responseState' = FreshState
           /\ pendingRequest' = None
           /\ \/ size >= 0 /\ responseBuffer' = cleanBuffer(buffer, size) /\ requestState' = FreshState
              \/ size < 0
    BY <1>10 DEF ResponseWithBody, MessageSize, f
  <2>2. state.isHeaderParsed /\ state.headerSize = 1 /\ state.contentLength = l
    BY <1>2, <1>4, <1>6
  <2>3. size = l + 1 /\ (IF size > f THEN size ELSE f) = size /\ ~(size < 0)
    BY <1>6, <2>2
  <2> HIDE DEF state, size
  <2>4. HeadOf(1)' = HeadOf(1) /\ BodyOf' = BodyOf
    BY <1>0 DEF HeadOf, BodyOf
  <2>5. CASE /\ Len(buffer) < size
             /\ responseBuffer' = buffer
             /\ responseState' = state
             /\ UNCHANGED <<requestState, pendingRequest, sentVars, reported, stopped>>
    <3>1. l = 1 /\ buffer = <<HeadOf(1)>> /\ answers' = <<BodyOf>>
      BY <1>0, <1>2, <2>3, <2>5
    <3>2. AnswerInOrder' /\ answers' # <<>>
      BY <2>2, <2>4, <2>5, <3>1 DEF AnswerInOrder
    <3> QED
      BY <2>5, <3>2
  <2>6. CASE /\ Len(buffer) >= size
             /\ completeAndDispatchRequest(SubSeq(buffer, 1, size))
             /\ responseBuffer' = cleanBuffer(buffer, size)
             /\ responseState' = FreshState
             /\ requestState' = FreshState
             /\ pendingRequest' = None
    <3>1. Len(buffer) = size /\ size \in 1 .. Len(buffer)
      BY <1>6, <2>3, <2>6
    <3>2. answers' = <<>> /\ buffer[size].last
      BY <1>0, <1>2, <2>3, <3>1
    <3>3. responseBuffer' = <<>>
      BY <1>2, <2>6, <3>1, SubSeqEmpty DEF cleanBuffer
    <3>4. ~responseState'.isHeaderParsed /\ ~requestState'.isIgnored
      BY <2>6 DEF FreshState
    <3>5. AnswerInOrder'
      BY <3>2, <3>3, <3>4 DEF AnswerInOrder
    <3>6. SubSeq(buffer, 1, size) \in Seq(ResponsePart) /\ Senders(SubSeq(buffer, 1, size)) = {requests}
          /\ First(SubSeq(buffer, 1, size), {"head"}) = 1 /\ SubSeq(buffer, 1, size) # <<>>
          /\ SubSeq(buffer, 1, size)[Len(SubSeq(buffer, 1, size))] = buffer[size]
      BY <1>5, <3>1
    <3> QED
      BY <2>6, <3>2, <3>4, <3>5, <3>6
  <2> QED
    BY <2>1, <2>3, <2>5, <2>6
<1> QED
  BY <1>3, <1>7, <1>8, <1>9, <1>10 DEF processResponseBuffer

\* A report of bytes of the pending request that begin with a final head is a match.
LEMMA ReportMatched ==
    ASSUME TypeOK, Matched, NEW bytes \in Seq(ResponsePart), completeAndDispatchRequest(bytes),
           Senders(bytes) = {pendingRequest}, First(bytes, {"head"}) = 1, collect' = collect,
           bytes # <<>>, collect => bytes[Len(bytes)].last
    PROVE  Matched'
<1> DEFINE entry == [request |-> pendingRequest, answers |-> Senders(bytes),
                     final |-> First(bytes, {"head"}) = 1, whole |-> bytes[Len(bytes)].last]
<1>1. reported' = IF pendingRequest \in replied THEN reported ELSE Append(reported, entry)
  BY DEF completeAndDispatchRequest
<1>2. entry \in Report /\ entry.final /\ entry.answers = {entry.request} /\ (collect => entry.whole)
  <2>1. Senders(bytes) \subseteq Requests /\ pendingRequest \in Infos \cup {None}
    BY SendersAreRequests DEF TypeOK
  <2>2. bytes[Len(bytes)].last \in BOOLEAN
    <3>1. Len(bytes) \in 1 .. Len(bytes)
      OBVIOUS
    <3>2. bytes[Len(bytes)] \in ResponsePart
      BY <3>1, ElementOfSeq
    <3> QED
      BY <3>2 DEF ResponsePart
  <2> QED
    BY <2>1, <2>2 DEF Report
<1> HIDE DEF entry
<1>3. PICK k \in Nat : k = Len(reported) /\ reported \in Seq(Report)
  BY DEF Matched
<1>4. CASE reported' = Append(reported, entry)
  <2>1. /\ reported' \in Seq(Report) /\ Len(reported') = k + 1
        /\ \A i \in 1 .. k : reported'[i] = reported[i]
        /\ reported'[k + 1] = entry
    BY <1>2, <1>3, <1>4
  <2>2. \A i \in 1 .. k + 1 : i \in 1 .. k \/ i = k + 1
    BY <1>3
  <2> QED
    BY <1>2, <1>3, <2>1, <2>2 DEF Matched
<1>5. CASE reported' = reported
  BY <1>5 DEF Matched
<1> QED
  BY <1>1, <1>4, <1>5

\* A read keeps the answer in order and reports it with the request it belongs to.
LEMMA ReadAnswered ==
    ASSUME TypeOK, HookStates, PartsInOrder, ServerInOrder, Framed, Judged, Answered, Matched, Orderly',
           NEW n \in 1 .. MaxWrite, Read(n)
    PROVE  Answered' /\ Matched'
<1>0. UNCHANGED <<case, writeVars, connection, requests, todo, arrived>> /\ n <= Len(answers)
  BY DEF Read
<1>1. UNCHANGED <<collect, denied, bodied, pc, writing, requestInfo>>
  BY <1>0 DEF case, writeVars
<1>2. answers # <<>>
  <2>1. Len(answers) # 0
    BY <1>0, Http1Assumption DEF TypeOK
  <2> QED
    BY <2>1
<1>3. connection = "open"
  BY ReadQuiet
<1>4. Outstanding /\ arrived = {} /\ Gone >= 2 /\ Gone' = Gone /\ Processed' = Processed
  BY <1>0, <1>1, <1>2, SameParts DEF ServerInOrder, Outstanding
<1>5. ~HeadInHand'
  <2>1. ~(Gone < 2)
    BY <1>4, Measures
  <2> QED
    BY <1>4, <2>1 DEF HeadInHand
<1>6. Blocked(pendingRequest)' <=> pendingRequest' \in denied \cup {Unwanted}
  BY <1>1 DEF Blocked
<1>7. ~Blocked(None)
  BY BlockedRequests DEF TypeOK
<1>8. ~Blocked(requestInfo)'
  BY <1>1 DEF Answered, Blocked
<1>9. CASE responseState.isIgnored
  <2>1. UNCHANGED <<responseState, pendingRequest, reported>>
    <3>1. ~Note({"unseen"})
      BY NotedOrderly
    <3>2. PICK buffer : processResponseBuffer(buffer)
      BY <3>1 DEF Read
    <3> QED
      BY <1>9, <3>2 DEF processResponseBuffer, ResponseIgnored, ResponseWaits, ResponseHeadOnly, ResponseWithBody
  <2> QED
    BY <1>0, <1>1, <1>3, <1>6, <1>8, <1>9, <2>1 DEF Answered, Matched, Blocked
<1>10. CASE ~responseState.isIgnored
  <2>1. Expected /\ AnswerInOrder
    BY <1>3, <1>10 DEF Answered
  <2>2. pendingRequest = requests /\ (pc = "put" => requestInfo = requests)
    BY <1>4, <2>1 DEF Expected
  <2>3. requests \in Requests
    <3>1. answers[1].req = requests
      <4>1. HeadOf(0).req = requests /\ HeadOf(1).req = requests /\ BodyOf.req = requests
        BY DEF HeadOf, BodyOf, Answer
      <4>2. answers[1] \in {HeadOf(0), HeadOf(1), BodyOf}
        BY <1>2, <2>1 DEF AnswerInOrder
      <4> QED
        BY <4>1, <4>2
    <3>2. answers[1] \in ResponsePart
      <4>1. answers \in Seq(ResponsePart) /\ 1 \in 1 .. Len(answers)
        BY <1>2 DEF TypeOK
      <4> QED
        BY <4>1, ElementOfSeq
    <3> QED
      BY <3>1, <3>2 DEF ResponsePart
  <2>4. CASE /\ AnswerInOrder' /\ answers' # <<>>
             /\ UNCHANGED <<requestState, pendingRequest, reported>>
    <3>1. Expected'
      BY <1>0, <1>1, <2>2, <2>4 DEF Expected, Outstanding
    <3>2. ~Blocked(pendingRequest)'
      BY <1>6, <2>4 DEF Answered, Blocked
    <3> QED
      BY <1>0, <1>1, <1>3, <1>8, <2>4, <3>1, <3>2 DEF Answered, Matched
  <2>5. ASSUME NEW bytes \in Seq(ResponsePart), completeAndDispatchRequest(bytes),
               Senders(bytes) = {requests}, First(bytes, {"head"}) = 1,
               bytes # <<>>, collect => bytes[Len(bytes)].last, pendingRequest' = None,
               responseState'.isIgnored \/ (AnswerInOrder' /\ answers' = <<>> /\ ~requestState'.isIgnored)
        PROVE  Answered' /\ Matched'
    <3>1. Matched'
      BY <1>1, <2>2, <2>5, ReportMatched
    <3>2. ~Blocked(pendingRequest)'
      BY <1>6, <1>7, <2>5 DEF Blocked
    <3>3. responseState'.isIgnored \/ (Expected' /\ AnswerInOrder')
      BY <1>0, <1>4, <1>5, <2>5 DEF Expected, Outstanding
    <3> QED
      BY <1>0, <1>3, <1>8, <3>1, <3>2, <3>3 DEF Answered
  <2> QED
    BY <1>10, <2>1, <2>2, <2>3, <2>4, <2>5, ReadAnswer
<1> QED
  BY <1>9, <1>10

\* A write that hands out the head of a request makes it the pending one.
LEMMA WriteAnswered ==
    ASSUME TypeOK, Framed, Judged, Answered, connection = "open", Idle, HookStates,
           NEW m \in Nat, NEW seen, SeenInOrder(seen, m), RequestSeen(seen), ~seen.block,
           UNCHANGED <<case, connection, requests, requestInfo, answers>>, pc' # "put",
           (Outstanding \/ HeadInHand)' <=> Outstanding \/ (Processed < 2 /\ m >= 2)
    PROVE  Answered'
<1>0. UNCHANGED <<denied, responseBuffer, responseState>> /\ writing = <<>> /\ ~HeadInHand
  BY DEF case, RequestSeen, HookStates, HeadInHand
<1>1. /\ requestState' = seen.state
      /\ pendingRequest' = IF seen.info = None THEN pendingRequest ELSE seen.info
  BY DEF RequestSeen
<1>2. ~(Processed = 2 /\ Processed < 2) /\ ~(m = 1 /\ m >= 2)
  OBVIOUS
<1>3. /\ seen.info \in {None, requests}
      /\ seen.info = requests /\ seen.info # None => requests \notin denied
      /\ Processed < 2 /\ m >= 2 => requestState.isIgnored \/ seen.info = requests
      /\ seen.state.isIgnored => requestState.isIgnored \/ (Processed < 2 /\ m >= 2)
  <2>1. HeadState(2, 1, TRUE, FALSE).isIgnored = FALSE
    BY DEF HeadState
  <2> QED
    BY <1>2, <2>1, Zenon DEF SeenInOrder
<1>4. requests # None /\ requests # Unwanted
  BY DEF TypeOK, None, Unwanted
<1>5. ~Blocked(pendingRequest)' /\ ~Blocked(requestInfo)'
  BY <1>0, <1>1, <1>3, <1>4 DEF Answered, Blocked
<1>6. CASE responseState.isIgnored
  BY <1>0, <1>5, <1>6 DEF Answered
<1>7. CASE ~responseState.isIgnored
  <2>1. Expected /\ AnswerInOrder
    BY <1>7 DEF Answered
  <2>2. AnswerInOrder'
    <3>1. HeadOf(0)' = HeadOf(0) /\ HeadOf(1)' = HeadOf(1) /\ BodyOf' = BodyOf
      BY DEF HeadOf, BodyOf
    <3> QED
      BY <1>0, <2>1, <3>1 DEF AnswerInOrder
  <2>3. requestState.isIgnored => Outstanding
    BY <1>0, <2>1 DEF Expected
  <2>4. Outstanding => pendingRequest = requests
    BY <2>1 DEF Expected
  <2>5. Expected'
    BY <1>1, <1>3, <1>4, <2>3, <2>4 DEF Expected
  <2> QED
    BY <1>5, <2>2, <2>5 DEF Answered
<1> QED
  BY <1>6, <1>7

\* A block is noted.
LEMMA BlockIsNoted ==
    ASSUME NEW m, NEW seen, SeenInOrder(seen, m), NEW events, Note(MarksOf(seen) \cup events),
           "stopped" \notin quirks'
    PROVE  ~seen.block
<1> SUFFICES ASSUME seen.block PROVE FALSE
  OBVIOUS
<1>1. ~requestState.isIgnored /\ seen.state.isIgnored
  BY DEF SeenInOrder
<1>2. MarksOf(seen) = {"stopped"}
  BY <1>1 DEF MarksOf
<1> QED
  BY <1>2 DEF Note

\* A write of the java layer leaves its request pending.
LEMMA JavaWriteAnswered ==
    ASSUME TypeOK, HookStates, PartsInOrder, ServerInOrder, Framed, Judged, Answered, "stopped" \notin quirks',
           Orderly', NEW n \in 1 .. MaxWrite, JavaWrite(n)
    PROVE  Answered' /\ reported' = reported
<1>0. /\ n <= Len(todo) /\ connection = "open" /\ Idle /\ writing' = <<>> /\ writing = <<>> /\ pc' # "put"
      /\ UNCHANGED <<case, connection, requests, requestInfo, answers>>
  BY DEF JavaWrite, HookStates, writeVars, Idle
<1>1. PICK seen \in processRequestBuffer(requestBuffer \o Taken(n)) :
          /\ RequestSeen(seen) /\ Note(MarksOf(seen))
          /\ ~seen.block => Deliver(Taken(n)) /\ todo' = Rest(todo, n) /\ UNCHANGED stopped
  BY JavaTaken
<1>2. /\ n \in Nat \ {0} /\ Taken(n) \in Seq(RequestPart) /\ Len(Taken(n)) = n
      /\ \A i \in 1 .. n : Taken(n)[i] = PartOf(requests, Processed + i)
  BY <1>0, PartsTaken
<1>3. Processed \in Nat /\ Processed + n <= SizeOf(requests) /\ Processed + n \in Nat
  BY <1>0, <1>2, Measures DEF PartsInOrder
<1>4. SeenInOrder(seen, Processed + n)
  BY <1>0, SeenFramed DEF Framed
<1>5. ~seen.block
  <2>1. Note(MarksOf(seen) \cup {})
    BY <1>1
  <2> QED
    BY <1>4, <2>1, BlockIsNoted
<1>6. arrived' = arrived \cup (IF Processed < 2 /\ Processed + n >= 2 THEN {requests} ELSE {})
  <2>1. /\ \A i \in 1 .. Len(Taken(n)) : Taken(n)[i] = PartOf(requests, Processed + i)
        /\ Processed + Len(Taken(n)) <= SizeOf(requests)
        /\ arrived \subseteq {requests} /\ whole \subseteq arrived /\ Deliver(Taken(n))
    BY <1>1, <1>2, <1>3, <1>5 DEF ServerInOrder
  <2>2. arrived' = arrived \cup (IF Processed < 2 /\ Processed + Len(Taken(n)) >= 2 THEN {requests} ELSE {})
    BY <1>2, <1>3, <2>1, DeliveredInOrder
  <2> QED
    BY <1>2, <2>2
<1>7. (Outstanding \/ HeadInHand)' <=> Outstanding \/ (Processed < 2 /\ Processed + n >= 2)
  BY <1>0, <1>6 DEF Outstanding, HeadInHand
<1> QED
  BY <1>0, <1>1, <1>3, <1>4, <1>5, <1>7, WriteAnswered DEF RequestSeen

\* A write of the native layer leaves its request pending.
LEMMA NativeWriteAnswered ==
    ASSUME TypeOK, HookStates, PartsInOrder, ServerInOrder, Framed, Judged, Answered, "stopped" \notin quirks',
           connection = "open", NEW n \in 1 .. MaxWrite, NativeWrite(n)
    PROVE  Answered' /\ reported' = reported
<1>0. /\ n <= Len(todo) /\ writing = <<>> /\ Idle /\ pc' # "put"
      /\ UNCHANGED <<case, bodied, connection, requests, requestInfo, answers, arrived>>
      /\ todo' = Rest(todo, n) /\ writing' = Taken(n)
  BY DEF NativeWrite, HookStates, case, serverVars
<1>1. PICK seen \in processRequestBuffer(requestBuffer \o Taken(n)) :
          RequestSeen(seen) /\ Note(MarksOf(seen) \cup (IF connection = "closing" THEN {"raced"} ELSE {}))
  BY DEF NativeWrite
<1>2. n \in Nat \ {0} /\ writing' # <<>>
  <2>1. n \in Nat \ {0} /\ Len(Taken(n)) = n
    BY <1>0, PartsTaken
  <2> QED
    BY <1>0, <2>1
<1>3. Processed \in Nat /\ Gone = Processed /\ Processed + n \in Nat
  BY <1>0, <1>2, Measures DEF PartsInOrder
<1>4. SeenInOrder(seen, Processed + n)
  BY <1>0, SeenFramed DEF Framed
<1>5. ~seen.block
  BY <1>1, <1>4, BlockIsNoted
<1>6. Processed' = Processed + n /\ Gone' = Gone
  BY <1>0, <1>2, AfterTaken
<1>7. (Outstanding \/ HeadInHand)' <=> Outstanding \/ (Processed < 2 /\ Processed + n >= 2)
  BY <1>0, <1>2, <1>3, <1>6 DEF Outstanding, HeadInHand
<1> QED
  BY <1>0, <1>1, <1>3, <1>4, <1>5, <1>7, WriteAnswered DEF RequestSeen

\* The answer is in order as long as nothing of it changes.
LEMMA AnswerStays ==
    ASSUME UNCHANGED <<requests, responseBuffer, responseState, answers>>, AnswerInOrder
    PROVE  AnswerInOrder'
<1>1. HeadOf(0)' = HeadOf(0) /\ HeadOf(1)' = HeadOf(1) /\ BodyOf' = BodyOf
  BY DEF HeadOf, BodyOf
<1> QED
  BY <1>1 DEF AnswerInOrder

\* The end of a native write puts back the request that was pending.
LEMMA PutPendingAnswered ==
    ASSUME TypeOK, HookStates, PartsInOrder, ServerInOrder, Answered, Orderly', PutPending
    PROVE  Answered' /\ reported' = reported
<1>0. /\ pc = "put" /\ connection = "open" /\ pc' = "idle" /\ writing' = <<>> /\ requestInfo' = None /\ writing # <<>>
      /\ UNCHANGED <<denied, requests, requestState, responseBuffer, responseState, connection, answers, reported>>
  BY PutOrderly DEF PutPending, Announce, case, reportVars, HookStates, Idle
<1>1. /\ ~Blocked(requestInfo) /\ Deliver(writing) /\ todo' = todo
      /\ pendingRequest' = IF requestInfo = None THEN pendingRequest ELSE requestInfo
  BY PutOrderly DEF BlockWrite, Answered
<1>2. arrived' = arrived \cup (IF Gone < 2 /\ Processed >= 2 THEN {requests} ELSE {})
  <2>1. Gone \in Nat /\ Gone + Len(writing) = Processed /\ Processed <= SizeOf(requests) /\ writing \in Seq(RequestPart)
    BY InHand
  <2>2. /\ \A i \in 1 .. Len(writing) : writing[i] = PartOf(requests, Gone + i)
        /\ Gone + Len(writing) <= SizeOf(requests)
        /\ arrived \subseteq {requests} /\ whole \subseteq arrived
    BY <2>1 DEF PartsInOrder, ServerInOrder
  <2>3. arrived' = arrived \cup (IF Gone < 2 /\ Gone + Len(writing) >= 2 THEN {requests} ELSE {})
    BY <1>1, <2>1, <2>2, DeliveredInOrder
  <2> QED
    BY <2>1, <2>3
<1>3. (Outstanding \/ HeadInHand)' <=> Outstanding \/ HeadInHand
  BY <1>0, <1>2 DEF Outstanding, HeadInHand
<1>4. ~Blocked(pendingRequest)' /\ ~Blocked(requestInfo)'
  <2>1. ~Blocked(None)
    BY BlockedRequests DEF TypeOK
  <2> QED
    BY <1>0, <1>1, <2>1 DEF Answered, Blocked
<1>5. Expected => Expected'
  BY <1>0, <1>1, <1>3 DEF Expected
<1>6. AnswerInOrder => AnswerInOrder'
  BY <1>0, AnswerStays
<1> QED
  BY <1>0, <1>4, <1>5, <1>6 DEF Answered

\* A new request finds no answer under way.
LEMMA BeginAnswered ==
    ASSUME TypeOK, HookStates, PartsInOrder, ServerInOrder, Answered, Orderly', BeginRequest
    PROVE  Answered' /\ reported' = reported
<1>0. /\ Idle /\ connection = "open" /\ connection' = "open"
      /\ UNCHANGED <<denied, requestState, responseBuffer, responseState, pendingRequest, requestInfo, writing,
                     arrived, answers, reported>>
  BY DEF BeginRequest, case, hookVars, writeVars, serverVars, reportVars
<1>1. answers = <<>> /\ arrived = {}
  <2>1. PICK other : Note((IF todo = <<>> /\ arrived = {} /\ answers = <<>> THEN {} ELSE {"pipelined"})
                          \cup other)
    BY DEF BeginRequest
  <2> QED
    BY <2>1, NotedOrderly
<1>2. writing = <<>>
  BY <1>0 DEF HookStates
<1>3. ~(Outstanding \/ HeadInHand) /\ ~(Outstanding \/ HeadInHand)'
  BY <1>0, <1>1, <1>2 DEF Outstanding, HeadInHand
<1>4. Expected => Expected'
  BY <1>0, <1>3 DEF Expected
<1>5. AnswerInOrder => AnswerInOrder'
  <2>1. <<HeadOf(1)>> # <<>> /\ <<BodyOf>> # <<>>
    OBVIOUS
  <2> QED
    BY <1>0, <1>1, <2>1 DEF AnswerInOrder
<1>6. ~Blocked(pendingRequest)' /\ ~Blocked(requestInfo)'
  BY <1>0 DEF Answered, Blocked
<1> QED
  BY <1>0, <1>4, <1>5, <1>6 DEF Answered

\* The server sends the head and the body of one answer.
LEMMA ServerAnswersAnswered ==
    ASSUME TypeOK, HookStates, PartsInOrder, ServerInOrder, Answered,
           quirks' \cap {"interim", "unsized"} = {}, ServerAnswers
    PROVE  Answered' /\ reported' = reported
<1>0. UNCHANGED <<case, hookVars, writeVars, connection, requests, todo, reportVars>>
  BY DEF ServerAnswers
<1>1. UNCHANGED <<denied, bodied, requestState, responseBuffer, responseState, pendingRequest, requestInfo, pc,
                  writing, connection, reported>>
  BY <1>0 DEF case, hookVars, writeVars, reportVars
<1>2. PICK r \in arrived : \E answer \in SizedAnswers(r) \cup InterimAnswers(r) \cup UnsizedAnswers(r) :
        /\ Note((IF r \in whole THEN {} ELSE {"early"})
                \cup (IF answer \in InterimAnswers(r) THEN {"interim"} ELSE {})
                \cup (IF answer \in UnsizedAnswers(r) THEN {"unsized"} ELSE {}))
        /\ arrived' = arrived \ {r}
        /\ answers' = answers \o answer
  BY DEF ServerAnswers
<1>a. PICK answer \in SizedAnswers(r) \cup InterimAnswers(r) \cup UnsizedAnswers(r) :
        /\ Note((IF r \in whole THEN {} ELSE {"early"})
                \cup (IF answer \in InterimAnswers(r) THEN {"interim"} ELSE {})
                \cup (IF answer \in UnsizedAnswers(r) THEN {"unsized"} ELSE {}))
        /\ arrived' = arrived \ {r}
        /\ answers' = answers \o answer
  BY <1>2
<1>3. r = requests /\ answers = <<>>
  BY <1>2 DEF ServerInOrder
<1>4. answer \in SizedAnswers(r)
  BY <1>a, Zenon DEF Note
<1>5. CASE connection # "open"
  BY <1>1, <1>5 DEF Answered, Blocked
<1>6. CASE connection = "open"
  <2>1. answers' = <<HeadOf(0)>> \/ answers' = <<HeadOf(1), BodyOf>>
    <3>0. r \in Requests
      BY <1>2 DEF TypeOK
    <3>1. \A s \in Seq(ResponsePart) : <<>> \o s = s
      BY ConcatEmptySeq
    <3>2. /\ <<Answer(r, "head", 0, TRUE)>> \in Seq(ResponsePart)
          /\ <<Answer(r, "head", 1, FALSE), Answer(r, "body", 0, TRUE)>> \in Seq(ResponsePart)
      BY <3>0 DEF Answer, ResponsePart, Lengths
    <3>3. \/ answers' = <<Answer(r, "head", 0, TRUE)>>
          \/ answers' = <<Answer(r, "head", 1, FALSE), Answer(r, "body", 0, TRUE)>>
      BY <1>a, <1>3, <1>4, <3>1, <3>2 DEF SizedAnswers
    <3>4. (0 = 0) = TRUE /\ (1 = 0) = FALSE
      OBVIOUS
    <3> QED
      BY <1>3, <3>3, <3>4 DEF HeadOf, BodyOf
  <2>2. answers' # <<>>
    BY <2>1
  <2>3. Outstanding /\ Outstanding'
    BY <1>2, <2>2 DEF Outstanding
  <2>4. Expected => Expected'
    BY <1>0, <1>1, <2>3 DEF Expected
  <2>5. AnswerInOrder => AnswerInOrder'
    <3>1. <<BodyOf>> # <<>>
      OBVIOUS
    <3>2. HeadOf(0)' = HeadOf(0) /\ HeadOf(1)' = HeadOf(1) /\ BodyOf' = BodyOf
      BY <1>0 DEF HeadOf, BodyOf
    <3> QED
      BY <1>1, <1>3, <1>6, <2>1, <3>1, <3>2 DEF AnswerInOrder
  <2>6. ~Blocked(pendingRequest)' /\ ~Blocked(requestInfo)'
    BY <1>1 DEF Answered, Blocked
  <2> QED
    BY <1>1, <1>6, <2>4, <2>5, <2>6 DEF Answered
<1> QED
  BY <1>1, <1>5, <1>6

\* Closing, expiry and the rest read no answer.
LEMMA OthersAnswered ==
    ASSUME TypeOK, HookStates, PartsInOrder, ServerInOrder, Framed, Answered, Quiet', [Next]_vars,
           \/ ReadPending \/ onConnectionClosed \/ Close \/ Reopen \/ Expire \/ Forget \/ UNCHANGED vars
    PROVE  Answered' /\ reported' = reported
<1>0. UNCHANGED <<case, requests, reported>>
  BY CaseStays DEF ReadPending, onConnectionClosed, Close, Reopen, Expire, Forget, vars, reportVars
<1>1. UNCHANGED <<denied, bodied>>
  BY <1>0 DEF case
<1>2. ~Blocked(None)
  BY BlockedRequests DEF TypeOK
<1>3. \A info : Blocked(info)' <=> Blocked(info)
  BY <1>1 DEF Blocked
<1>4. ASSUME UNCHANGED <<arrived, answers, todo, writing>>
      PROVE  (Outstanding' <=> Outstanding) /\ (HeadInHand' <=> HeadInHand)
  BY <1>0, <1>1, <1>4 DEF Outstanding, HeadInHand, Gone, Processed, SizeOf
<1>10. CASE ReadPending \/ Forget \/ UNCHANGED vars
  <2>1. /\ requestInfo' = pendingRequest \/ UNCHANGED <<pc, requestInfo>>
        /\ UNCHANGED <<todo, requestState, responseBuffer, responseState, pendingRequest, writing, connection,
                       arrived, answers>>
    BY <1>10 DEF ReadPending, Forget, hookVars, writeVars, serverVars, vars
  <2>2. Expected => Expected'
    BY <1>0, <1>4, <2>1 DEF Expected
  <2>3. AnswerInOrder => AnswerInOrder'
    BY <1>0, <2>1, AnswerStays
  <2>4. ~Blocked(pendingRequest)' /\ ~Blocked(requestInfo)'
    BY <1>3, <2>1 DEF Answered, Blocked
  <2> QED
    BY <1>0, <2>1, <2>2, <2>3, <2>4 DEF Answered
<1>12. CASE onConnectionClosed
  <2>1. /\ responseBuffer' = <<>> /\ pendingRequest' = None /\ connection' = "closing"
        /\ Note((IF requestState.isHeaderParsed \/ responseState.isHeaderParsed THEN {"cut"} ELSE {})
            \cup (IF Idle THEN {} ELSE {"raced"}))
        /\ UNCHANGED <<responseState, requestInfo>>
    BY <1>12 DEF onConnectionClosed, writeVars
  <2>2. ~responseState.isHeaderParsed
    BY <2>1 DEF Note, Quiet
  <2> QED
    BY <1>0, <1>1, <1>2, <2>1, <2>2 DEF Answered, Blocked
<1>13. CASE Close \/ Reopen
  <2>1. /\ connection \in {"closing", "closed"} /\ connection' \in {"open", "closed"}
        /\ connection' = "open" => connection = "closed" /\ UNCHANGED <<arrived, answers>>
        /\ UNCHANGED <<requestState, responseBuffer, responseState, pendingRequest, writing, requestInfo>>
    BY <1>13 DEF Close, Reopen, hookVars, writeVars, serverVars
  <2>2. responseBuffer = <<>> /\ ~responseState.isHeaderParsed /\ ~requestState.isIgnored /\ writing = <<>>
    BY <2>1 DEF Answered, Framed, HookStates, ServerInOrder
  <2>3. ~Blocked(pendingRequest)' /\ ~Blocked(requestInfo)'
    BY <1>1, <2>1 DEF Answered, Blocked
  <2>4. CASE connection' = "open"
    <3>1. ~Outstanding /\ answers = <<>> /\ ~HeadInHand' /\ ~Outstanding'
      BY <2>1, <2>2, <2>4 DEF ServerInOrder, Outstanding, HeadInHand
    <3>2. Expected' /\ AnswerInOrder'
      BY <2>1, <2>2, <2>4, <3>1 DEF Expected, AnswerInOrder
    <3> QED
      BY <1>0, <2>3, <2>4, <3>2 DEF Answered
  <2>5. CASE connection' = "closed"
    BY <1>0, <2>1, <2>2, <2>3, <2>5 DEF Answered
  <2> QED
    BY <2>1, <2>4, <2>5
<1>14. CASE Expire
  <2>1. /\ UNCHANGED <<writing, requestInfo, pc, connection, todo, arrived, answers>>
        /\ pendingRequest' = pendingRequest \/ Note({"idle"})
    BY <1>14 DEF Expire, writeVars, serverVars
  <2>2. ~Note({"idle"})
    BY DEF Note, Quiet
  <2>3. pendingRequest' = pendingRequest
    BY <2>1, <2>2
  <2>4. UNCHANGED <<responseBuffer, responseState>> \/
        /\ responseBuffer = <<>> /\ ~responseState.isHeaderParsed
        /\ responseBuffer' = <<>> /\ responseState' = FreshState
    BY <1>14, <2>2 DEF Expire
  <2>5. requestState'.isIgnored => requestState.isIgnored
    BY <1>14 DEF Expire, FreshState
  <2>6. Expected => Expected'
    BY <1>0, <1>4, <2>1, <2>3, <2>5 DEF Expected
  <2>7. ~Blocked(pendingRequest)' /\ ~Blocked(requestInfo)'
    BY <1>1, <2>1, <2>3 DEF Answered, Blocked
  <2>8. CASE UNCHANGED <<responseBuffer, responseState>>
    <3>1. AnswerInOrder => AnswerInOrder'
      BY <1>0, <2>1, <2>8, AnswerStays
    <3> QED
      BY <1>0, <2>1, <2>6, <2>7, <2>8, <3>1 DEF Answered
  <2>9. CASE /\ responseBuffer = <<>> /\ ~responseState.isHeaderParsed
             /\ responseBuffer' = <<>> /\ responseState' = FreshState
    <3>1. ~responseState'.isHeaderParsed /\ ~responseState.isIgnored
      BY <2>9 DEF FreshState, HookStates
    <3>2. AnswerInOrder => AnswerInOrder'
      <4>1. HeadOf(0)' = HeadOf(0) /\ HeadOf(1)' = HeadOf(1) /\ BodyOf' = BodyOf
        BY <1>0 DEF HeadOf, BodyOf
      <4> QED
        BY <2>1, <2>9, <3>1, <4>1 DEF AnswerInOrder
    <3> QED
      BY <1>0, <2>1, <2>6, <2>7, <2>9, <3>1, <3>2 DEF Answered
  <2> QED
    BY <2>4, <2>8, <2>9
<1> QED
  BY <1>10, <1>12, <1>13, <1>14

\* Every step preserves the invariant about answers.
LEMMA NextAnswers ==
    ASSUME TypeOK, HookStates, OneAtATime, QuietInv, AnswersInv, [Next]_vars
    PROVE  AnswersInv'
<1> SUFFICES ASSUME Tame' PROVE Answered' /\ Matched'
  BY DEF AnswersInv
<1>1. Quiet' /\ Quiet /\ Orderly /\ Orderly' /\ Tame
  BY QuietBefore, QuirksStay DEF Tame
<1>2. PartsInOrder /\ ServerInOrder /\ Framed /\ Judged /\ Answered /\ Matched
  BY <1>1 DEF OneAtATime, QuietInv, AnswersInv
<1>3. "stopped" \notin quirks' /\ quirks' \cap {"interim", "unsized"} = {}
  BY DEF Tame
<1>4. ASSUME NEW n \in 1 .. MaxWrite, UnseenWrite(n) PROVE FALSE
  <2>1. Note({"unseen"})
    BY <1>4 DEF UnseenWrite
  <2> QED
    BY <1>1, <2>1, NotedOrderly
<1>5. ASSUME NEW n \in 1 .. MaxWrite, NativeWrite(n) PROVE Answered' /\ reported' = reported
  BY <1>1, <1>2, <1>3, <1>5, NativeWriteQuiet, NativeWriteAnswered
<1>6. ASSUME NEW n \in 1 .. MaxWrite, Read(n) PROVE Answered' /\ Matched'
  BY <1>1, <1>2, <1>6, ReadAnswered
<1>7. reported' = reported => Matched'
  BY <1>2, CaseStays DEF Matched, case
<1> QED
  BY <1>1, <1>2, <1>3, <1>4, <1>5, <1>6, <1>7, BeginAnswered, ServerAnswersAnswered, OthersAnswered,
     JavaWriteAnswered, PutPendingAnswered DEF Next

\* It holds before the first request.
LEMMA InitAnswers == Init => AnswersInv
<1> SUFFICES ASSUME Init PROVE Answered /\ Matched
  BY DEF AnswersInv
<1>1. ~Blocked(None)
  BY BlockedRequests DEF Init
<1>2. ~HeadInHand /\ ~Outstanding
  BY DEF Init, HeadInHand, Outstanding
<1>3. Expected /\ AnswerInOrder
  BY <1>2 DEF Init, Expected, AnswerInOrder, FreshState
<1>4. reported \in Seq(Report) /\ Len(reported) = 0
  BY DEF Init
<1> QED
  BY <1>1, <1>3, <1>4 DEF Init, Answered, Matched

\* What is reported is the final answer to the request it is reported with, with nothing of
\* another answer, and goes on to the answer's end when bodies are collected
\* (completeAndDispatchRequest and the pending request), but after the events AnswersMatch names.
THEOREM AnswersAreMatched == Spec => []AnswersMatch
<1>1. Init => ConnInv /\ AnswersInv
  BY InitConn, InitAnswers
<1>2. ConnInv /\ AnswersInv /\ [Next]_vars => (ConnInv /\ AnswersInv)'
  BY NextConn, NextAnswers DEF ConnInv
<1>3. AnswersInv => AnswersMatch
  <2> DEFINE disturbed == quirks \cap {"interim", "unsized", "stopped", "pipelined", "unframed", "repeated",
                                      "unseen", "cut", "raced", "idle"}
  <2> SUFFICES ASSUME AnswersInv, disturbed = {}, NEW i \in DOMAIN reported
               PROVE  /\ reported[i].final /\ reported[i].answers = {reported[i].request}
                      /\ collect => reported[i].whole
    BY DEF AnswersMatch
  <2>0. Tame
    BY DEF Tame, Quiet, Orderly
  <2>1. Matched
    BY <2>0 DEF AnswersInv
  <2>2. DOMAIN reported = 1 .. Len(reported)
    BY <2>1 DEF Matched
  <2> QED
    BY <2>1, <2>2 DEF Matched
<1> QED
  BY <1>1, <1>2, <1>3, PTL DEF Spec
=============================================================================
