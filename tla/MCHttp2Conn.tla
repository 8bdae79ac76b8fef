----------------------------- MODULE MCHttp2Conn -----------------------------
(* Http2Conn for TLC: the stream ids are interchangeable. *)
EXTENDS Http2Conn

StreamIds == Permutations(Streams)
=============================================================================
