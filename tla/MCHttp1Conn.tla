----------------------------- MODULE MCHttp1Conn -----------------------------
(* Two requests on one key, in every split of their writes and answers:    *)
(* the values of the constants are in Http1Conn.cfg.                       *)
EXTENDS Http1Conn
=============================================================================
