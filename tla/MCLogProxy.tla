----------------------------- MODULE MCLogProxy -----------------------------
(* Three entries and three lives of the service: see LogProxy.cfg.         *)
EXTENDS LogProxy
=============================================================================
