------------------------- MODULE MCVisibilityDaemon -------------------------
(* Two packages, one of which sees everything: see VisibilityDaemon.cfg.   *)
EXTENDS VisibilityDaemon
=============================================================================
