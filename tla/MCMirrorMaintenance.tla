-------------------------- MODULE MCMirrorMaintenance --------------------------
(* MirrorMaintenance with three places: two directories below sessions/ and  *)
(* archived_sessions/, which find reaches in this order.                     *)
EXTENDS MirrorMaintenance

MCRoots == <<"sessions/1", "sessions/2", "archived_sessions">>
================================================================================
