---------------------------- MODULE MCWorkQueue ----------------------------
(* WorkQueue on small instances.  The state space is finite by itself: an   *)
(* item is queued at most once.                                             *)
EXTENDS WorkQueue
=============================================================================
