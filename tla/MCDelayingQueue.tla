-------------------------- MODULE MCDelayingQueue --------------------------
(* DelayingQueue on small instances.  The channel has room for one entry,   *)
(* so that callers block in AddAfter.                                       *)
EXTENDS DelayingQueue
=============================================================================
