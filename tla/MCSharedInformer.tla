-------------------------- MODULE MCSharedInformer --------------------------
(* SharedInformer on small instances.                                       *)
EXTENDS SharedInformer
=============================================================================
