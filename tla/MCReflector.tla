---------------------------- MODULE MCReflector ----------------------------
(* Reflector on small instances.                                            *)
EXTENDS Reflector
=============================================================================
