-------------------------- MODULE SchedulerObjects --------------------------
(* The objects that the scheduler's queue and its cache have in common. *)
EXTENDS Naturals, Sequences, FiniteSets

CONSTANTS
    Pods,     \* pods, each with a name and a UID of its own
    Nodes,    \* node names
    NoNode    \* spec.nodeName of an unassigned pod

ASSUME NoNodeAssumption == NoNode \notin Nodes
=============================================================================
