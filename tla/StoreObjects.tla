---------------------------- MODULE StoreObjects ----------------------------
(* The objects and operations that the storage specifications have in common. *)
EXTENDS Naturals

CONSTANTS
    Clients,   \* callers
    Values,    \* stored objects, without their resourceVersion
    Absent,    \* no object is stored
    Failed,    \* tryUpdate or validateDeletion returns an error
    Ops        \* what may be called

\* f is what the operation makes of an object, pre the objects that have the UID of its
\* Preconditions, ignore says that it may find no object.
Operation == [kind: {"create", "update", "delete"}, ignore: BOOLEAN,
              pre: SUBSET (Values \cup {Absent}),
              f: [Values \cup {Absent} -> Values \cup {Absent, Failed}]]

ASSUME StoreAssumption ==
    /\ Absent \notin Values /\ Failed \notin Values \cup {Absent}
    /\ Ops \subseteq Operation /\ Ops # {}
    /\ \A o \in Ops :
         /\ o.kind = "create" => /\ o.ignore /\ o.pre = Values \cup {Absent}
                                 /\ o.f[Absent] \in Values /\ \A v \in Values : o.f[v] = Failed
         /\ o.kind = "update" => \A v \in Values \cup {Absent} : o.f[v] # Absent
         /\ o.kind = "delete" => ~o.ignore /\ \A v \in Values : o.f[v] \in {Absent, Failed}

\* rv is the resourceVersion the caller's object must have, 0 for any.
Request == [op: Ops, rv: Nat]

\* The object has a resourceVersion that the caller accepts, or is to be created.
Expected(q, rev) == rev = 0 \/ q.rv \in {0, rev}

NoRequest == [op |-> CHOOSE o \in Ops : TRUE, rv |-> 0]
=============================================================================
