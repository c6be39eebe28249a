---------------------------- MODULE MCEtcd3Store ----------------------------
(* The storage of one key on a small instance. *)
EXTENDS Etcd3Store

CONSTANTS
    v1, v2,   \* two versions of an object
    w         \* an object with the same name and another UID

MCValues == {v1, v2, w}
All == MCValues \cup {Absent}
Same == {v1, v2}

Op(kind, ignore, pre, f) == [kind |-> kind, ignore |-> ignore, pre |-> pre, f |-> f]

MCOps ==
    { Op("create", TRUE, All, [x \in All |-> IF x = Absent THEN w ELSE Failed]),
      \* changes a field of the first object, leaves the second alone, or creates it
      Op("update", TRUE, All, [x \in All |-> IF x = w THEN w ELSE IF x = v1 THEN v2 ELSE v1]),
      \* sets a field of the first object
      Op("update", FALSE, Same, [x \in All |-> IF x = w THEN Failed ELSE v2]),
      \* the object with the new UID, which is as it should be
      Op("update", FALSE, {w}, [x \in All |-> IF x = w THEN w ELSE Failed]),
      Op("delete", FALSE, Same, [x \in All |-> Absent]) }
=============================================================================
