-------------------------- MODULE AbstractWorkQueue --------------------------
(***************************************************************************)
(* What the package comment of util/workqueue (doc.go) promises to a       *)
(* controller, without the queue, the condition variable and the two sets: *)
(* an item that was added stays pending until some worker starts on it, no *)
(* item is worked on by two workers at once ("stingy"), an item may become *)
(* pending again while it is worked on, and adding a pending item again    *)
(* changes nothing.                                                        *)
(***************************************************************************)
CONSTANTS Items, Workers, NoItem

VARIABLES pending,  \* the items added and not yet started on
          active,   \* the item each worker works on, or NoItem
          closed    \* new items are ignored

absVars == <<pending, active, closed>>

Init == /\ pending = {}
        /\ active = [w \in Workers |-> NoItem]
        /\ closed = FALSE

\* An added item becomes pending, unless the queue has been closed.
Request(i) == /\ ~closed
              /\ pending' = pending \cup {i}
              /\ UNCHANGED <<active, closed>>

\* An idle worker starts on a pending item that nobody is working on.
Start(w, i) == /\ active[w] = NoItem
               /\ i \in pending
               /\ \A v \in Workers : active[v] # i
               /\ pending' = pending \ {i}
               /\ active' = [active EXCEPT ![w] = i]
               /\ UNCHANGED closed

Finish(w) == /\ active[w] # NoItem
             /\ active' = [active EXCEPT ![w] = NoItem]
             /\ UNCHANGED <<pending, closed>>

Close == /\ closed' = TRUE
         /\ UNCHANGED <<pending, active>>

Next == \/ \E i \in Items : Request(i)
        \/ \E w \in Workers, i \in Items : Start(w, i)
        \/ \E w \in Workers : Finish(w)
        \/ Close

Spec == Init /\ [][Next]_absVars
=============================================================================
