----------------------- MODULE AbstractDelayingQueue -----------------------
(***************************************************************************)
(* What a DelayingInterface promises: "AddAfter adds an item to the        *)
(* workqueue after the indicated duration has passed".  A request stands   *)
(* for an accepted AddAfter.  It is never forgotten before its time has    *)
(* come, except that a later request for an item may be merged into an     *)
(* earlier one, and that shutting down cancels what is still waiting.      *)
(***************************************************************************)
EXTENDS AbstractWorkQueue, Naturals

CONSTANT Delays   \* the durations that callers ask for

VARIABLES clock,     \* the time
          requests   \* the waiting requests, pairs <<item, time it is due>>

delayedVars == <<pending, active, closed, clock, requests>>

DelayedInit == Init /\ clock = 0 /\ requests = {}

Delay(i, d) == /\ ~closed
               /\ requests' = requests \cup {<<i, clock + d>>}
               /\ UNCHANGED <<pending, active, closed, clock>>

\* A request whose time has come is served: the item is pending, unless the
\* queue has been closed in the meantime.
Serve(i, t) == /\ <<i, t>> \in requests
               /\ t <= clock
               /\ requests' = requests \ {<<i, t>>}
               /\ pending' = IF closed THEN pending ELSE pending \cup {i}
               /\ UNCHANGED <<active, closed, clock>>

\* A request is dropped in favour of another that is due no later.
Merge(i, t, u) == /\ {<<i, t>>, <<i, u>>} \subseteq requests
                  /\ t < u
                  /\ requests' = requests \ {<<i, u>>}
                  /\ UNCHANGED <<pending, active, closed, clock>>

Cancel == /\ closed
          /\ requests' \subseteq requests
          /\ UNCHANGED <<pending, active, closed, clock>>

Tick == /\ clock' = clock + 1
        /\ UNCHANGED <<pending, active, closed, requests>>

DelayedNext ==
  \/ Next /\ UNCHANGED <<clock, requests>>
  \/ \E i \in Items, d \in Delays : Delay(i, d)
  \/ \E r \in requests : Serve(r[1], r[2])
  \/ \E r, s \in requests : r[1] = s[1] /\ Merge(r[1], r[2], s[2])
  \/ Cancel
  \/ Tick

DelayedSpec == DelayedInit /\ [][DelayedNext]_delayedVars
=============================================================================
