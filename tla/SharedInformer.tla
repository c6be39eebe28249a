--------------------------- MODULE SharedInformer ---------------------------
(***************************************************************************)
(* The shared informer of client-go (tools/cache/shared_informer.go): the  *)
(* cache of Reflector and the listeners that are told of its changes.      *)
(* While Pop holds the lock, HandleDeltas updates the indexer and hands a  *)
(* notification per delta to the listeners.  Each of them has an unbounded *)
(* buffer and a goroutine that calls the event handler.                    *)
(***************************************************************************)
EXTENDS Reflector

CONSTANTS Listeners,   \* the event handlers that may be added
          Resyncers,   \* those of them with a resync period
          MaxResyncs   \* bound: how often a resync is due

ASSUME ListenersAssumption == Resyncers \subseteq Listeners /\ MaxResyncs \in Nat

VARIABLES resyncing,  \* the resync goroutine is about to call Resync
          resyncs,    \* how often it has looked
          listeners,  \* p.listeners
          syncing,    \* p.syncingListeners
          pending,    \* the notifications on their way to each handler
          seen        \* what each handler makes of the notifications it got

listenerVars == <<resyncing, resyncs, listeners, syncing, pending, seen>>
informerVars == <<cacheVars, listenerVars>>

Notification == [key : Keys, kind : {"add", "update", "delete"}, version : Nat]

InformerTypeOK ==
  /\ CacheTypeOK
  /\ resyncing \in BOOLEAN /\ resyncs \in Nat
  /\ listeners \in SUBSET Listeners /\ syncing \in SUBSET listeners
  /\ pending \in [Listeners -> Seq(Notification)]
  /\ seen \in [Listeners -> Collection]

-----------------------------------------------------------------------------
\* What HandleDeltas has to say about the deltas of k, one by one.
Notifications(k) ==
  LET deltas == items[k]
      before(j) == IF j = 1 THEN indexer[k] ELSE deltas[j - 1].version
  IN [j \in DOMAIN deltas |->
        [key |-> k, version |-> deltas[j].version,
         kind |-> IF deltas[j].type = "Deleted" THEN "delete"
                  ELSE IF before(j) = Absent THEN "add" ELSE "update"]]

\* Mutant of Distributed: only the syncing listeners are told of anything.
DistributedSyncing(k, l) ==
  IF l \in syncing THEN Notifications(k) ELSE <<>>

\* The deltas of k that listener l is told of: distribute sends a notification
\* about a Sync to the syncing listeners only.
Told(k, l) == {j \in DOMAIN items[k] : l \in syncing \/ items[k][j].type # "Sync"}

\* How many elements of S there are up to j.
Place(S, j) == Cardinality({i \in S : i <= j})

\* What distribute sends to listener l, in the order of the deltas.
Distributed(k, l) ==
  LET told == Told(k, l)
  IN [n \in 1 .. Cardinality(told) |->
        Notifications(k)[CHOOSE j \in told : Place(told, j) = n]]

\* Pop with HandleDeltas as its process function.
HandleDeltas ==
  /\ Process
  /\ pending' = [l \in Listeners |->
                   IF l \in listeners THEN pending[l] \o Distributed(Head(queue), l)
                   ELSE pending[l]]
  /\ UNCHANGED <<resyncing, resyncs, listeners, syncing, seen>>

\* Mutant of AddEventHandler: the listener is made a syncing one only.
AddEventHandlerNotListed(l) ==
  /\ l \notin listeners
  /\ syncing' = syncing \cup {l}
  /\ UNCHANGED <<cacheVars, resyncing, resyncs, listeners, pending, seen>>

\* Mutant of AddEventHandler: the new handler is not told what there is.
AddEventHandlerSilent(l) ==
  /\ l \notin listeners /\ ~(popper = "exit" /\ reflector = "done")
  /\ listeners' = listeners \cup {l} /\ syncing' = syncing \cup {l}
  /\ UNCHANGED <<cacheVars, resyncing, resyncs, pending, seen>>

\* AddEventHandler, before or after Run, under blockDeltas: the new listener is
\* sent an add for everything in the indexer.  An informer takes none when its
\* controller has returned.
AddEventHandler(l) ==
  /\ l \notin listeners /\ ~(popper = "exit" /\ reflector = "done")
  /\ listeners' = listeners \cup {l} /\ syncing' = syncing \cup {l}
  /\ \E order \in SetToSeqs(Known) :
       pending' = [pending EXCEPT ![l] =
         [j \in DOMAIN order |-> [key |-> order[j], kind |-> "add",
                                  version |-> indexer[order[j]]]]]
  /\ UNCHANGED <<cacheVars, resyncing, resyncs, seen>>

\* The listener's goroutines: pop and run pass the oldest notification to the
\* handler.
Notify(l) ==
  /\ pending[l] # <<>>
  /\ LET n == Head(pending[l]) IN seen' = [seen EXCEPT ![l][n.key] = n.version]
  /\ pending' = [pending EXCEPT ![l] = Tail(@)]
  /\ UNCHANGED <<cacheVars, resyncing, resyncs, listeners, syncing>>

\* The resync goroutine: shouldResync notes which listeners are due, and if
\* there are any, Resync follows.  The goroutine has a timer only if some
\* listener has a resync period.
ShouldResync(due) ==
  /\ Resyncers # {} /\ reflector = "watch" /\ ~resyncing /\ resyncs < MaxResyncs
  /\ due \subseteq listeners
  /\ syncing' = due
  /\ resyncing' = (due # {}) /\ resyncs' = resyncs + 1
  /\ UNCHANGED <<cacheVars, listeners, pending, seen>>

ResyncListeners ==
  /\ resyncing
  /\ ResyncStore
  /\ resyncing' = FALSE
  /\ UNCHANGED <<resyncs, listeners, syncing, pending, seen>>

-----------------------------------------------------------------------------
InformerInit ==
  /\ CacheInit
  /\ resyncing = FALSE /\ resyncs = 0
  /\ listeners = {} /\ syncing = {}
  /\ pending = [l \in Listeners |-> <<>>]
  /\ seen = [l \in Listeners |-> [k \in Keys |-> Absent]]

InformerNext ==
  \/ CacheStep /\ UNCHANGED listenerVars
  \/ HandleDeltas
  \/ \E due \in SUBSET Resyncers : ShouldResync(due)
  \/ ResyncListeners
  \/ \E l \in Listeners : AddEventHandler(l)
  \/ \E l \in Listeners : Notify(l)

InformerSpec == InformerInit /\ [][InformerNext]_informerVars

\* As in Reflector; a resync that is due is done, and handlers return.
InformerFairness ==
  /\ SF_informerVars((\E r \in DOMAIN history : List(r)) /\ UNCHANGED listenerVars)
  /\ SF_informerVars((\E k \in Keys : WatchEvent(k)) /\ UNCHANGED listenerVars)
  /\ WF_informerVars((ReflectorStops \/ CloseQueue) /\ UNCHANGED listenerVars)
  /\ WF_informerVars(ProcessWaits /\ UNCHANGED listenerVars)
  /\ WF_informerVars(HandleDeltas)
  /\ SF_informerVars(ResyncListeners)
  /\ \A l \in Listeners : WF_informerVars(Notify(l))

InformerFairSpec == InformerSpec /\ InformerFairness

-----------------------------------------------------------------------------
(* Properties *)

\* What listener l knows of k once its pending notifications are delivered.
View(l, k) ==
  LET about == {n \in DOMAIN pending[l] : pending[l][n].key = k}
  IN IF about = {} THEN seen[l][k]
     ELSE pending[l][CHOOSE n \in about : \A m \in about : m <= n].version

\* Until the first resync singles out the listeners that are due, every handler,
\* also one that is added late, has been or is being told of every change of the
\* cache, and of nothing else, in an order that leaves it with the state of the
\* cache.
HandlersInformed ==
  resyncs = 0 => \A l \in listeners, k \in Keys : View(l, k) = indexer[k]

\* Whatever a handler misses between resyncs, it is always told of deletions:
\* it never keeps an object that the cache has lost.
NoGhostObjects ==
  \A l \in listeners, k \in Keys : View(l, k) # Absent => indexer[k] # Absent

\* Until then, too, a handler gets OnAdd for the objects it does not know and for
\* no others, and never OnUpdate or OnDelete for an object it was not told of.
AddedFirst ==
  \A l \in listeners : resyncs = 0 /\ pending[l] # <<>> =>
    LET n == Head(pending[l]) IN (n.kind = "add") <=> (seen[l][n.key] = Absent)

\* shared_informer.go:76, "For every update to the SharedInformer's local cache
\* and for every client, eventually either the SharedInformer is stopped or the
\* client is notified of the update."  Stated for the handlers without a resync
\* period, to which nothing is ever sent a second time.
ClientsNotified ==
  \A l \in Listeners \ Resyncers, k \in Keys :
    <>[](stopCh \/ l \notin listeners \/ seen[l][k] = indexer[k])
=============================================================================
