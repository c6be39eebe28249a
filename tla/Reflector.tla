----------------------------- MODULE Reflector -----------------------------
(***************************************************************************)
(* The cache of an informer: the Reflector (tools/cache/reflector.go) lists*)
(* and watches the API server and feeds the DeltaFIFO, and the controller's*)
(* processLoop (controller.go) pops keys and applies their deltas to the   *)
(* indexer.  Listeners are added in SharedInformer.                        *)
(*                                                                         *)
(* The API server is its history: the collection after each write.  Place  *)
(* r of the history is resource version r.  A list is served from a cache  *)
(* (ResourceVersion "0") and may be as old as it likes; a watch delivers   *)
(* the writes after its start in order, and may end at any time.           *)
(***************************************************************************)
EXTENDS DeltaFIFO

CONSTANTS MaxVersion,  \* bound: the last resource version
          MaxLists     \* bound: how often the reflector lists

ASSUME ReflectorAssumption == MaxVersion \in Nat /\ MaxLists \in Nat

VARIABLES history,    \* the API server's collection, by resource version
          reflector,  \* where the reflector is: before a list, in a watch, done
          version,    \* its resourceVersion
          lists,      \* how often it has listed
          stopCh,     \* stopCh is closed
          missed,     \* auxiliary: keys for which the last Replace lost a change
          unpopped    \* auxiliary: keys of the first list not popped yet

auxVars   == <<missed, unpopped>>
cacheVars == <<fifoVars, indexer, history, reflector, version, lists, stopCh, auxVars>>

Collection == [Keys -> Nat]

CacheTypeOK ==
  /\ FifoTypeOK
  /\ history \in Seq(Collection)
  /\ reflector \in {"list", "watch", "done"}
  /\ version \in DOMAIN history /\ lists \in Nat
  /\ stopCh \in BOOLEAN
  /\ missed \in SUBSET Keys /\ unpopped \in SUBSET Keys

-----------------------------------------------------------------------------
(* The API server. *)

\* A write creates or updates the object, or deletes it.
Write(k, v) ==
  /\ Len(history) < MaxVersion
  /\ v \in {Len(history) + 1, Absent} /\ v # Last(history)[k]
  /\ history' = Append(history, [Last(history) EXCEPT ![k] = v])
  /\ UNCHANGED <<fifoVars, indexer, reflector, version, lists, stopCh, auxVars>>

-----------------------------------------------------------------------------
(* The reflector. *)

\* The keys whose queued deltas will leave the indexer with something else than
\* the list says: an object that was queued for addition and is not in the
\* list any more (Replace only looks for deletions among the known objects),
\* and one that is in the list while its deletion is queued (the Sync is
\* ignored).
Overlooked(list) ==
  {k \in Keys : \/ /\ list[k] = Absent /\ k \notin Known
                   /\ Applied(items[k], Absent) # Absent
                \/ list[k] # Absent /\ WillObjectBeDeleted(k)}

\* ListAndWatch up to the watch: list at some version, then syncWith.
List(r) ==
  /\ reflector = "list" /\ lists < MaxLists
  /\ Replace(history[r])
  /\ version' = r /\ reflector' = "watch" /\ lists' = lists + 1
  /\ missed' = Overlooked(history[r])
  /\ unpopped' = IF populated THEN unpopped ELSE {k \in Keys : history[r][k] # Absent}
  /\ UNCHANGED <<history, stopCh>>

\* watchHandler: the next event of the watch, which is about key k.
WatchEvent(k) ==
  LET before == history[version][k]  after == history[version + 1][k]
  IN /\ reflector = "watch" /\ version < Len(history)
     /\ before # after
     /\ \/ before = Absent /\ AddDelta(k, "Added", after)
        \/ before # Absent /\ after # Absent /\ AddDelta(k, "Updated", after)
        \/ after = Absent /\ Delete(k)
     /\ version' = version + 1
     /\ missed' = missed \ {k}
     /\ UNCHANGED <<history, reflector, lists, stopCh, unpopped>>

\* The watch fails: ListAndWatch returns and Run calls it again.
WatchFails ==
  /\ reflector = "watch" /\ lists < MaxLists
  /\ reflector' = "list"
  /\ UNCHANGED <<fifoVars, indexer, history, version, lists, stopCh, auxVars>>

ReflectorStops ==
  /\ stopCh /\ reflector # "done"
  /\ reflector' = "done"
  /\ UNCHANGED <<fifoVars, indexer, history, version, lists, stopCh, auxVars>>

\* The goroutine that ListAndWatch starts after a list resyncs now and then.
ResyncStore ==
  /\ lists > 0
  /\ Resync
  /\ UNCHANGED <<history, reflector, version, lists, stopCh, auxVars>>

-----------------------------------------------------------------------------
(* The controller. *)

Process ==
  /\ PopItem
  /\ unpopped' = unpopped \ {Head(queue)}
  /\ UNCHANGED <<history, reflector, version, lists, stopCh, missed>>

ProcessWaits ==
  /\ PopEmpty \/ PopWait
  /\ UNCHANGED <<history, reflector, version, lists, stopCh, auxVars>>

\* Run is told to stop, and a goroutine of controller.Run closes the queue.
Stop ==
  /\ ~stopCh
  /\ stopCh' = TRUE
  /\ UNCHANGED <<fifoVars, indexer, history, reflector, version, lists, auxVars>>

CloseQueue ==
  /\ stopCh /\ ~closed
  /\ Close
  /\ UNCHANGED <<history, reflector, version, lists, stopCh, auxVars>>

-----------------------------------------------------------------------------
CacheInit ==
  /\ FifoInit
  /\ history = <<[k \in Keys |-> Absent]>>
  /\ reflector = "list" /\ version = 1 /\ lists = 0
  /\ stopCh = FALSE
  /\ missed = {} /\ unpopped = {}

\* Everything but Process and ResyncStore, which involve the listeners.
CacheStep ==
  \/ \E k \in Keys, v \in 0..MaxVersion : Write(k, v)
  \/ \E r \in DOMAIN history : List(r)
  \/ \E k \in Keys : WatchEvent(k)
  \/ WatchFails
  \/ ReflectorStops
  \/ ProcessWaits
  \/ Stop
  \/ CloseQueue

CacheNext == CacheStep \/ Process \/ ResyncStore

CacheSpec == CacheInit /\ [][CacheNext]_cacheVars

\* The goroutines run, the API server answers and a watch delivers what has
\* been written ("unless prevented by persistent communication problems").  A
\* Go mutex does not starve who waits for it, hence strong fairness for the
\* steps that need f.lock while Pop takes and releases it.
\* Nobody has to write or to stop the informer, a watch does not have to fail,
\* and a resync is not relied upon.
CacheFairness ==
  /\ SF_cacheVars(\E r \in DOMAIN history : List(r))
  /\ SF_cacheVars(\E k \in Keys : WatchEvent(k))
  /\ WF_cacheVars(ReflectorStops)
  /\ WF_cacheVars(Process)
  /\ WF_cacheVars(ProcessWaits)
  /\ WF_cacheVars(CloseQueue)

CacheFairSpec == CacheSpec /\ CacheFairness

-----------------------------------------------------------------------------
(* Properties *)

\* The cache on its way: once the queued deltas are applied, the indexer holds
\* the collection as of the reflector's resource version, for every key but
\* the ones that the last Replace overlooked.  So whatever the order of lists,
\* stale lists, watch events, pops and resyncs, nothing but Replace loses a
\* change, and the next event about a key makes up for it.
CacheExact ==
  \A k \in Keys \ missed : Applied(items[k], indexer[k]) = history[version][k]

\* A write changes one object; with it CacheExact is inductive.
OneChangeAtATime ==
  \A r \in 1 .. Len(history) - 1 : \A j, k \in Keys :
    history[r][j] # history[r + 1][j] /\ history[r][k] # history[r + 1][k] => j = k

CacheInv == CacheTypeOK /\ OneChangeAtATime /\ CacheExact

\* HasSynced (shared_informer.go): "the shared informer's store has been
\* informed by at least one full LIST".  Every key of the first list has been
\* popped, whatever else was queued in between.
SyncedMeansListed == HasSynced => lists > 0 /\ unpopped = {}

\* The comment on SharedInformer: the "cache is eventually consistent with the
\* authoritative state".  It converges for what no Replace overlooked.
Converges ==
  <>[](stopCh \/ \A k \in Keys \ missed : indexer[k] = Last(history)[k])

\* shared_informer.go:59, "if a collection of objects is henceforeth unchanging
\* ... that SharedInformer's cache eventually holds an exact copy of that
\* collection", and :66, an object that is "eventually removed from the
\* authoritative state" is "eventually ... removed from the local cache".
ExactCopy == <>[](stopCh \/ indexer = Last(history))

\* delta_fifo.go:416, "When Close() is called, the f.closed is set and the
\* condition is broadcasted.  Which causes this loop to continue and return
\* from the Pop()."
PopReturns == closed ~> popper = "exit"
=============================================================================
