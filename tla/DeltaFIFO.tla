----------------------------- MODULE DeltaFIFO -----------------------------
(***************************************************************************)
(* The DeltaFIFO of client-go (tools/cache/delta_fifo.go): for every key   *)
(* the changes (deltas) since the key was last popped, and the order in    *)
(* which keys are popped.  Its knownObjects is the informer's indexer,     *)
(* which the process function of Pop updates.                              *)
(*                                                                         *)
(* An object is its resource version, a positive number; Absent (0) is the *)
(* version of an object that does not exist.  The object in a Deleted      *)
(* delta is left out.                                                      *)
(*                                                                         *)
(* Operations run under f.lock and are one action each.  Pop gives the     *)
(* lock up in cond.Wait(); the step from its last look at IsClosed() to    *)
(* the wait is an action of its own, because Close() does not take f.lock. *)
(***************************************************************************)
EXTENDS SequencesExt

CONSTANT Keys   \* the keys of the objects

ASSUME KeysAssumption == IsFiniteSet(Keys)

VARIABLES items,      \* f.items; <<>> stands for no entry
          queue,      \* f.queue
          populated,  \* f.populated
          initialPopulationCount, \* f.initialPopulationCount
          closed,     \* f.closed
          popper,     \* where the goroutine that calls Pop is
          indexer     \* f.knownObjects: the version of each key

fifoVars == <<items, queue, populated, initialPopulationCount, closed, popper>>

Absent == 0

Delta == [type : {"Added", "Updated", "Sync"}, version : Nat \ {Absent}]
           \cup [type : {"Deleted"}, version : {Absent}]

Deleted == [type |-> "Deleted", version |-> Absent]

FifoTypeOK ==
  /\ items \in [Keys -> Seq(Delta)]
  /\ queue \in Seq(Keys)
  /\ populated \in BOOLEAN /\ closed \in BOOLEAN
  /\ initialPopulationCount \in Nat
  /\ popper \in {"run", "parking", "wait", "exit"}
  /\ indexer \in [Keys -> Nat]

Queued == {k \in Keys : items[k] # <<>>}
Known  == {k \in Keys : indexer[k] # Absent}

-----------------------------------------------------------------------------
\* f.lock is free: Pop holds it when it is about to wait.
Unlocked == popper # "parking"

\* Mutant of Broadcast: nobody is woken.
BroadcastNobody == UNCHANGED popper

\* f.cond.Broadcast().  (An ignored delta does not broadcast in the code; it
\* makes no difference, since Pop does not wait while the key has deltas.)
Broadcast == popper' = IF popper = "wait" THEN "run" ELSE popper

\* willObjectBeDeletedLocked
WillObjectBeDeleted(k) == items[k] # <<>> /\ Last(items[k]).type = "Deleted"

\* Mutant of NewDeltas: deletions are not deduplicated.
NewDeltasNoDedup(k, d) ==
  IF WillObjectBeDeleted(k) /\ d.type = "Sync"
  THEN items[k] ELSE Append(items[k], d)

\* The deltas of k after queueActionLocked: a Sync is ignored after a Deleted,
\* and of two Deleted in a row dedupDeltas keeps one.
NewDeltas(k, d) ==
  IF WillObjectBeDeleted(k) /\ d.type \in {"Sync", "Deleted"}
  THEN items[k] ELSE Append(items[k], d)

\* Mutant of QueueAction: a key is queued for every delta.
QueueActionAgain(k, d) ==
  /\ items' = [items EXCEPT ![k] = NewDeltas(k, d)]
  /\ queue' = Append(queue, k)
  /\ Broadcast

\* queueActionLocked for one key.
QueueAction(k, d) ==
  /\ items' = [items EXCEPT ![k] = NewDeltas(k, d)]
  /\ queue' = IF k \in Queued THEN queue ELSE Append(queue, k)
  /\ Broadcast

\* queueActionLocked for every key of first, in some order, and then for every
\* key of second; delta gives the delta of each.
QueueActions(first, second, delta) ==
  /\ items' = [k \in Keys |-> IF k \in first \cup second
                              THEN NewDeltas(k, delta[k]) ELSE items[k]]
  /\ \E p \in SetToSeqs(first \ Queued), q \in SetToSeqs(second \ Queued) :
       queue' = queue \o p \o q
  /\ IF first \cup second = {} THEN UNCHANGED popper ELSE Broadcast

\* Add and Update.
AddDelta(k, type, version) ==
  /\ Unlocked
  /\ populated' = TRUE
  /\ QueueAction(k, [type |-> type, version |-> version])
  /\ UNCHANGED <<initialPopulationCount, closed, indexer>>

\* Mutant of Delete: only f.items is consulted.
DeleteQueuedOnly(k) ==
  /\ Unlocked
  /\ populated' = TRUE
  /\ IF k \in Queued THEN QueueAction(k, Deleted)
     ELSE UNCHANGED <<items, queue, popper>>
  /\ UNCHANGED <<initialPopulationCount, closed, indexer>>

Delete(k) ==
  /\ Unlocked
  /\ populated' = TRUE
  /\ IF k \in Known \cup Queued THEN QueueAction(k, Deleted)
     ELSE UNCHANGED <<items, queue, popper>>
  /\ UNCHANGED <<initialPopulationCount, closed, indexer>>

\* Mutant of Replace: the initial population is not counted.
ReplaceNotCounted(list) ==
  LET listed == {k \in Keys : list[k] # Absent}
      gone   == Known \ listed
  IN /\ Unlocked
     /\ QueueActions(listed, gone,
          [k \in Keys |-> IF k \in listed
                          THEN [type |-> "Sync", version |-> list[k]] ELSE Deleted])
     /\ populated' = TRUE
     /\ UNCHANGED <<initialPopulationCount, closed, indexer>>

\* A Sync for everything in the list, a Deleted for every known object that is
\* not.  list gives the version of each key.
Replace(list) ==
  LET listed == {k \in Keys : list[k] # Absent}
      gone   == Known \ listed
  IN /\ Unlocked
     /\ QueueActions(listed, gone,
          [k \in Keys |-> IF k \in listed
                          THEN [type |-> "Sync", version |-> list[k]] ELSE Deleted])
     /\ populated' = TRUE
     /\ initialPopulationCount' =
          IF populated THEN initialPopulationCount
          ELSE Cardinality(listed) + Cardinality(gone)
     /\ UNCHANGED <<closed, indexer>>

\* Mutant of Resync: objects with queued deltas are synced, too.
ResyncAll ==
  /\ Unlocked
  /\ QueueActions(Known, {}, [k \in Keys |-> [type |-> "Sync", version |-> indexer[k]]])
  /\ UNCHANGED <<populated, initialPopulationCount, closed, indexer>>

\* A Sync for every known object that has nothing queued.
Resync ==
  /\ Unlocked
  /\ QueueActions(Known \ Queued, {},
       [k \in Keys |-> [type |-> "Sync", version |-> indexer[k]]])
  /\ UNCHANGED <<populated, initialPopulationCount, closed, indexer>>

\* Close takes closedLock only.
Close ==
  /\ closed' = TRUE
  /\ Broadcast
  /\ UNCHANGED <<items, queue, populated, initialPopulationCount, indexer>>

-----------------------------------------------------------------------------
(* Pop, called in a loop by the controller's processLoop. *)

\* Nothing is queued: processLoop returns if the queue is closed, and Pop is
\* about to wait if it is not.
PopEmpty ==
  /\ popper = "run" /\ queue = <<>>
  /\ popper' = IF closed THEN "exit" ELSE "parking"
  /\ UNCHANGED <<items, queue, populated, initialPopulationCount, closed, indexer>>

\* cond.Wait(): the goroutine is registered for the next Broadcast, and f.lock
\* is released.
PopWait ==
  /\ popper = "parking"
  /\ popper' = "wait"
  /\ UNCHANGED <<items, queue, populated, initialPopulationCount, closed, indexer>>

\* The version of a key when its deltas have been applied to version v.
Applied(deltas, v) == IF deltas = <<>> THEN v ELSE Last(deltas).version

\* The head is taken off the queue and processed under the lock, which leaves
\* the indexer with what the last delta says.
PopItem ==
  LET k == Head(queue)
  IN /\ popper = "run" /\ queue # <<>>
     /\ queue' = Tail(queue)
     /\ items' = [items EXCEPT ![k] = <<>>]
     /\ initialPopulationCount' =
          IF initialPopulationCount > 0 THEN initialPopulationCount - 1 ELSE 0
     /\ indexer' = [indexer EXCEPT ![k] = Applied(items[k], @)]
     /\ UNCHANGED <<populated, closed, popper>>

HasSynced == populated /\ initialPopulationCount = 0

FifoInit ==
  /\ items = [k \in Keys |-> <<>>]
  /\ queue = <<>>
  /\ populated = FALSE /\ initialPopulationCount = 0
  /\ closed = FALSE
  /\ popper = "run"
  /\ indexer = [k \in Keys |-> Absent]

-----------------------------------------------------------------------------
(* Properties *)

\* The comment on DeltaFIFO.items, "items in the set are in the queue and vice
\* versa": every key with deltas is queued, exactly once, and no other key is.
ItemsQueued == ToSet(queue) = Queued /\ IsInjective(queue)

\* No wakeup of Pop is lost while the queue is open: it never waits, or is
\* about to, when a key is queued.
PopAwake == popper \in {"parking", "wait"} => queue = <<>>
=============================================================================
