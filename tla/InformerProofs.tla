-------------------------- MODULE InformerProofs ---------------------------
(***************************************************************************)
(* Theorems about the informer's cache and about its listeners, for every  *)
(* finite set of keys, every set of listeners and every bound on versions, *)
(* lists and resyncs.                                                      *)
(***************************************************************************)
EXTENDS SharedInformer, FiniteSetTheorems, TLAPS

-----------------------------------------------------------------------------
(* Deltas *)

\* What queueActionLocked leaves of the deltas of a key.
LEMMA NewDeltasType ==
  ASSUME NEW k \in Keys, NEW d \in Delta, items \in [Keys -> Seq(Delta)]
  PROVE  NewDeltas(k, d) \in Seq(Delta)
BY DEF NewDeltas

LEMMA AppliedAppend ==
  ASSUME NEW s \in Seq(Delta), NEW d \in Delta, NEW v
  PROVE  Applied(Append(s, d), v) = d.version
<1>1. /\ Append(s, d) # <<>>
      /\ Len(Append(s, d)) = Len(s) + 1
      /\ Append(s, d)[Len(s) + 1] = d
  OBVIOUS
<1>2. QED
  BY <1>1 DEF Applied, Last

\* After a delta that is not a Sync the deltas say what it says; a Sync is
\* heeded unless a deletion is queued.
LEMMA AppliedNewDeltas ==
  ASSUME NEW k \in Keys, NEW d \in Delta, NEW v, items \in [Keys -> Seq(Delta)],
         WillObjectBeDeleted(k) => d.type # "Sync"
  PROVE  Applied(NewDeltas(k, d), v) = d.version
<1>1. CASE WillObjectBeDeleted(k) /\ d.type = "Deleted"
  <2>1. items[k] \in Seq(Delta) /\ items[k] # <<>>
    BY <1>1 DEF WillObjectBeDeleted
  <2>2. Last(items[k]) \in Delta
    BY <2>1 DEF Last
  <2>3. Last(items[k]).version = Absent /\ d.version = Absent
    BY <1>1, <2>2 DEF WillObjectBeDeleted, Delta, Absent
  <2>4. QED
    BY <1>1, <2>1, <2>3 DEF Applied, NewDeltas
<1>2. CASE ~(WillObjectBeDeleted(k) /\ d.type = "Deleted")
  <2>1. NewDeltas(k, d) = Append(items[k], d)
    BY <1>2 DEF NewDeltas
  <2>2. QED
    BY <2>1, AppliedAppend
<1>3. QED
  BY <1>1, <1>2

-----------------------------------------------------------------------------
(* Type correctness of the operations of the DeltaFIFO *)

LEMMA SetToSeqsType ==
  ASSUME NEW S \in SUBSET Keys, NEW s \in SetToSeqs(S)
  PROVE  s \in Seq(Keys)
<1>1. Cardinality(S) \in Nat
  BY KeysAssumption, FS_Subset, FS_CardinalityType
<1>2. s \in [1 .. Cardinality(S) -> S]
  BY DEF SetToSeqs
<1>3. QED
  BY <1>1, <1>2

LEMMA QueueActionType ==
  ASSUME FifoTypeOK, NEW k \in Keys, NEW d \in Delta, QueueAction(k, d)
  PROVE  /\ items' \in [Keys -> Seq(Delta)]
         /\ queue' \in Seq(Keys)
         /\ popper' \in {"run", "parking", "wait", "exit"}
<1>1. NewDeltas(k, d) \in Seq(Delta)
  BY NewDeltasType DEF FifoTypeOK
<1>2. items' \in [Keys -> Seq(Delta)]
  BY <1>1 DEF FifoTypeOK, QueueAction
<1>3. queue' \in Seq(Keys)
  BY DEF FifoTypeOK, QueueAction
<1>4. popper' \in {"run", "parking", "wait", "exit"}
  BY DEF FifoTypeOK, QueueAction, Broadcast
<1>5. QED
  BY <1>2, <1>3, <1>4

LEMMA QueueActionsType ==
  ASSUME FifoTypeOK, NEW first \in SUBSET Keys, NEW second \in SUBSET Keys,
         NEW delta, \A k \in first \cup second : delta[k] \in Delta,
         QueueActions(first, second, delta)
  PROVE  /\ items' \in [Keys -> Seq(Delta)]
         /\ queue' \in Seq(Keys)
         /\ popper' \in {"run", "parking", "wait", "exit"}
<1>1. \A k \in first \cup second : NewDeltas(k, delta[k]) \in Seq(Delta)
  BY NewDeltasType DEF FifoTypeOK
<1>2. items' \in [Keys -> Seq(Delta)]
  BY <1>1 DEF FifoTypeOK, QueueActions
<1>3. queue' \in Seq(Keys)
  <2>1. PICK p \in SetToSeqs(first \ Queued), q \in SetToSeqs(second \ Queued) :
          queue' = queue \o p \o q
    BY DEF QueueActions
  <2>2. p \in Seq(Keys) /\ q \in Seq(Keys)
    BY SetToSeqsType
  <2>3. QED
    BY <2>1, <2>2 DEF FifoTypeOK
<1>4. popper' \in {"run", "parking", "wait", "exit"}
  BY DEF FifoTypeOK, QueueActions, Broadcast
<1>5. QED
  BY <1>2, <1>3, <1>4

LEMMA AddDeltaType ==
  ASSUME FifoTypeOK, NEW k \in Keys, NEW type \in {"Added", "Updated"},
         NEW v \in Nat \ {Absent}, AddDelta(k, type, v)
  PROVE  FifoTypeOK'
<1>1. [type |-> type, version |-> v] \in Delta
  BY DEF Delta
<1>2. /\ items' \in [Keys -> Seq(Delta)]
      /\ queue' \in Seq(Keys)
      /\ popper' \in {"run", "parking", "wait", "exit"}
  BY <1>1, QueueActionType DEF AddDelta
<1>3. QED
  BY <1>2 DEF FifoTypeOK, AddDelta

LEMMA DeleteType ==
  ASSUME FifoTypeOK, NEW k \in Keys, Delete(k)
  PROVE  FifoTypeOK'
<1>1. Deleted \in Delta
  BY DEF Deleted, Delta
<1>2. /\ items' \in [Keys -> Seq(Delta)]
      /\ queue' \in Seq(Keys)
      /\ popper' \in {"run", "parking", "wait", "exit"}
  BY <1>1, QueueActionType DEF Delete, FifoTypeOK
<1>3. QED
  BY <1>2 DEF FifoTypeOK, Delete

\* The deltas that Replace queues.
LEMMA ReplaceDeltas ==
  ASSUME NEW list \in Collection, NEW k \in Keys
  PROVE  (IF k \in {j \in Keys : list[j] # Absent}
          THEN [type |-> "Sync", version |-> list[k]] ELSE Deleted) \in Delta
BY DEF Delta, Deleted, Absent, Collection

LEMMA ReplaceType ==
  ASSUME FifoTypeOK, NEW list \in Collection, Replace(list)
  PROVE  FifoTypeOK'
<1> DEFINE listed == {k \in Keys : list[k] # Absent}
           gone   == Known \ listed
           delta  == [k \in Keys |-> IF k \in listed
                        THEN [type |-> "Sync", version |-> list[k]] ELSE Deleted]
<1>1. listed \in SUBSET Keys /\ gone \in SUBSET Keys
  BY DEF Known
<1>2. Cardinality(listed) \in Nat /\ Cardinality(gone) \in Nat
  BY <1>1, KeysAssumption, FS_Subset, FS_CardinalityType
<1>3. \A k \in listed \cup gone : delta[k] \in Delta
  BY <1>1, ReplaceDeltas
<1>4. QueueActions(listed, gone, delta)
  BY DEF Replace
<1>5. initialPopulationCount' \in Nat
  BY <1>2 DEF Replace, FifoTypeOK
<1> HIDE DEF listed, gone, delta
<1>6. /\ items' \in [Keys -> Seq(Delta)]
      /\ queue' \in Seq(Keys)
      /\ popper' \in {"run", "parking", "wait", "exit"}
  BY <1>1, <1>3, <1>4, QueueActionsType
<1>7. populated' \in BOOLEAN /\ closed' \in BOOLEAN /\ indexer' \in [Keys -> Nat]
  BY DEF Replace, FifoTypeOK
<1>8. QED
  BY <1>5, <1>6, <1>7 DEF FifoTypeOK

LEMMA ResyncType ==
  ASSUME FifoTypeOK, Resync
  PROVE  FifoTypeOK'
<1> DEFINE delta == [k \in Keys |-> [type |-> "Sync", version |-> indexer[k]]]
<1>1. \A k \in Known \ Queued : delta[k] \in Delta
  BY DEF Known, Delta, FifoTypeOK, Absent
<1>2. QueueActions(Known \ Queued, {}, delta)
  BY DEF Resync
<1>3. Known \ Queued \in SUBSET Keys
  BY DEF Known
<1> HIDE DEF delta
<1>4. /\ items' \in [Keys -> Seq(Delta)]
      /\ queue' \in Seq(Keys)
      /\ popper' \in {"run", "parking", "wait", "exit"}
  BY <1>1, <1>2, <1>3, QueueActionsType
<1>5. QED
  BY <1>4 DEF FifoTypeOK, Resync

LEMMA PopItemType ==
  ASSUME FifoTypeOK, PopItem
  PROVE  FifoTypeOK'
<1>1. Head(queue) \in Keys /\ Tail(queue) \in Seq(Keys)
  BY DEF FifoTypeOK, PopItem
<1>2. Applied(items[Head(queue)], indexer[Head(queue)]) \in Nat
  <2>1. items[Head(queue)] \in Seq(Delta) /\ indexer[Head(queue)] \in Nat
    BY <1>1 DEF FifoTypeOK
  <2>2. items[Head(queue)] # <<>> => Last(items[Head(queue)]) \in Delta
    BY <2>1 DEF Last
  <2>3. \A d \in Delta : d.version \in Nat
    BY DEF Delta, Absent
  <2>4. QED
    BY <2>1, <2>2, <2>3 DEF Applied
<1>3. items' \in [Keys -> Seq(Delta)]
  BY <1>1 DEF FifoTypeOK, PopItem
<1>4. indexer' \in [Keys -> Nat]
  BY <1>1, <1>2 DEF FifoTypeOK, PopItem
<1>5. initialPopulationCount' \in Nat
  BY DEF FifoTypeOK, PopItem
<1>6. populated' \in BOOLEAN /\ closed' \in BOOLEAN
  BY DEF FifoTypeOK, PopItem
<1>7. QED
  BY <1>1, <1>3, <1>4, <1>5, <1>6 DEF FifoTypeOK, PopItem

-----------------------------------------------------------------------------
(* The steps of the system preserve the invariant *)

LEMMA WriteInv ==
  ASSUME CacheInv, NEW k \in Keys, NEW v \in 0 .. MaxVersion, Write(k, v)
  PROVE  CacheInv'
<1> DEFINE h == [Last(history) EXCEPT ![k] = v]
<1>1. /\ history \in Seq(Collection)
      /\ Len(history) \in Nat
      /\ DOMAIN history = 1 .. Len(history)
      /\ version \in 1 .. Len(history)
  BY DEF CacheInv, CacheTypeOK
<1>2. Last(history) \in Collection
  BY <1>1 DEF Last
<1>3. h \in Collection
  BY <1>2, ReflectorAssumption DEF Collection
<1>4. /\ history' \in Seq(Collection)
      /\ Len(history') = Len(history) + 1
      /\ DOMAIN history' = 1 .. Len(history) + 1
      /\ \A r \in 1 .. Len(history) : history'[r] = history[r]
      /\ history'[Len(history) + 1] = h
  BY <1>1, <1>3 DEF Write
<1>5. FifoTypeOK'
  BY DEF CacheInv, CacheTypeOK, FifoTypeOK, Write, fifoVars
<1>6. CacheTypeOK'
  BY <1>1, <1>4, <1>5 DEF CacheInv, CacheTypeOK, Write, auxVars
<1>7. OneChangeAtATime'
  <2> DEFINE n == Len(history)
  <2>1. n \in Nat /\ Len(history') - 1 = n
    BY <1>1, <1>4
  <2>2. \A r \in 1 .. n : history'[r] = history[r]
    BY <1>4
  <2>3. history'[n + 1] = h /\ \A l \in Keys : l # k => h[l] = history[n][l]
    BY <1>2, <1>4 DEF Last, Collection
  <2>4. \A r \in 1 .. n - 1 : \A i, j \in Keys :
          history[r][i] # history[r + 1][i] /\ history[r][j] # history[r + 1][j] => i = j
    BY DEF CacheInv, OneChangeAtATime
  <2> HIDE DEF n, h
  <2>5. ASSUME NEW r \in 1 .. n, NEW i \in Keys, NEW j \in Keys,
               history'[r][i] # history'[r + 1][i], history'[r][j] # history'[r + 1][j]
        PROVE  i = j
    <3>1. CASE r = n
      BY <2>2, <2>3, <2>5, <3>1
    <3>2. CASE r # n
      <4>1. r \in 1 .. n - 1 /\ r + 1 \in 1 .. n
        BY <2>1, <3>2
      <4>2. history'[r] = history[r] /\ history'[r + 1] = history[r + 1]
        BY <2>2, <4>1
      <4>3. QED
        BY <2>4, <2>5, <4>1, <4>2
    <3>3. QED
      BY <3>1, <3>2
  <2>6. QED
    BY <2>1, <2>5 DEF OneChangeAtATime
<1>8. CacheExact'
  BY <1>1, <1>4 DEF CacheInv, CacheExact, Write, fifoVars, auxVars
<1>9. QED
  BY <1>6, <1>7, <1>8 DEF CacheInv

\* Replace brings every key up to date but the overlooked ones.
LEMMA ListInv ==
  ASSUME CacheInv, NEW r \in DOMAIN history, List(r)
  PROVE  CacheInv'
<1> DEFINE list   == history[r]
           listed == {k \in Keys : list[k] # Absent}
           gone   == Known \ listed
           delta  == [k \in Keys |-> IF k \in listed
                        THEN [type |-> "Sync", version |-> list[k]] ELSE Deleted]
<1>1. FifoTypeOK /\ list \in Collection /\ Replace(list)
  BY DEF CacheInv, CacheTypeOK, List
<1>2. FifoTypeOK'
  BY <1>1, ReplaceType
<1>3. CacheTypeOK'
  BY <1>2 DEF CacheInv, CacheTypeOK, List, Overlooked
<1>4. OneChangeAtATime'
  BY DEF CacheInv, OneChangeAtATime, List
<1>5. /\ QueueActions(listed, gone, delta)
      /\ indexer' = indexer /\ history' = history /\ version' = r
      /\ missed' = Overlooked(list)
  BY <1>1 DEF List, Replace
<1>6. ASSUME NEW k \in Keys, k \notin Overlooked(list)
      PROVE  Applied(items'[k], indexer[k]) = list[k]
  <2>1. items \in [Keys -> Seq(Delta)]
    BY <1>1 DEF FifoTypeOK
  <2>2. items'[k] = IF k \in listed \cup gone THEN NewDeltas(k, delta[k]) ELSE items[k]
    BY <1>5 DEF QueueActions
  <2>3. CASE k \in listed
    <3>1. delta[k] = [type |-> "Sync", version |-> list[k]] /\ delta[k] \in Delta
      BY <1>1, <2>3, ReplaceDeltas
    <3>2. ~WillObjectBeDeleted(k)
      BY <1>6, <2>3 DEF Overlooked
    <3>3. Applied(NewDeltas(k, delta[k]), indexer[k]) = delta[k].version
      BY <2>1, <3>1, <3>2, AppliedNewDeltas
    <3>4. QED
      BY <2>2, <2>3, <3>1, <3>3
  <2>4. CASE k \in gone
    <3>1. delta[k] = Deleted /\ Deleted \in Delta /\ list[k] = Absent
      BY <2>4 DEF Deleted, Delta
    <3>2. Applied(NewDeltas(k, Deleted), indexer[k]) = Deleted.version
      BY <2>1, <3>1, AppliedNewDeltas DEF Deleted
    <3>3. QED
      BY <2>2, <2>4, <3>1, <3>2 DEF Deleted
  <2>5. CASE k \notin listed \cup gone
    <3>1. list[k] = Absent /\ k \notin Known /\ indexer[k] = Absent
      BY <2>5 DEF Known
    <3>2. QED
      BY <1>6, <2>2, <2>5, <3>1 DEF Overlooked
  <2>6. QED
    BY <2>3, <2>4, <2>5
<1>7. CacheExact'
  BY <1>5, <1>6 DEF CacheExact
<1>8. QED
  BY <1>3, <1>4, <1>7 DEF CacheInv

\* The event that the watch delivers next brings one key up to date.
LEMMA WatchEventInv ==
  ASSUME CacheInv, NEW k \in Keys, WatchEvent(k)
  PROVE  CacheInv'
<1> DEFINE before == history[version][k]
           after  == history[version + 1][k]
<1>1. /\ history \in Seq(Collection)
      /\ version \in 1 .. Len(history) - 1
      /\ version + 1 \in DOMAIN history
      /\ before # after
      /\ version' = version + 1 /\ history' = history
      /\ missed' = missed \ {k}
  BY DEF CacheInv, CacheTypeOK, WatchEvent
<1>2. before \in Nat /\ after \in Nat
  BY <1>1 DEF Collection
<1>3. FifoTypeOK /\ items \in [Keys -> Seq(Delta)]
  BY DEF CacheInv, CacheTypeOK, FifoTypeOK
<1>4. /\ FifoTypeOK'
      /\ indexer' = indexer
      /\ Applied(items'[k], indexer[k]) = after
      /\ \A j \in Keys : j # k => items'[j] = items[j]
  <2>1. ASSUME NEW type \in {"Added", "Updated"}, after # Absent, AddDelta(k, type, after)
        PROVE  <1>4!1 /\ <1>4!2 /\ <1>4!3 /\ <1>4!4
    <3> DEFINE d == [type |-> type, version |-> after]
    <3>1. FifoTypeOK'
      BY <1>2, <1>3, <2>1, AddDeltaType
    <3>2. d \in Delta /\ d.type # "Sync" /\ d.version = after
      BY <1>2, <2>1 DEF Delta
    <3>3. items' = [items EXCEPT ![k] = NewDeltas(k, d)] /\ indexer' = indexer
      BY <2>1 DEF AddDelta, QueueAction
    <3> HIDE DEF d
    <3>4. Applied(NewDeltas(k, d), indexer[k]) = after
      BY <1>3, <3>2, AppliedNewDeltas
    <3>5. QED
      BY <1>3, <3>1, <3>3, <3>4
  <2>2. ASSUME after = Absent, Delete(k)
        PROVE  <1>4!1 /\ <1>4!2 /\ <1>4!3 /\ <1>4!4
    <3>1. FifoTypeOK' /\ indexer' = indexer
      BY <1>3, <2>2, DeleteType DEF Delete
    <3>2. CASE k \in Known \cup Queued
      <4>1. items' = [items EXCEPT ![k] = NewDeltas(k, Deleted)]
        BY <2>2, <3>2 DEF Delete, QueueAction
      <4>2. Deleted \in Delta /\ Deleted.type # "Sync" /\ Deleted.version = Absent
        BY DEF Deleted, Delta
      <4>3. Applied(NewDeltas(k, Deleted), indexer[k]) = Absent
        BY <1>3, <4>2, AppliedNewDeltas
      <4>4. QED
        BY <1>3, <2>2, <3>1, <4>1, <4>3
    <3>3. CASE k \notin Known \cup Queued
      <4>1. items' = items /\ items[k] = <<>> /\ indexer[k] = Absent
        BY <2>2, <3>3 DEF Delete, Known, Queued
      <4>2. QED
        BY <2>2, <3>1, <4>1 DEF Applied
    <3>4. QED
      BY <3>2, <3>3
  <2>3. QED
    BY <1>1, <2>1, <2>2 DEF WatchEvent
<1>5. CacheTypeOK'
  BY <1>1, <1>4 DEF CacheInv, CacheTypeOK, WatchEvent
<1>6. OneChangeAtATime'
  BY <1>1 DEF CacheInv, OneChangeAtATime
<1>7. CacheExact'
  <2>1. \A j \in Keys : j # k => history[version + 1][j] = history[version][j]
    BY <1>1 DEF CacheInv, OneChangeAtATime
  <2>2. QED
    BY <1>1, <1>4, <2>1 DEF CacheInv, CacheExact
<1>8. QED
  BY <1>5, <1>6, <1>7 DEF CacheInv

\* Resync queues what the indexer holds.
LEMMA ResyncStoreInv ==
  ASSUME CacheInv, ResyncStore
  PROVE  CacheInv'
<1> DEFINE delta == [k \in Keys |-> [type |-> "Sync", version |-> indexer[k]]]
<1>1. FifoTypeOK /\ Resync /\ items \in [Keys -> Seq(Delta)]
  BY DEF CacheInv, CacheTypeOK, FifoTypeOK, ResyncStore
<1>2. FifoTypeOK'
  BY <1>1, ResyncType
<1>3. CacheTypeOK' /\ OneChangeAtATime'
  BY <1>2 DEF CacheInv, CacheTypeOK, OneChangeAtATime, ResyncStore, auxVars
<1>4. ASSUME NEW k \in Keys
      PROVE  Applied(items'[k], indexer[k]) = Applied(items[k], indexer[k])
  <2>1. items'[k] = IF k \in Known \ Queued THEN NewDeltas(k, delta[k]) ELSE items[k]
    BY <1>1 DEF Resync, QueueActions
  <2>2. CASE k \in Known \ Queued
    <3>1. /\ delta[k] = [type |-> "Sync", version |-> indexer[k]]
          /\ delta[k] \in Delta
          /\ items[k] = <<>>
      BY <1>1, <2>2 DEF Known, Queued, Delta, Absent, FifoTypeOK
    <3>2. ~WillObjectBeDeleted(k)
      BY <3>1 DEF WillObjectBeDeleted
    <3>3. Applied(NewDeltas(k, delta[k]), indexer[k]) = delta[k].version
      BY <1>1, <3>1, <3>2, AppliedNewDeltas
    <3>4. QED
      BY <2>1, <2>2, <3>1, <3>3 DEF Applied
  <2>3. QED
    BY <2>1, <2>2
<1>5. CacheExact'
  BY <1>4 DEF CacheInv, CacheExact, ResyncStore, Resync, auxVars
<1>6. QED
  BY <1>3, <1>5 DEF CacheInv

\* Pop moves what the deltas say into the indexer.
LEMMA ProcessInv ==
  ASSUME CacheInv, Process
  PROVE  CacheInv'
<1>1. FifoTypeOK /\ PopItem
  BY DEF CacheInv, CacheTypeOK, Process
<1>2. FifoTypeOK'
  BY <1>1, PopItemType
<1>3. CacheTypeOK' /\ OneChangeAtATime'
  BY <1>2 DEF CacheInv, CacheTypeOK, OneChangeAtATime, Process
<1>4. ASSUME NEW k \in Keys
      PROVE  Applied(items'[k], indexer'[k]) = Applied(items[k], indexer[k])
  BY <1>1 DEF FifoTypeOK, PopItem, Applied
<1>5. CacheExact'
  BY <1>4 DEF CacheInv, CacheExact, Process
<1>6. QED
  BY <1>3, <1>5 DEF CacheInv

\* The other steps leave the collection, the deltas and the indexer alone.
LEMMA OtherStepsInv ==
  ASSUME CacheInv,
         WatchFails \/ ReflectorStops \/ ProcessWaits \/ Stop \/ CloseQueue
           \/ UNCHANGED cacheVars
  PROVE  CacheInv'
<1>1. /\ items' = items /\ queue' = queue /\ indexer' = indexer
      /\ initialPopulationCount' = initialPopulationCount
      /\ history' = history /\ version' = version /\ lists' = lists
      /\ missed' = missed /\ unpopped' = unpopped
  BY DEF WatchFails, ReflectorStops, ProcessWaits, PopEmpty, PopWait, Stop,
         CloseQueue, Close, cacheVars, fifoVars, auxVars
<1>2. (populated \in BOOLEAN /\ closed \in BOOLEAN /\ stopCh \in BOOLEAN)'
  BY DEF CacheInv, CacheTypeOK, FifoTypeOK, WatchFails, ReflectorStops, ProcessWaits,
         PopEmpty, PopWait, Stop, CloseQueue, Close, cacheVars, fifoVars
<1>3. (popper \in {"run", "parking", "wait", "exit"})'
  BY DEF CacheInv, CacheTypeOK, FifoTypeOK, WatchFails, ReflectorStops, ProcessWaits,
         PopEmpty, PopWait, Stop, CloseQueue, Close, Broadcast, cacheVars, fifoVars
<1>4. (reflector \in {"list", "watch", "done"})'
  BY DEF CacheInv, CacheTypeOK, WatchFails, ReflectorStops, ProcessWaits, Stop,
         CloseQueue, cacheVars
<1>5. CacheTypeOK'
  BY <1>1, <1>2, <1>3, <1>4 DEF CacheInv, CacheTypeOK, FifoTypeOK
<1>6. OneChangeAtATime' /\ CacheExact'
  BY <1>1 DEF CacheInv, OneChangeAtATime, CacheExact
<1>7. QED
  BY <1>5, <1>6 DEF CacheInv

LEMMA CacheInitInv == CacheInit => CacheInv
<1> SUFFICES ASSUME CacheInit PROVE CacheInv
  OBVIOUS
<1>1. FifoTypeOK
  <2>1. populated \in BOOLEAN /\ closed \in BOOLEAN
    BY DEF CacheInit, FifoInit
  <2>2. /\ items \in [Keys -> Seq(Delta)] /\ queue \in Seq(Keys)
        /\ indexer \in [Keys -> Nat]
    BY DEF CacheInit, FifoInit, Absent
  <2>3. QED
    BY <2>1, <2>2 DEF CacheInit, FifoInit, FifoTypeOK
<1>2. /\ history \in Seq(Collection)
      /\ Len(history) = 1 /\ DOMAIN history = {1}
      /\ history[1] = [k \in Keys |-> Absent]
  BY DEF CacheInit, Collection, Absent
<1>3. CacheTypeOK
  BY <1>1, <1>2 DEF CacheInit, CacheTypeOK
<1>4. OneChangeAtATime /\ CacheExact
  BY <1>2 DEF CacheInit, FifoInit, OneChangeAtATime, CacheExact, Applied
<1>5. QED
  BY <1>3, <1>4 DEF CacheInv

LEMMA CacheNextInv == CacheInv /\ [CacheNext]_cacheVars => CacheInv'
BY WriteInv, ListInv, WatchEventInv, ResyncStoreInv, ProcessInv, OtherStepsInv
   DEF CacheNext, CacheStep

-----------------------------------------------------------------------------
(* The queue of the DeltaFIFO *)

LEMMA SetToSeqsElements ==
  ASSUME NEW S \in SUBSET Keys, NEW s \in SetToSeqs(S)
  PROVE  s \in Seq(Keys) /\ ToSet(s) = S /\ IsInjective(s)
<1> DEFINE n == Cardinality(S)
<1>1. n \in Nat /\ IsFiniteSet(S)
  BY KeysAssumption, FS_Subset, FS_CardinalityType
<1>2. s \in [1 .. n -> S] /\ \A i, j \in 1 .. n : i # j => s[i] # s[j]
  BY DEF SetToSeqs
<1>3. s \in Seq(Keys) /\ DOMAIN s = 1 .. n
  BY <1>2, SetToSeqsType
<1>4. IsInjective(s) /\ s \in Injection(1 .. n, S)
  BY <1>2, <1>3 DEF IsInjective, Injection
<1>5. Cardinality(1 .. n) = n
  BY <1>1, FS_Interval
<1>6. s \in Surjection(1 .. n, S)
  BY <1>1, <1>4, <1>5, FS_Injection
<1>7. ToSet(s) = S
  BY <1>2, <1>3, <1>6 DEF Surjection, ToSet
<1>8. QED
  BY <1>3, <1>4, <1>7

LEMMA ConcatElements ==
  ASSUME NEW s \in Seq(Keys), NEW t \in Seq(Keys), IsInjective(s), IsInjective(t),
         ToSet(s) \cap ToSet(t) = {}
  PROVE  s \o t \in Seq(Keys) /\ ToSet(s \o t) = ToSet(s) \cup ToSet(t) /\ IsInjective(s \o t)
<1> DEFINE m == Len(s)
           n == Len(t)
           c == s \o t
<1>1. /\ m \in Nat /\ n \in Nat
      /\ DOMAIN s = 1 .. m /\ DOMAIN t = 1 .. n
      /\ c \in Seq(Keys) /\ DOMAIN c = 1 .. m + n
      /\ \A i \in 1 .. m : c[i] = s[i]
      /\ \A i \in m + 1 .. m + n : c[i] = t[i - m]
  OBVIOUS
<1> HIDE DEF m, n, c
<1>2. \A i \in 1 .. m + n : i \in 1 .. m \/ (i \in m + 1 .. m + n /\ i - m \in 1 .. n)
  BY <1>1
<1>3. \A i \in 1 .. n : i + m \in m + 1 .. m + n /\ i + m \in 1 .. m + n /\ c[i + m] = t[i]
  <2>1. ASSUME NEW i \in 1 .. n
        PROVE  i + m \in m + 1 .. m + n /\ i + m \in 1 .. m + n /\ (i + m) - m = i
    BY <1>1
  <2>2. QED
    BY <1>1, <2>1
<1>4. ToSet(c) = ToSet(s) \cup ToSet(t)
  <2>1. ToSet(c) \subseteq ToSet(s) \cup ToSet(t)
    BY <1>1, <1>2 DEF ToSet
  <2>2. ToSet(s) \subseteq ToSet(c)
    BY <1>1 DEF ToSet
  <2>3. ToSet(t) \subseteq ToSet(c)
    BY <1>1, <1>3 DEF ToSet
  <2>4. QED
    BY <2>1, <2>2, <2>3
<1>5. \A i \in 1 .. m, j \in m + 1 .. m + n : c[i] # c[j]
  <2>1. ASSUME NEW i \in 1 .. m, NEW j \in m + 1 .. m + n PROVE c[i] # c[j]
    <3>1. j - m \in 1 .. n
      BY <1>1
    <3>2. c[i] \in ToSet(s) /\ c[j] \in ToSet(t)
      BY <1>1, <3>1 DEF ToSet
    <3>3. QED
      BY <3>2
  <2>2. QED
    BY <2>1
<1>6. \A i, j \in m + 1 .. m + n : c[i] = c[j] => i = j
  <2>1. ASSUME NEW i \in m + 1 .. m + n, NEW j \in m + 1 .. m + n, c[i] = c[j]
        PROVE  i = j
    <3>1. i - m \in 1 .. n /\ j - m \in 1 .. n /\ t[i - m] = t[j - m]
      BY <1>1, <2>1
    <3>2. i - m = j - m
      BY <1>1, <3>1 DEF IsInjective
    <3>3. QED
      BY <1>1, <3>2
  <2>2. QED
    BY <2>1
<1>7. \A i, j \in 1 .. m : c[i] = c[j] => i = j
  BY <1>1 DEF IsInjective
<1>8. IsInjective(c)
  BY <1>1, <1>2, <1>5, <1>6, <1>7 DEF IsInjective
<1>9. QED
  BY <1>1, <1>4, <1>8 DEF c

LEMMA AppendElements ==
  ASSUME NEW s \in Seq(Keys), NEW k \in Keys, IsInjective(s), k \notin ToSet(s)
  PROVE  ToSet(Append(s, k)) = ToSet(s) \cup {k} /\ IsInjective(Append(s, k))
<1>1. /\ Len(s) \in Nat
      /\ DOMAIN s = 1 .. Len(s)
      /\ DOMAIN Append(s, k) = 1 .. Len(s) + 1
      /\ \A i \in 1 .. Len(s) : Append(s, k)[i] = s[i]
      /\ Append(s, k)[Len(s) + 1] = k
  OBVIOUS
<1>2. \A i \in 1 .. Len(s) : s[i] # k
  BY <1>1 DEF ToSet
<1>3. QED
  BY <1>1, <1>2 DEF ToSet, IsInjective

LEMMA TailElements ==
  ASSUME NEW s \in Seq(Keys), s # <<>>, IsInjective(s)
  PROVE  Head(s) \in ToSet(s) /\ ToSet(Tail(s)) = ToSet(s) \ {Head(s)} /\ IsInjective(Tail(s))
<1> DEFINE n == Len(s)
           t == Tail(s)
<1>1. /\ n \in Nat \ {0}
      /\ DOMAIN s = 1 .. n /\ DOMAIN t = 1 .. n - 1
      /\ Head(s) = s[1]
      /\ \A i \in 1 .. n - 1 : t[i] = s[i + 1]
  OBVIOUS
<1> HIDE DEF n, t
<1>2. Head(s) \in ToSet(s)
  BY <1>1 DEF ToSet
<1>3. IsInjective(t)
  <2> SUFFICES ASSUME NEW i \in 1 .. n - 1, NEW j \in 1 .. n - 1, t[i] = t[j] PROVE i = j
    BY <1>1 DEF IsInjective
  <2>1. i + 1 \in 1 .. n /\ j + 1 \in 1 .. n /\ s[i + 1] = s[j + 1]
    BY <1>1
  <2>2. i + 1 = j + 1
    BY <1>1, <2>1 DEF IsInjective
  <2>3. QED
    BY <2>2
<1>4. ToSet(t) \subseteq ToSet(s) \ {Head(s)}
  BY <1>1 DEF ToSet, IsInjective
<1>5. ASSUME NEW x \in ToSet(s), x # Head(s) PROVE x \in ToSet(t)
  <2>1. PICK i \in 1 .. n : x = s[i]
    BY <1>1 DEF ToSet
  <2>2. i - 1 \in 1 .. n - 1 /\ t[i - 1] = s[i]
    BY <1>1, <1>5, <2>1
  <2>3. QED
    BY <1>1, <2>1, <2>2 DEF ToSet
<1>6. QED
  BY <1>2, <1>3, <1>4, <1>5 DEF t

\* A key has deltas after queueActionLocked.
LEMMA NewDeltasQueued ==
  ASSUME NEW k \in Keys, NEW d \in Delta, items \in [Keys -> Seq(Delta)]
  PROVE  NewDeltas(k, d) # <<>>
<1>1. items[k] \in Seq(Delta)
  OBVIOUS
<1>2. Append(items[k], d) # <<>>
  BY <1>1
<1>3. QED
  BY <1>2 DEF NewDeltas, WillObjectBeDeleted

QueueInv == ItemsQueued /\ PopAwake

LEMMA QueueActionQueue ==
  ASSUME FifoTypeOK, QueueInv, Unlocked,
         NEW k \in Keys, NEW d \in Delta, QueueAction(k, d)
  PROVE  QueueInv'
<1>1. items \in [Keys -> Seq(Delta)] /\ queue \in Seq(Keys)
  BY DEF FifoTypeOK
<1>2. Queued' = Queued \cup {k}
  BY <1>1, NewDeltasQueued DEF QueueAction, Queued
<1>3. ItemsQueued'
  <2>1. CASE k \in Queued
    BY <1>2, <2>1 DEF QueueAction, QueueInv, ItemsQueued
  <2>2. CASE k \notin Queued
    <3>1. queue' = Append(queue, k) /\ k \notin ToSet(queue) /\ IsInjective(queue)
      BY <2>2 DEF QueueAction, QueueInv, ItemsQueued
    <3>2. ToSet(queue') = ToSet(queue) \cup {k} /\ IsInjective(queue')
      BY <1>1, <3>1, AppendElements
    <3>3. QED
      BY <1>2, <3>2 DEF QueueInv, ItemsQueued
  <2>3. QED
    BY <2>1, <2>2
<1>4. PopAwake'
  BY DEF QueueAction, Broadcast, Unlocked, PopAwake
<1>5. QED
  BY <1>3, <1>4 DEF QueueInv

LEMMA QueueActionsQueue ==
  ASSUME FifoTypeOK, QueueInv, Unlocked,
         NEW first \in SUBSET Keys, NEW second \in SUBSET Keys, first \cap second = {},
         NEW delta, \A k \in first \cup second : delta[k] \in Delta,
         QueueActions(first, second, delta)
  PROVE  QueueInv'
<1>1. items \in [Keys -> Seq(Delta)] /\ queue \in Seq(Keys)
  BY DEF FifoTypeOK
<1>2. \A k \in first \cup second : NewDeltas(k, delta[k]) # <<>>
  BY <1>1, NewDeltasQueued
<1>3. Queued' = Queued \cup first \cup second
  BY <1>1, <1>2 DEF QueueActions, Queued
<1>4. PICK p \in SetToSeqs(first \ Queued), q \in SetToSeqs(second \ Queued) :
        queue' = (queue \o p) \o q
  BY DEF QueueActions
<1>5. /\ p \in Seq(Keys) /\ ToSet(p) = first \ Queued /\ IsInjective(p)
      /\ q \in Seq(Keys) /\ ToSet(q) = second \ Queued /\ IsInjective(q)
  BY SetToSeqsElements
<1>6. ToSet(queue) = Queued /\ IsInjective(queue)
  BY DEF QueueInv, ItemsQueued
<1>7. /\ queue \o p \in Seq(Keys)
      /\ ToSet(queue \o p) = Queued \cup (first \ Queued)
      /\ IsInjective(queue \o p)
  BY <1>1, <1>5, <1>6, ConcatElements
<1>8. ToSet(queue') = (Queued \cup (first \ Queued)) \cup (second \ Queued) /\ IsInjective(queue')
  BY <1>4, <1>5, <1>7, ConcatElements, ZenonT(30)
<1>9. ItemsQueued'
  BY <1>3, <1>8 DEF ItemsQueued
<1>10. PopAwake'
  <2>1. CASE first \cup second = {}
    <3>1. p = <<>> /\ q = <<>>
      BY <1>5, <2>1 DEF ToSet
    <3>2. queue' = queue /\ popper' = popper
      BY <1>1, <1>4, <2>1, <3>1 DEF QueueActions
    <3>3. QED
      BY <3>2 DEF QueueInv, PopAwake
  <2>2. CASE first \cup second # {}
    BY <2>2 DEF QueueActions, Broadcast, Unlocked, PopAwake
  <2>3. QED
    BY <2>1, <2>2
<1>11. QED
  BY <1>9, <1>10 DEF QueueInv

LEMMA QueueNextInv ==
  CacheInv /\ QueueInv /\ [CacheNext]_cacheVars => QueueInv'
<1> SUFFICES ASSUME CacheInv, QueueInv, [CacheNext]_cacheVars PROVE QueueInv'
  OBVIOUS
<1>1. FifoTypeOK
  BY DEF CacheInv, CacheTypeOK
<1>2. ASSUME NEW r \in DOMAIN history, List(r) PROVE QueueInv'
  <2> DEFINE list   == history[r]
             listed == {k \in Keys : list[k] # Absent}
             gone   == Known \ listed
             delta  == [k \in Keys |-> IF k \in listed
                          THEN [type |-> "Sync", version |-> list[k]] ELSE Deleted]
  <2>1. list \in Collection
    BY DEF CacheInv, CacheTypeOK
  <2>2. /\ listed \in SUBSET Keys /\ gone \in SUBSET Keys /\ listed \cap gone = {}
        /\ \A k \in listed \cup gone : delta[k] \in Delta
    BY <2>1, ReplaceDeltas DEF Known
  <2>3. Unlocked /\ QueueActions(listed, gone, delta)
    BY <1>2 DEF List, Replace
  <2> HIDE DEF list, listed, gone, delta
  <2>4. QED
    BY <1>1, <2>2, <2>3, QueueActionsQueue
<1>3. ASSUME NEW k \in Keys, WatchEvent(k) PROVE QueueInv'
  <2>1. history[version + 1][k] \in Nat
    BY <1>3 DEF CacheInv, CacheTypeOK, Collection, WatchEvent
  <2>2. ASSUME NEW type \in {"Added", "Updated"}, NEW v \in Nat \ {Absent},
               AddDelta(k, type, v)
        PROVE  QueueInv'
    <3>1. [type |-> type, version |-> v] \in Delta
      BY DEF Delta
    <3>2. QED
      BY <1>1, <2>2, <3>1, QueueActionQueue DEF AddDelta
  <2>3. ASSUME Delete(k) PROVE QueueInv'
    <3>1. CASE k \in Known \cup Queued
      <4>1. Deleted \in Delta
        BY DEF Deleted, Delta
      <4>2. QED
        BY <1>1, <2>3, <3>1, <4>1, QueueActionQueue DEF Delete
    <3>2. CASE k \notin Known \cup Queued
      BY <2>3, <3>2 DEF Delete, QueueInv, ItemsQueued, Queued, PopAwake
    <3>3. QED
      BY <3>1, <3>2
  <2>4. QED
    BY <1>3, <2>1, <2>2, <2>3 DEF WatchEvent
<1>4. ASSUME ResyncStore PROVE QueueInv'
  <2> DEFINE delta == [k \in Keys |-> [type |-> "Sync", version |-> indexer[k]]]
  <2>1. \A k \in Known \ Queued : delta[k] \in Delta
    BY <1>1 DEF Known, Delta, FifoTypeOK, Absent
  <2>2. Unlocked /\ QueueActions(Known \ Queued, {}, delta)
    BY <1>4 DEF ResyncStore, Resync
  <2>3. Known \ Queued \in SUBSET Keys
    BY DEF Known
  <2> HIDE DEF delta
  <2>4. QED
    BY <1>1, <2>1, <2>2, <2>3, QueueActionsQueue
<1>5. ASSUME Process PROVE QueueInv'
  <2>1. /\ queue \in Seq(Keys) /\ queue # <<>>
        /\ items \in [Keys -> Seq(Delta)]
        /\ items' = [items EXCEPT ![Head(queue)] = <<>>]
        /\ queue' = Tail(queue) /\ popper' = "run"
    BY <1>1, <1>5 DEF FifoTypeOK, Process, PopItem
  <2>2. Queued' = Queued \ {Head(queue)}
    BY <2>1 DEF Queued
  <2>3. ItemsQueued'
    BY <2>1, <2>2, TailElements DEF QueueInv, ItemsQueued
  <2>4. QED
    BY <2>1, <2>3 DEF QueueInv, PopAwake
<1>6. ASSUME items' = items, queue' = queue,
             popper' = popper \/ queue = <<>> \/ popper' \notin {"parking", "wait"}
      PROVE  QueueInv'
  BY <1>6 DEF QueueInv, ItemsQueued, Queued, PopAwake
<1>7. CASE \/ \E k \in Keys, v \in 0 .. MaxVersion : Write(k, v)
           \/ WatchFails \/ ReflectorStops \/ ProcessWaits \/ Stop \/ UNCHANGED cacheVars
  BY <1>6, <1>7 DEF Write, WatchFails, ReflectorStops, ProcessWaits, PopEmpty, PopWait, Stop,
         cacheVars, fifoVars, QueueInv, PopAwake
<1>8. CASE CloseQueue
  BY <1>6, <1>8 DEF CloseQueue, Close, Broadcast
<1>9. QED
  BY <1>2, <1>3, <1>4, <1>5, <1>7, <1>8 DEF CacheNext, CacheStep

LEMMA QueueInitInv == CacheInit => QueueInv
BY DEF CacheInit, FifoInit, QueueInv, ItemsQueued, PopAwake, ToSet, Queued, IsInjective

-----------------------------------------------------------------------------
(* Theorems *)

\* The state of DeltaFIFO, reflector and indexer is well formed.
THEOREM CacheTypeCorrect == CacheSpec => []CacheTypeOK
<1>1. CacheInv => CacheTypeOK
  BY DEF CacheInv
<1>2. QED
  BY <1>1, CacheInitInv, CacheNextInv, PTL DEF CacheSpec

\* However lists, stale lists, watch events, resyncs and pops interleave, the
\* indexer and the deltas of a key add up to the collection at the reflector's
\* resource version, unless the last Replace overlooked the key.
THEOREM CacheNeverLoses == CacheSpec => []CacheExact
<1>1. CacheInv => CacheExact
  BY DEF CacheInv
<1>2. QED
  BY <1>1, CacheInitInv, CacheNextInv, PTL DEF CacheSpec

\* f.items and f.queue agree, and no wakeup of Pop is lost while the queue is
\* open: Pop never waits, and is never about to wait, with a key queued.
THEOREM NoLostPop == CacheSpec => [](ItemsQueued /\ PopAwake)
<1>1. CacheInv /\ QueueInv => ItemsQueued /\ PopAwake
  BY DEF QueueInv
<1>2. QED
  BY <1>1, CacheInitInv, CacheNextInv, QueueInitInv, QueueNextInv, PTL DEF CacheSpec

\* cond.Wait in Pop: Pop does not wait, and is not about to, with a key queued.
THEOREM PopNotAsleep == CacheSpec => []PopAwake
<1>1. ItemsQueued /\ PopAwake => PopAwake
  OBVIOUS
<1>2. QED
  BY <1>1, NoLostPop, PTL

-----------------------------------------------------------------------------
(* HasSynced *)

\* The keys of the first list that have not been popped are among those that
\* initialPopulationCount still waits for: queued, and before all others.
Awaited(q, n) == \A k \in unpopped : \E i \in 1 .. n : q[i] = k

\* Before the first Replace nothing is queued or known.
SyncInv ==
  /\ populated \/ reflector = "watch" => lists > 0
  /\ initialPopulationCount <= Len(queue)
  /\ Awaited(queue, initialPopulationCount)
  /\ ~populated => /\ queue = <<>> /\ lists = 0 /\ unpopped = {}
                   /\ \A k \in Keys : indexer[k] = Absent

LEMMA ConcatAssoc ==
  \A a, b, c \in Seq(Keys) : a \o b \in Seq(Keys) /\ (a \o b) \o c = a \o (b \o c)
OBVIOUS

\* A step that only adds to the end of the queue.
LEMMA SyncExtends ==
  ASSUME CacheTypeOK, SyncInv, NEW s \in Seq(Keys), queue' = queue \o s,
         populated \/ s = <<>>, populated => populated',
         populated' => populated \/ lists' > 0,
         reflector' = "watch" => reflector = "watch" \/ lists' > 0,
         UNCHANGED <<initialPopulationCount, unpopped, lists, indexer>>
  PROVE  SyncInv'
<1>1. /\ queue \in Seq(Keys) /\ Len(queue) \in Nat /\ initialPopulationCount \in Nat
      /\ lists \in Nat
  BY DEF CacheTypeOK, FifoTypeOK
<1>2. /\ Len(queue') = Len(queue) + Len(s) /\ Len(s) \in Nat
      /\ \A i \in 1 .. Len(queue) : queue'[i] = queue[i]
      /\ s = <<>> => queue' = queue
  BY <1>1
<1>3. initialPopulationCount' <= Len(queue')
  BY <1>1, <1>2 DEF SyncInv
<1>4. Awaited(queue', initialPopulationCount)
  <2>1. 1 .. initialPopulationCount \subseteq 1 .. Len(queue)
    BY <1>1 DEF SyncInv
  <2>2. QED
    BY <1>2, <2>1 DEF SyncInv, Awaited
<1>5. QED
  BY <1>2, <1>3, <1>4 DEF SyncInv, Awaited

LEMMA SyncNextInv ==
  CacheInv /\ QueueInv /\ SyncInv /\ [CacheNext]_cacheVars => SyncInv'
<1> SUFFICES ASSUME CacheInv, QueueInv, SyncInv, [CacheNext]_cacheVars PROVE SyncInv'
  OBVIOUS
<1>1. /\ CacheTypeOK /\ queue \in Seq(Keys) /\ items \in [Keys -> Seq(Delta)] /\ lists \in Nat
      /\ Len(queue) \in Nat /\ initialPopulationCount \in Nat /\ indexer \in [Keys -> Nat]
  BY DEF CacheInv, CacheTypeOK, FifoTypeOK
<1>2. ASSUME queue' = queue PROVE <<>> \in Seq(Keys) /\ queue' = queue \o <<>>
  BY <1>1, <1>2
<1>3. CASE \/ \E k \in Keys, v \in 0 .. MaxVersion : Write(k, v)
           \/ WatchFails \/ ReflectorStops \/ ProcessWaits \/ Stop \/ CloseQueue
           \/ UNCHANGED cacheVars
  <2>1. /\ UNCHANGED <<queue, populated, initialPopulationCount, unpopped, lists, indexer>>
        /\ reflector' = "watch" => reflector = "watch"
    BY <1>3 DEF Write, WatchFails, ReflectorStops, ProcessWaits, PopEmpty, PopWait, Stop,
           CloseQueue, Close, cacheVars, fifoVars, auxVars
  <2>2. QED
    BY <2>1 DEF SyncInv, Awaited
<1>4. ASSUME NEW k \in Keys, WatchEvent(k) PROVE SyncInv'
  <2>1. /\ populated' /\ reflector = "watch" /\ reflector' = reflector /\ lists > 0
        /\ UNCHANGED <<initialPopulationCount, unpopped, lists, indexer>>
        /\ queue' = queue \/ queue' = Append(queue, k)
    BY <1>1, <1>4 DEF WatchEvent, AddDelta, Delete, QueueAction, SyncInv
  <2>2. populated
    BY <2>1 DEF SyncInv
  <2>3. <<k>> \in Seq(Keys) /\ Append(queue, k) = queue \o <<k>>
    BY <1>1
  <2>4. QED
    BY <1>1, <1>2, <2>1, <2>2, <2>3, SyncExtends
<1>5. ASSUME ResyncStore PROVE SyncInv'
  <2>1. populated /\ UNCHANGED <<populated, initialPopulationCount, unpopped, lists, indexer, reflector>>
    BY <1>5 DEF ResyncStore, Resync, SyncInv, auxVars
  <2>2. PICK p \in SetToSeqs((Known \ Queued) \ Queued), q \in SetToSeqs({} \ Queued) :
          queue' = (queue \o p) \o q
    BY <1>5 DEF ResyncStore, Resync, QueueActions
  <2>3. p \in Seq(Keys) /\ q \in Seq(Keys)
    BY SetToSeqsElements DEF Known
  <2>4. p \o q \in Seq(Keys) /\ queue' = queue \o (p \o q)
    BY <1>1, <2>2, <2>3, ConcatAssoc
  <2>5. QED
    BY <1>1, <2>1, <2>4, SyncExtends
<1>6. ASSUME NEW r \in DOMAIN history, List(r) PROVE SyncInv'
  <2> DEFINE listed == {k \in Keys : history[r][k] # Absent}
             gone   == Known \ listed
  <2>1. /\ populated' /\ lists' = lists + 1 /\ reflector' = "watch" /\ indexer' = indexer
        /\ initialPopulationCount' = IF populated THEN initialPopulationCount
                                     ELSE Cardinality(listed) + Cardinality(gone)
        /\ unpopped' = IF populated THEN unpopped ELSE listed
    BY <1>6 DEF List, Replace
  <2>2. PICK p \in SetToSeqs(listed \ Queued), q \in SetToSeqs(gone \ Queued) :
          queue' = (queue \o p) \o q
    BY <1>6 DEF List, Replace, QueueActions
  <2>3. /\ p \in Seq(Keys) /\ ToSet(p) = listed \ Queued
        /\ q \in Seq(Keys) /\ ToSet(q) = gone \ Queued
    BY SetToSeqsElements DEF Known
  <2>4. p \o q \in Seq(Keys) /\ queue' = queue \o (p \o q)
    <3> HIDE DEF listed, gone
    <3>1. QED
      BY <1>1, <2>2, <2>3, ConcatAssoc
  <2>5. CASE populated
    <3>1. /\ Len(queue') = Len(queue) + Len(p \o q) /\ Len(p \o q) \in Nat
          /\ \A i \in 1 .. Len(queue) : queue'[i] = queue[i]
      BY <1>1, <2>4
    <3>2. initialPopulationCount' = initialPopulationCount /\ unpopped' = unpopped
      BY <2>1, <2>5
    <3>3. 1 .. initialPopulationCount \subseteq 1 .. Len(queue)
      BY <1>1 DEF SyncInv
    <3>4. initialPopulationCount' <= Len(queue')
      BY <1>1, <3>1, <3>2 DEF SyncInv
    <3>6. Awaited(queue, initialPopulationCount)'
      BY <3>1, <3>2, <3>3 DEF SyncInv, Awaited
    <3>5. QED
      BY <1>1, <2>1, <3>4, <3>6 DEF SyncInv
  <2>6. CASE ~populated
    <3>1. queue = <<>> /\ Queued = {} /\ gone = {}
      BY <2>6 DEF SyncInv, QueueInv, ItemsQueued, ToSet, Known
    <3>2. Len(p) = Cardinality(listed) /\ Cardinality(gone) = 0 /\ q = <<>>
      <4>1. listed \ Queued = listed /\ listed \in SUBSET Keys
        BY <3>1
      <4> HIDE DEF listed
      <4>4. p \in [1 .. Cardinality(listed) -> listed] /\ Cardinality(listed) \in Nat
        BY <4>1, KeysAssumption, FS_Subset, FS_CardinalityType DEF SetToSeqs
      <4>5. Len(p) = Cardinality(listed)
        BY <2>3, <4>4
      <4>6. Cardinality(gone) = 0
        BY <3>1, FS_EmptySet
      <4>2. q = <<>>
        BY <2>3, <3>1 DEF ToSet
      <4>3. QED
        BY <4>2, <4>5, <4>6
    <3>3. queue' = p
      BY <2>2, <2>3, <3>1, <3>2
    <3>4. initialPopulationCount' = Len(queue') /\ Len(queue') \in Nat
      BY <2>1, <2>3, <2>6, <3>2, <3>3
    <3>5. \A k \in unpopped' : \E i \in 1 .. Len(p) : p[i] = k
      BY <2>1, <2>3, <2>6, <3>1 DEF ToSet
    <3>6. QED
      <4>1. initialPopulationCount' <= Len(queue') /\ lists' > 0
        BY <1>1, <2>1, <3>4
      <4>2. Awaited(queue, initialPopulationCount)'
        BY <3>3, <3>4, <3>5 DEF Awaited
      <4>3. QED
        BY <2>1, <4>1, <4>2 DEF SyncInv
  <2>7. QED
    BY <2>5, <2>6
<1>7. ASSUME Process PROVE SyncInv'
  <2>1. /\ queue # <<>> /\ queue' = Tail(queue) /\ UNCHANGED <<populated, lists, reflector>>
        /\ unpopped' = unpopped \ {Head(queue)}
        /\ initialPopulationCount' =
             IF initialPopulationCount > 0 THEN initialPopulationCount - 1 ELSE 0
    BY <1>7 DEF Process, PopItem
  <2>2. /\ Len(queue) \in Nat \ {0} /\ Len(queue') = Len(queue) - 1
        /\ Head(queue) = queue[1]
        /\ \A i \in 1 .. Len(queue) - 1 : queue'[i] = queue[i + 1]
    BY <1>1, <2>1
  <2>3. initialPopulationCount' <= Len(queue')
    BY <1>1, <2>1, <2>2 DEF SyncInv
  <2>4. ASSUME NEW k \in unpopped' PROVE \E i \in 1 .. initialPopulationCount' : queue'[i] = k
    <3>1. PICK i \in 1 .. initialPopulationCount : queue[i] = k
      BY <2>1 DEF SyncInv, Awaited
    <3>2. i # 1
      BY <2>1, <2>2, <2>4, <3>1
    <3>3. i - 1 \in 1 .. initialPopulationCount' /\ i - 1 \in 1 .. Len(queue) - 1 /\ (i - 1) + 1 = i
      BY <1>1, <2>1, <2>2, <3>1, <3>2 DEF SyncInv
    <3>4. queue'[i - 1] = k
      BY <2>2, <3>1, <3>3
    <3>5. QED
      BY <3>3, <3>4
  <2>5. populated
    BY <2>1 DEF SyncInv
  <2>6. QED
    BY <2>1, <2>3, <2>4, <2>5 DEF SyncInv, Awaited
<1>8. QED
  BY <1>3, <1>4, <1>5, <1>6, <1>7 DEF CacheNext, CacheStep

LEMMA SyncInitInv == CacheInit => SyncInv
BY DEF CacheInit, FifoInit, SyncInv, Awaited

\* When HasSynced (delta_fifo.go) says so, a full list has been made and every
\* key of the first list has been popped into the store: Replace sets
\* initialPopulationCount when its keys are all that is queued, later deltas go
\* behind them, and Pop counts down.
THEOREM SyncedIsListed == CacheSpec => []SyncedMeansListed
<1>1. CacheInv /\ SyncInv => SyncedMeansListed
  BY DEF CacheInv, CacheTypeOK, FifoTypeOK, SyncInv, Awaited, SyncedMeansListed, HasSynced
<1>2. QED
  BY <1>1, CacheInitInv, CacheNextInv, QueueInitInv, QueueNextInv, SyncInitInv, SyncNextInv, PTL
     DEF CacheSpec

-----------------------------------------------------------------------------
(* The order of a set of places *)

LEMMA PlacesFinite ==
  ASSUME NEW n \in Nat, NEW S \in SUBSET (1 .. n)
  PROVE  IsFiniteSet(S) /\ Cardinality(S) \in Nat /\ \A j \in S : j \in Int /\ j <= n
<1>1. IsFiniteSet(1 .. n)
  BY FS_Interval
<1>2. IsFiniteSet(S)
  BY <1>1, FS_Subset
<1>3. QED
  BY <1>2, FS_CardinalityType

\* Place numbers the elements of a finite set of places from 1 on.
LEMMA PlaceType ==
  ASSUME NEW n \in Nat, NEW S \in SUBSET (1 .. n), NEW j \in S
  PROVE  /\ IsFiniteSet(S) /\ Cardinality(S) \in Nat
         /\ Place(S, j) \in 1 .. Cardinality(S)
<1> DEFINE T == {i \in S : i <= j}
<1>1. IsFiniteSet(S)
  BY PlacesFinite
<1>2. T \in SUBSET S
  OBVIOUS
<1>3. IsFiniteSet(T) /\ Cardinality(T) <= Cardinality(S)
  BY <1>1, <1>2, FS_Subset
<1>4. Cardinality(S) \in Nat /\ Cardinality(T) \in Nat
  BY <1>1, <1>3, FS_CardinalityType
<1>5. j \in T
  OBVIOUS
<1>6. Cardinality(T) # 0
  BY <1>3, <1>5, FS_EmptySet
<1>7. Place(S, j) = Cardinality(T)
  BY DEF Place
<1>8. QED
  BY <1>1, <1>3, <1>4, <1>6, <1>7

LEMMA PlaceIncreases ==
  ASSUME NEW n \in Nat, NEW S \in SUBSET (1 .. n), NEW i \in S, NEW j \in S, i < j
  PROVE  Place(S, i) < Place(S, j)
<1> DEFINE T == {h \in S : h <= i}
           U == {h \in S : h <= j}
<1>1. IsFiniteSet(S) /\ Place(S, i) \in Nat /\ Place(S, j) \in Nat
  <2>1. Place(S, i) \in 1 .. Cardinality(S) /\ Place(S, j) \in 1 .. Cardinality(S)
    BY PlaceType
  <2>2. QED
    BY <2>1, PlacesFinite
<1>2. U \in SUBSET S
  OBVIOUS
<1>3. IsFiniteSet(U)
  BY <1>1, <1>2, FS_Subset
<1>4. T \in SUBSET U /\ j \in U /\ j \notin T
  <2>1. i \in Int /\ j \in Int /\ \A h \in S : h \in Int
    BY PlacesFinite
  <2>2. \A h \in S : h <= i => h <= j
    BY <2>1
  <2>3. j <= j /\ ~(j <= i)
    BY <2>1
  <2>4. QED
    BY <2>2, <2>3
<1>5. Cardinality(T) <= Cardinality(U) /\ (Cardinality(U) = Cardinality(T) => U = T)
  BY <1>3, <1>4, FS_Subset
<1>6. Cardinality(T) # Cardinality(U)
  BY <1>4, <1>5
<1>7. QED
  BY <1>1, <1>5, <1>6 DEF Place

LEMMA PlaceInjective ==
  ASSUME NEW n \in Nat, NEW S \in SUBSET (1 .. n), NEW i \in S, NEW j \in S,
         Place(S, i) = Place(S, j)
  PROVE  i = j
<1>1. Place(S, i) \in 1 .. Cardinality(S)
  BY PlaceType
<1>2. ~(i < j) /\ ~(j < i)
  BY <1>1, PlaceIncreases, PlacesFinite
<1>3. QED
  BY <1>2, PlacesFinite

LEMMA PlaceTaken ==
  ASSUME NEW n \in Nat, NEW S \in SUBSET (1 .. n), NEW p \in 1 .. Cardinality(S)
  PROVE  \E j \in S : Place(S, j) = p
<1> DEFINE c == Cardinality(S)
           f == [j \in S |-> Place(S, j)]
<1>1. IsFiniteSet(S)
  BY PlacesFinite
<1>2. c \in Nat
  BY <1>1, FS_CardinalityType
<1>3. IsFiniteSet(1 .. c) /\ Cardinality(1 .. c) = c
  BY <1>2, FS_Interval
<1>4. f \in Injection(S, 1 .. c)
  <2>1. f \in [S -> 1 .. c]
    BY PlaceType
  <2>2. \A i, j \in S : f[i] = f[j] => i = j
    BY PlaceInjective
  <2>3. QED
    BY <2>1, <2>2 DEF Injection, IsInjective
<1>5. f \in Surjection(S, 1 .. c)
  BY <1>3, <1>4, FS_Injection
<1>6. QED
  BY <1>5 DEF Surjection

\* A set of places that is not empty has a last one.
LEMMA LastPlace ==
  ASSUME NEW n \in Nat, NEW S \in SUBSET (1 .. n), S # {}
  PROVE  \E j \in S : \A i \in S : i <= j
<1>1. IsFiniteSet(S)
  BY PlacesFinite
<1>2. Cardinality(S) \in Nat /\ Cardinality(S) # 0
  BY <1>1, FS_CardinalityType, FS_EmptySet
<1>3. PICK j \in S : Place(S, j) = Cardinality(S)
  BY <1>2, PlaceTaken
<1>4. ASSUME NEW i \in S, ~(i <= j) PROVE FALSE
  <2>1. Place(S, j) < Place(S, i) /\ Place(S, i) \in 1 .. Cardinality(S)
    <3>1. j < i
      BY <1>4, PlacesFinite
    <3>2. QED
      BY <3>1, PlaceIncreases, PlaceType
  <2>2. QED
    BY <1>2, <1>3, <2>1
<1>5. QED
  BY <1>4

\* The place of the last element is the number of elements.
LEMMA PlaceOfLast ==
  ASSUME NEW n \in Nat, NEW S \in SUBSET (1 .. n), n \in S
  PROVE  Place(S, n) = Cardinality(S)
<1>1. {i \in S : i <= n} = S
  BY PlacesFinite
<1>2. QED
  BY <1>1 DEF Place

LEMMA PlaceInInterval ==
  ASSUME NEW n \in Nat, NEW j \in 1 .. n
  PROVE  Place(1 .. n, j) = j /\ Cardinality(1 .. n) = n
<1>1. {i \in 1 .. n : i <= j} = 1 .. j
  OBVIOUS
<1>2. Cardinality(1 .. j) = j /\ Cardinality(1 .. n) = n
  BY FS_Interval
<1>3. QED
  BY <1>1, <1>2 DEF Place

-----------------------------------------------------------------------------
(* What a listener makes of its notifications *)

\* The last notification about k says v; when there is none, k was seen as v.
Left(p, s, k, v) ==
  /\ (\A n \in 1 .. Len(p) : p[n].key # k) => s[k] = v
  /\ \A n \in 1 .. Len(p) :
       p[n].key = k /\ (\A m \in n + 1 .. Len(p) : p[m].key # k) => p[n].version = v

\* A notification is an add if the one about the key before it, or what has been
\* seen when there is none, says that the object is absent, and only then.
AddsRight(p, s) ==
  \A n \in 1 .. Len(p) :
    /\ (\A m \in 1 .. n - 1 : p[m].key # p[n].key)
         => (p[n].kind = "add" <=> s[p[n].key] = Absent)
    /\ \A m \in 1 .. n - 1 :
         p[m].key = p[n].key /\ (\A h \in m + 1 .. n - 1 : p[h].key # p[n].key)
           => (p[n].kind = "add" <=> p[m].version = Absent)

LEMMA TailFacts ==
  ASSUME NEW p \in Seq(Notification), p # <<>>
  PROVE  /\ Len(p) \in Nat \ {0} /\ Len(Tail(p)) = Len(p) - 1
         /\ Tail(p) \in Seq(Notification)
         /\ Head(p) = p[1] /\ p[1] \in Notification
         /\ \A n \in 1 .. Len(p) - 1 : Tail(p)[n] = p[n + 1]
         /\ \A n \in 1 .. Len(p) : p[n] \in Notification
OBVIOUS

LEMMA ConcatFacts ==
  ASSUME NEW p \in Seq(Notification), NEW q \in Seq(Notification)
  PROVE  /\ p \o q \in Seq(Notification) /\ Len(p) \in Nat /\ Len(q) \in Nat
         /\ Len(p \o q) = Len(p) + Len(q)
         /\ \A n \in 1 .. Len(p) : (p \o q)[n] = p[n]
         /\ \A n \in 1 .. Len(q) : (p \o q)[Len(p) + n] = q[n]
<1>1. /\ p \o q \in Seq(Notification) /\ Len(p) \in Nat /\ Len(q) \in Nat
      /\ Len(p \o q) = Len(p) + Len(q)
      /\ \A n \in 1 .. Len(p) : (p \o q)[n] = p[n]
      /\ \A n \in Len(p) + 1 .. Len(p) + Len(q) : (p \o q)[n] = q[n - Len(p)]
  OBVIOUS
<1>2. ASSUME NEW n \in 1 .. Len(q)
      PROVE  Len(p) + n \in Len(p) + 1 .. Len(p) + Len(q) /\ (Len(p) + n) - Len(p) = n
  BY <1>1
<1>3. QED
  BY <1>1, <1>2

\* Notify makes the oldest notification what is seen.
LEMMA LeftTail ==
  ASSUME NEW p \in Seq(Notification), p # <<>>, NEW s \in Collection, NEW k \in Keys,
         NEW v, Left(p, s, k, v)
  PROVE  Left(Tail(p), [s EXCEPT ![Head(p).key] = Head(p).version], k, v)
<1> DEFINE t == Tail(p)
           N == Len(p)
           u == [s EXCEPT ![Head(p).key] = Head(p).version]
<1>1. /\ N \in Nat \ {0} /\ Len(t) = N - 1
      /\ Head(p) = p[1] /\ p[1].key \in Keys
      /\ \A n \in 1 .. N - 1 : t[n] = p[n + 1]
  BY TailFacts DEF Notification
<1>2. u[k] = IF p[1].key = k THEN p[1].version ELSE s[k]
  BY <1>1 DEF Collection
<1> HIDE DEF t, N, u
<1>3. ASSUME NEW n \in 1 .. N - 1, t[n].key = k, \A m \in n + 1 .. N - 1 : t[m].key # k
      PROVE  t[n].version = v
  <2>1. n + 1 \in 1 .. N /\ t[n] = p[n + 1]
    BY <1>1
  <2>2. ASSUME NEW m \in (n + 1) + 1 .. N PROVE p[m].key # k
    <3>1. m - 1 \in n + 1 .. N - 1 /\ m - 1 \in 1 .. N - 1 /\ (m - 1) + 1 = m
      BY <1>1
    <3>2. QED
      BY <1>1, <1>3, <3>1
  <2>3. QED
    BY <1>3, <2>1, <2>2 DEF Left, N
<1>4. ASSUME \A n \in 1 .. N - 1 : t[n].key # k PROVE u[k] = v
  <2>1. ASSUME NEW m \in 2 .. N PROVE p[m].key # k
    <3>1. m - 1 \in 1 .. N - 1 /\ (m - 1) + 1 = m
      BY <1>1
    <3>2. QED
      BY <1>1, <1>4, <3>1
  <2>2. CASE p[1].key = k
    <3>1. 1 \in 1 .. N /\ \A m \in 1 + 1 .. N : p[m].key # k
      BY <1>1, <2>1
    <3>2. p[1].version = v
      BY <2>2, <3>1 DEF Left, N
    <3>3. QED
      BY <1>2, <2>2, <3>2
  <2>3. CASE p[1].key # k
    <3>1. \A n \in 1 .. N : n = 1 \/ n \in 2 .. N
      BY <1>1
    <3>2. \A n \in 1 .. N : p[n].key # k
      BY <2>1, <2>3, <3>1
    <3>3. QED
      BY <1>2, <2>3, <3>2 DEF Left, N
  <2>4. QED
    BY <2>2, <2>3
<1>5. QED
  BY <1>1, <1>3, <1>4 DEF Left, t, u

LEMMA AddsTail ==
  ASSUME NEW p \in Seq(Notification), p # <<>>, NEW s \in Collection, AddsRight(p, s)
  PROVE  AddsRight(Tail(p), [s EXCEPT ![Head(p).key] = Head(p).version])
<1> DEFINE t == Tail(p)
           N == Len(p)
           u == [s EXCEPT ![Head(p).key] = Head(p).version]
<1>1. /\ N \in Nat \ {0} /\ Len(t) = N - 1
      /\ Head(p) = p[1] /\ p[1].key \in Keys
      /\ \A n \in 1 .. N - 1 : t[n] = p[n + 1]
      /\ \A n \in 1 .. N : p[n].key \in Keys
  BY TailFacts DEF Notification
<1>2. \A k \in Keys : u[k] = IF p[1].key = k THEN p[1].version ELSE s[k]
  BY <1>1 DEF Collection
<1> HIDE DEF t, N, u
<1>3. ASSUME NEW n \in 1 .. N - 1 PROVE n + 1 \in 1 .. N /\ t[n] = p[n + 1] /\ (n + 1) - 1 = n
  BY <1>1
<1>4. ASSUME NEW n \in 1 .. N - 1, \A m \in 1 .. n - 1 : t[m].key # t[n].key
      PROVE  t[n].kind = "add" <=> u[t[n].key] = Absent
  <2>1. ASSUME NEW m \in 2 .. n PROVE p[m].key # p[n + 1].key
    <3>1. m - 1 \in 1 .. n - 1 /\ m - 1 \in 1 .. N - 1 /\ (m - 1) + 1 = m
      BY <1>1
    <3>2. t[m - 1] = p[m] /\ t[n] = p[n + 1]
      BY <1>3, <3>1
    <3>3. t[m - 1].key # t[n].key
      BY <1>4, <3>1
    <3>4. QED
      BY <3>2, <3>3
  <2>2. CASE p[1].key = p[n + 1].key
    <3>1. 1 \in 1 .. (n + 1) - 1 /\ \A m \in 1 + 1 .. (n + 1) - 1 : p[m].key # p[n + 1].key
      BY <1>1, <2>1
    <3>2. p[n + 1].kind = "add" <=> p[1].version = Absent
      BY <1>3, <2>2, <3>1 DEF AddsRight, N
    <3>3. QED
      BY <1>1, <1>2, <1>3, <2>2, <3>2
  <2>3. CASE p[1].key # p[n + 1].key
    <3>1. \A m \in 1 .. (n + 1) - 1 : m = 1 \/ m \in 2 .. n
      BY <1>1
    <3>2. \A m \in 1 .. (n + 1) - 1 : p[m].key # p[n + 1].key
      BY <2>1, <2>3, <3>1
    <3>3. p[n + 1].kind = "add" <=> s[p[n + 1].key] = Absent
      BY <1>3, <3>2 DEF AddsRight, N
    <3>4. QED
      BY <1>1, <1>2, <1>3, <2>3, <3>3
  <2>4. QED
    BY <2>2, <2>3
<1>5. ASSUME NEW n \in 1 .. N - 1, NEW m \in 1 .. n - 1, t[m].key = t[n].key,
             \A h \in m + 1 .. n - 1 : t[h].key # t[n].key
      PROVE  t[n].kind = "add" <=> t[m].version = Absent
  <2>1. /\ m + 1 \in 1 .. (n + 1) - 1 /\ m \in 1 .. N - 1
        /\ t[m] = p[m + 1]
    BY <1>1
  <2>2. ASSUME NEW h \in (m + 1) + 1 .. (n + 1) - 1 PROVE p[h].key # p[n + 1].key
    <3>1. h - 1 \in m + 1 .. n - 1 /\ h - 1 \in 1 .. N - 1 /\ (h - 1) + 1 = h
      BY <1>1
    <3>2. QED
      BY <1>1, <1>3, <1>5, <3>1
  <2>3. QED
    BY <1>3, <1>5, <2>1, <2>2 DEF AddsRight, N
<1>6. QED
  BY <1>1, <1>4, <1>5 DEF AddsRight, t, u

\* Notifications about k leave what they say of k, and of another key what was
\* left before.
LEMMA LeftConcat ==
  ASSUME NEW p \in Seq(Notification), NEW q \in Seq(Notification), NEW s, NEW k, NEW v,
         \A n \in 1 .. Len(q) : q[n].key = k, q # <<>>, q[Len(q)].version = v
  PROVE  Left(p \o q, s, k, v)
<1> DEFINE c == p \o q
           M == Len(p)
           N == Len(q)
<1>1. /\ M \in Nat /\ N \in Nat \ {0} /\ Len(c) = M + N
      /\ \A n \in 1 .. N : c[M + n] = q[n]
  BY ConcatFacts
<1> HIDE DEF c, M, N
<1>2. M + N \in 1 .. M + N /\ c[M + N] = q[N]
  BY <1>1
<1>3. c[M + N].key = k /\ c[M + N].version = v
  BY <1>1, <1>2 DEF N
<1>4. ASSUME NEW n \in 1 .. M + N, \A m \in n + 1 .. M + N : c[m].key # k
      PROVE  n = M + N
  <2>1. n < M + N => M + N \in n + 1 .. M + N
    BY <1>1
  <2>2. QED
    BY <1>1, <1>3, <1>4, <2>1
<1>5. QED
  BY <1>1, <1>2, <1>3, <1>4 DEF Left, c

LEMMA LeftConcatOther ==
  ASSUME NEW p \in Seq(Notification), NEW q \in Seq(Notification), NEW s, NEW k, NEW v,
         \A n \in 1 .. Len(q) : q[n].key # k, Left(p, s, k, v)
  PROVE  Left(p \o q, s, k, v)
<1> DEFINE c == p \o q
           M == Len(p)
           N == Len(q)
<1>1. /\ M \in Nat /\ N \in Nat /\ Len(c) = M + N
      /\ \A n \in 1 .. M : c[n] = p[n]
      /\ \A n \in 1 .. N : c[M + n] = q[n]
  BY ConcatFacts
<1>2. ASSUME NEW n \in M + 1 .. M + N PROVE c[n].key # k
  <2>1. n - M \in 1 .. N /\ M + (n - M) = n
    BY <1>1
  <2>2. c[n] = q[n - M]
    BY <1>1, <2>1
  <2>3. QED
    BY <2>1, <2>2
<1> HIDE DEF c, M, N
<1>3. ASSUME NEW n \in 1 .. M + N PROVE n \in 1 .. M \/ n \in M + 1 .. M + N
  BY <1>1
<1>4. 1 .. M \subseteq 1 .. M + N
  BY <1>1
<1>5. (\A n \in 1 .. M + N : c[n].key # k) => s[k] = v
  BY <1>1, <1>4 DEF Left, M
<1>6. ASSUME NEW n \in 1 .. M + N, c[n].key = k, \A m \in n + 1 .. M + N : c[m].key # k
      PROVE  c[n].version = v
  <2>1. n \in 1 .. M
    BY <1>2, <1>3, <1>6
  <2>2. \A m \in n + 1 .. M : m \in n + 1 .. M + N /\ m \in 1 .. M
    BY <1>1, <2>1
  <2>3. \A m \in n + 1 .. M : p[m].key # k
    BY <1>1, <1>6, <2>2
  <2>4. QED
    BY <1>1, <1>6, <2>1, <2>3 DEF Left, M
<1>7. QED
  BY <1>1, <1>5, <1>6 DEF Left, c

\* Notifications about k that tell additions from updates, given that v was left
\* of k before them.
TellsAdds(q, k, v) ==
  \A n \in 1 .. Len(q) :
    /\ q[n].key = k
    /\ q[n].kind = "add" <=> (IF n = 1 THEN v ELSE q[n - 1].version) = Absent

LEMMA AddsConcat ==
  ASSUME NEW p \in Seq(Notification), NEW q \in Seq(Notification), NEW s, NEW k, NEW v,
         AddsRight(p, s), Left(p, s, k, v), TellsAdds(q, k, v)
  PROVE  AddsRight(p \o q, s)
<1> DEFINE c == p \o q
           M == Len(p)
           N == Len(q)
<1>1. /\ M \in Nat /\ N \in Nat /\ Len(c) = M + N
      /\ \A n \in 1 .. M : c[n] = p[n]
      /\ \A n \in 1 .. N : c[M + n] = q[n]
  BY ConcatFacts
<1>2. \A n \in 1 .. N : /\ q[n].key = k
                        /\ q[n].kind = "add" <=> (IF n = 1 THEN v ELSE q[n - 1].version) = Absent
  BY Zenon DEF TellsAdds
<1> HIDE DEF c, M, N
<1>3. ASSUME NEW n \in 1 .. M + N PROVE n \in 1 .. M \/ (n - M \in 1 .. N /\ M + (n - M) = n)
  BY <1>1
<1>4. ASSUME NEW n \in 1 .. M
      PROVE  /\ (\A m \in 1 .. n - 1 : c[m].key # c[n].key)
                  => (c[n].kind = "add" <=> s[c[n].key] = Absent)
             /\ \A m \in 1 .. n - 1 :
                  c[m].key = c[n].key /\ (\A h \in m + 1 .. n - 1 : c[h].key # c[n].key)
                    => (c[n].kind = "add" <=> c[m].version = Absent)
  <2>1. \A m \in 1 .. n - 1 : m \in 1 .. M
    BY <1>1
  <2>2. \A m \in 1 .. n - 1 : c[m] = p[m]
    BY <1>1, <2>1
  <2>3. \A m \in 1 .. n - 1 : \A h \in m + 1 .. n - 1 : h \in 1 .. n - 1
    BY <1>1
  <2>4. c[n] = p[n]
    BY <1>1
  <2>5. /\ (\A m \in 1 .. n - 1 : p[m].key # p[n].key)
             => (p[n].kind = "add" <=> s[p[n].key] = Absent)
        /\ \A m \in 1 .. n - 1 :
             p[m].key = p[n].key /\ (\A h \in m + 1 .. n - 1 : p[h].key # p[n].key)
               => (p[n].kind = "add" <=> p[m].version = Absent)
    BY Zenon DEF AddsRight, M
  <2>6. ASSUME \A m \in 1 .. n - 1 : c[m].key # c[n].key
        PROVE  c[n].kind = "add" <=> s[c[n].key] = Absent
    <3>1. \A m \in 1 .. n - 1 : p[m].key # p[n].key
      BY <2>2, <2>4, <2>6
    <3>2. QED
      BY <2>4, <2>5, <3>1
  <2>7. ASSUME NEW m \in 1 .. n - 1, c[m].key = c[n].key,
               \A h \in m + 1 .. n - 1 : c[h].key # c[n].key
        PROVE  c[n].kind = "add" <=> c[m].version = Absent
    <3>1. p[m].key = p[n].key /\ \A h \in m + 1 .. n - 1 : p[h].key # p[n].key
      BY <2>2, <2>3, <2>4, <2>7
    <3>2. QED
      BY <2>2, <2>4, <2>5, <3>1
  <2>8. QED
    BY <2>6, <2>7
<1>5. ASSUME NEW i \in 1 .. N
      PROVE  /\ (\A m \in 1 .. (M + i) - 1 : c[m].key # c[M + i].key)
                  => (c[M + i].kind = "add" <=> s[c[M + i].key] = Absent)
             /\ \A m \in 1 .. (M + i) - 1 :
                  c[m].key = c[M + i].key /\ (\A h \in m + 1 .. (M + i) - 1 : c[h].key # c[M + i].key)
                    => (c[M + i].kind = "add" <=> c[m].version = Absent)
  <2>1. /\ c[M + i].key = k
        /\ c[M + i].kind = "add" <=> (IF i = 1 THEN v ELSE q[i - 1].version) = Absent
    BY <1>1, <1>2
  <2>2. CASE i = 1
    <3>1. (M + i) - 1 = M
      BY <1>1, <2>2
    <3>2. ASSUME \A m \in 1 .. M : c[m].key # k PROVE s[k] = v
      BY <1>1, <3>2 DEF Left, M
    <3>3. ASSUME NEW m \in 1 .. M, c[m].key = k, \A h \in m + 1 .. M : c[h].key # k
          PROVE  c[m].version = v
      <4>1. \A h \in m + 1 .. M : h \in 1 .. M
        BY <1>1
      <4>2. p[m].key = k /\ \A h \in m + 1 .. M : p[h].key # k
        BY <1>1, <3>3, <4>1
      <4>3. QED
        BY <1>1, <4>2 DEF Left, M
    <3>4. QED
      BY <2>1, <2>2, <3>1, <3>2, <3>3
  <2>3. CASE i # 1
    <3>1. /\ i - 1 \in 1 .. N /\ M + (i - 1) = (M + i) - 1
          /\ (M + i) - 1 \in 1 .. (M + i) - 1
      BY <1>1, <2>3
    <3>2. c[(M + i) - 1] = q[i - 1]
      BY <1>1, <3>1
    <3>3. c[(M + i) - 1].key = k
      BY <1>2, <3>1, <3>2
    <3>4. ASSUME NEW m \in 1 .. (M + i) - 1, \A h \in m + 1 .. (M + i) - 1 : c[h].key # k
          PROVE  m = (M + i) - 1
      <4>1. m # (M + i) - 1 => (M + i) - 1 \in m + 1 .. (M + i) - 1
        BY <1>1
      <4>2. QED
        BY <3>3, <3>4, <4>1
    <3>5. QED
      BY <2>1, <2>3, <3>1, <3>2, <3>3, <3>4
  <2>4. QED
    BY <2>2, <2>3
<1>6. ASSUME NEW n \in 1 .. M + N
      PROVE  /\ (\A m \in 1 .. n - 1 : c[m].key # c[n].key)
                  => (c[n].kind = "add" <=> s[c[n].key] = Absent)
             /\ \A m \in 1 .. n - 1 :
                  c[m].key = c[n].key /\ (\A h \in m + 1 .. n - 1 : c[h].key # c[n].key)
                    => (c[n].kind = "add" <=> c[m].version = Absent)
  <2>1. CASE n \in 1 .. M
    BY <1>4, <2>1
  <2>2. CASE n - M \in 1 .. N /\ M + (n - M) = n
    BY <1>5, <2>2
  <2>3. QED
    BY <1>3, <2>1, <2>2
<1>7. QED
  BY <1>1, <1>6 DEF AddsRight, c

LEMMA AddsOfDistinct ==
  ASSUME NEW p, NEW s,
         \A n \in 1 .. Len(p) : /\ p[n].kind = "add" <=> s[p[n].key] = Absent
                                /\ \A m \in 1 .. n - 1 : ~(p[m].key = p[n].key)
  PROVE  AddsRight(p, s)
BY Zenon DEF AddsRight

\* An add for every known object, sent to a listener that has seen nothing.
LEMMA KnownSent ==
  ASSUME indexer \in [Keys -> Nat], NEW order \in SetToSeqs(Known), NEW p,
         p = [j \in DOMAIN order |-> [key |-> order[j], kind |-> "add",
                                      version |-> indexer[order[j]]]]
  PROVE  /\ p \in Seq(Notification) /\ Len(p) = Len(order)
         /\ \A j \in 1 .. Len(p) : /\ p[j].key = order[j] /\ p[j].kind = "add"
                                  /\ p[j].version = indexer[order[j]]
<1>1. order \in Seq(Keys)
  BY SetToSeqsElements DEF Known
<1>2. Len(order) \in Nat /\ DOMAIN order = 1 .. Len(order) /\ \A j \in 1 .. Len(order) : order[j] \in Keys
  BY <1>1
<1>3. \A j \in 1 .. Len(order) : [key |-> order[j], kind |-> "add",
                                  version |-> indexer[order[j]]] \in Notification
  BY <1>2 DEF Notification
<1>4. QED
  BY <1>2, <1>3

LEMMA AddsOfKnown ==
  ASSUME indexer \in [Keys -> Nat], NEW order \in SetToSeqs(Known), NEW s,
         \A k \in Keys : s[k] = Absent, NEW p, Len(p) = Len(order),
         \A j \in 1 .. Len(p) : /\ p[j].key = order[j] /\ p[j].kind = "add"
                                /\ p[j].version = indexer[order[j]]
  PROVE  AddsRight(p, s) /\ \A k \in Keys : Left(p, s, k, indexer[k])
<1> DEFINE N == Len(p)
<1>1. order \in Seq(Keys) /\ ToSet(order) = Known /\ IsInjective(order)
  BY SetToSeqsElements DEF Known
<1>2. N \in Nat /\ DOMAIN order = 1 .. N /\ \A j \in 1 .. N : order[j] \in Keys
  BY <1>1
<1>3. \A i, j \in 1 .. N : order[i] = order[j] => i = j
  BY <1>1, <1>2 DEF IsInjective
<1>4. \A j \in 1 .. N : /\ p[j].key = order[j] /\ p[j].kind = "add"
                        /\ p[j].version = indexer[order[j]]
  OBVIOUS
<1> HIDE DEF N
<1>5. ASSUME NEW n \in 1 .. N
      PROVE  p[n].kind = "add" <=> s[p[n].key] = Absent
  BY <1>2, <1>4
<1>6. ASSUME NEW n \in 1 .. N, NEW m \in 1 .. n - 1 PROVE ~(p[m].key = p[n].key)
  <2>1. m \in 1 .. N /\ m # n
    BY <1>2
  <2>2. QED
    BY <1>3, <1>4, <2>1
<1>7. AddsRight(p, s)
  BY <1>5, <1>6, AddsOfDistinct DEF N
<1>8. ASSUME NEW k \in Keys PROVE Left(p, s, k, indexer[k])
  <2>1. ASSUME \A n \in 1 .. N : p[n].key # k PROVE s[k] = indexer[k]
    <3>1. k \notin ToSet(order)
      BY <1>2, <1>4, <2>1 DEF ToSet
    <3>2. QED
      BY <1>1, <3>1 DEF Known
  <2>2. \A n \in 1 .. N : p[n].key = k => p[n].version = indexer[k]
    BY <1>4
  <2>3. QED
    BY <2>1, <2>2 DEF Left, N
<1>9. QED
  BY <1>7, <1>8

\* Left describes View.
LEMMA ViewOfLeft ==
  ASSUME InformerTypeOK, NEW l \in Listeners, NEW k \in Keys, NEW v,
         Left(pending[l], seen[l], k, v)
  PROVE  View(l, k) = v
<1> DEFINE p == pending[l]
           N == Len(p)
           about == {n \in 1 .. N : p[n].key = k}
           m == CHOOSE n \in about : \A i \in about : i <= n
<1>1. p \in Seq(Notification) /\ N \in Nat /\ DOMAIN p = 1 .. N
  BY DEF InformerTypeOK
<1>2. View(l, k) = IF about = {} THEN seen[l][k] ELSE p[m].version
  BY <1>1 DEF View
<1>3. CASE about = {}
  BY <1>2, <1>3 DEF Left
<1>4. CASE about # {}
  <2>1. about \in SUBSET (1 .. N)
    OBVIOUS
  <2>2. m \in about /\ \A i \in about : i <= m
    <3> HIDE DEF about
    <3>1. \E n \in about : \A i \in about : i <= n
      BY <1>1, <1>4, <2>1, LastPlace
    <3>2. QED
      BY <3>1
  <2> HIDE DEF m
  <2>3. m \in 1 .. N /\ p[m].key = k
    BY <2>2
  <2>4. ASSUME NEW i \in m + 1 .. N PROVE p[i].key # k
    <3>1. i \in 1 .. N /\ ~(i <= m)
      BY <1>1, <2>3
    <3>2. QED
      BY <2>2, <3>1
  <2>5. p[m].version = v
    BY <2>3, <2>4 DEF Left
  <2>6. QED
    BY <1>2, <1>4, <2>5
<1>5. QED
  BY <1>3, <1>4

-----------------------------------------------------------------------------
(* What distribute sends *)

LEMMA NotificationsType ==
  ASSUME FifoTypeOK, NEW k \in Keys
  PROVE  /\ Notifications(k) \in Seq(Notification)
         /\ items[k] \in Seq(Delta) /\ Len(items[k]) \in Nat
         /\ DOMAIN items[k] = 1 .. Len(items[k])
         /\ Len(Notifications(k)) = Len(items[k])
         /\ DOMAIN Notifications(k) = 1 .. Len(items[k])
         /\ \A j \in 1 .. Len(items[k]) :
              /\ Notifications(k)[j] \in Notification
              /\ items[k][j] \in Delta
              /\ Notifications(k)[j].key = k
              /\ Notifications(k)[j].version = items[k][j].version
              /\ Notifications(k)[j].kind =
                   IF items[k][j].type = "Deleted" THEN "delete"
                   ELSE IF (IF j = 1 THEN indexer[k] ELSE items[k][j - 1].version) = Absent
                        THEN "add" ELSE "update"
<1> DEFINE N == Len(items[k])
           note(j) == [key |-> k, version |-> items[k][j].version,
                       kind |-> IF items[k][j].type = "Deleted" THEN "delete"
                                ELSE IF (IF j = 1 THEN indexer[k] ELSE items[k][j - 1].version) = Absent
                                     THEN "add" ELSE "update"]
<1>1. items[k] \in Seq(Delta) /\ N \in Nat /\ DOMAIN items[k] = 1 .. N
  BY DEF FifoTypeOK
<1>2. \A d \in Delta : d.version \in Nat
  BY DEF Delta, Absent
<1>3. \A j \in 1 .. N : items[k][j] \in Delta
  BY <1>1
<1>4. \A j \in 1 .. N : note(j) \in Notification
  BY <1>2, <1>3 DEF Notification
<1>5. Notifications(k) = [j \in 1 .. N |-> note(j)]
  BY <1>1 DEF Notifications
<1>6. /\ Notifications(k) \in Seq(Notification)
      /\ Len(Notifications(k)) = N /\ DOMAIN Notifications(k) = 1 .. N
  <2> HIDE DEF note
  <2>1. QED
    BY <1>1, <1>4, <1>5
<1>7. \A j \in 1 .. N : Notifications(k)[j] = note(j)
  BY <1>5
<1>8. ASSUME NEW j \in 1 .. N
      PROVE  /\ note(j).key = k
             /\ note(j).version = items[k][j].version
             /\ note(j).kind =
                  IF items[k][j].type = "Deleted" THEN "delete"
                  ELSE IF (IF j = 1 THEN indexer[k] ELSE items[k][j - 1].version) = Absent
                       THEN "add" ELSE "update"
  OBVIOUS
<1> HIDE DEF note
<1>9. QED
  BY <1>1, <1>3, <1>4, <1>6, <1>7, <1>8

LEMMA DistributedType ==
  ASSUME FifoTypeOK, NEW k \in Keys, NEW l
  PROVE  /\ Distributed(k, l) \in Seq(Notification)
         /\ \A n \in 1 .. Len(Distributed(k, l)) : Distributed(k, l)[n].key = k
<1> DEFINE N == Len(items[k])
           S == Told(k, l)
           at(n) == CHOOSE j \in S : Place(S, j) = n
<1>1. N \in Nat /\ S \in SUBSET (1 .. N)
  BY NotificationsType DEF Told
<1>2. Cardinality(S) \in Nat
  BY <1>1, PlacesFinite
<1> HIDE DEF S
<1>3. \A n \in 1 .. Cardinality(S) : at(n) \in S
  BY <1>1, PlaceTaken
<1> HIDE DEF at
<1>4. \A n \in 1 .. Cardinality(S) :
        Notifications(k)[at(n)] \in Notification /\ Notifications(k)[at(n)].key = k
  BY <1>1, <1>3, NotificationsType
<1>5. Distributed(k, l) = [n \in 1 .. Cardinality(S) |-> Notifications(k)[at(n)]]
  BY DEF Distributed, S, at
<1>6. QED
  BY <1>2, <1>4, <1>5

\* A syncing listener is told of every delta.
LEMMA DistributedAll ==
  ASSUME FifoTypeOK, NEW k \in Keys, NEW l \in syncing
  PROVE  Distributed(k, l) = Notifications(k)
<1> DEFINE N == Len(items[k])
           at(S, n) == CHOOSE j \in S : Place(S, j) = n
<1>1. /\ N \in Nat /\ Told(k, l) = 1 .. N /\ DOMAIN Notifications(k) = 1 .. N
      /\ Notifications(k) \in Seq(Notification)
  BY NotificationsType DEF Told
<1>2. Cardinality(1 .. N) = N
  BY <1>1, FS_Interval
<1>3. ASSUME NEW n \in 1 .. N PROVE at(1 .. N, n) = n
  <2>1. \A j \in 1 .. N : Place(1 .. N, j) = j
    BY <1>1, PlaceInInterval
  <2>2. QED
    BY <2>1
<1> HIDE DEF at
<1>4. Distributed(k, l) = [n \in 1 .. N |-> Notifications(k)[at(1 .. N, n)]]
  BY <1>1, <1>2 DEF Distributed, at
<1>5. Distributed(k, l) = [n \in 1 .. N |-> Notifications(k)[n]]
  BY <1>3, <1>4
<1>6. QED
  BY <1>1, <1>5

\* Every listener is told of a last delta that is not a Sync, and that last.
LEMMA DistributedLast ==
  ASSUME FifoTypeOK, NEW k \in Keys, NEW l, items[k] # <<>>, Last(items[k]).type # "Sync"
  PROVE  /\ Distributed(k, l) # <<>>
         /\ Distributed(k, l)[Len(Distributed(k, l))].version = Last(items[k]).version
<1> DEFINE N == Len(items[k])
           S == Told(k, l)
           c == Cardinality(S)
           at(n) == CHOOSE j \in S : Place(S, j) = n
<1>1. N \in Nat \ {0} /\ S \in SUBSET (1 .. N) /\ DOMAIN items[k] = 1 .. N
  BY NotificationsType DEF Told
<1>2. N \in S
  BY <1>1 DEF Told, Last
<1>3. IsFiniteSet(S) /\ c \in Nat
  BY <1>1, PlacesFinite
<1> HIDE DEF S
<1>4. c # 0
  BY <1>2, <1>3, FS_EmptySet
<1>5. Place(S, N) = c
  BY <1>1, <1>2, PlaceOfLast
<1>6. \A j \in S : Place(S, j) = c => j = N
  BY <1>1, <1>2, <1>5, PlaceInjective
<1>7. at(c) = N
  BY <1>2, <1>5, <1>6
<1> HIDE DEF at
<1>8. Distributed(k, l) = [n \in 1 .. c |-> Notifications(k)[at(n)]]
  BY DEF Distributed, S, at
<1> HIDE DEF c
<1>9. /\ Len(Distributed(k, l)) = c /\ Distributed(k, l) # <<>>
      /\ Distributed(k, l)[c] = Notifications(k)[N]
  BY <1>3, <1>4, <1>7, <1>8
<1>10. Notifications(k)[N].version = Last(items[k]).version
  BY <1>1, NotificationsType DEF Last
<1>11. QED
  BY <1>9, <1>10

-----------------------------------------------------------------------------
(* A Deleted delta deletes something *)

SoundDeltas(s, v) ==
  \A j \in 1 .. Len(s) :
    s[j].type = "Deleted" => (IF j = 1 THEN v ELSE s[j - 1].version) # Absent

DeltasInv == \A k \in Keys : SoundDeltas(items[k], indexer[k])

\* queueActionLocked does not add a second Deleted, and a first one only for a
\* known object.
LEMMA NewDeltasSound ==
  ASSUME FifoTypeOK, NEW k \in Keys, NEW d \in Delta, SoundDeltas(items[k], indexer[k]),
         d.type = "Deleted" => items[k] # <<>> \/ indexer[k] # Absent
  PROVE  SoundDeltas(NewDeltas(k, d), indexer[k])
<1> DEFINE s == items[k]
           N == Len(s)
           t == Append(s, d)
<1>1. s \in Seq(Delta) /\ N \in Nat /\ \A j \in 1 .. N : s[j] \in Delta
  BY DEF FifoTypeOK
<1>2. CASE NewDeltas(k, d) = s
  BY <1>2
<1>3. CASE NewDeltas(k, d) = t /\ ~(WillObjectBeDeleted(k) /\ d.type \in {"Sync", "Deleted"})
  <2>1. /\ Len(t) = N + 1 /\ t[N + 1] = d
        /\ \A j \in 1 .. N : t[j] = s[j]
    BY <1>1
  <2> HIDE DEF t
  <2>2. ASSUME NEW j \in 1 .. N, t[j].type = "Deleted"
        PROVE  (IF j = 1 THEN indexer[k] ELSE t[j - 1].version) # Absent
    <3>1. j # 1 => j - 1 \in 1 .. N
      BY <1>1
    <3>2. t[j] = s[j] /\ (j # 1 => t[j - 1] = s[j - 1])
      BY <2>1, <3>1
    <3>3. QED
      BY <2>2, <3>2 DEF SoundDeltas
  <2>3. ASSUME d.type = "Deleted"
        PROVE  (IF N + 1 = 1 THEN indexer[k] ELSE t[(N + 1) - 1].version) # Absent
    <3>1. CASE N = 0
      <4>1. s = <<>>
        BY <1>1, <3>1
      <4>2. QED
        BY <2>3, <3>1, <4>1
    <3>2. CASE N # 0
      <4>1. N \in 1 .. N /\ (N + 1) - 1 = N /\ N + 1 # 1 /\ s # <<>>
        BY <1>1, <3>2
      <4>2. s[N].type # "Deleted"
        BY <1>3, <2>3, <4>1 DEF WillObjectBeDeleted, Last
      <4>3. \A e \in Delta : e.type # "Deleted" => e.version # Absent
        BY DEF Delta
      <4>4. t[N].version # Absent
        BY <1>1, <2>1, <4>1, <4>2, <4>3
      <4>5. QED
        BY <4>1, <4>4
    <3>3. QED
      BY <3>1, <3>2
  <2>4. \A j \in 1 .. N + 1 : j \in 1 .. N \/ j = N + 1
    BY <1>1
  <2>5. QED
    BY <1>3, <2>1, <2>2, <2>3, <2>4 DEF SoundDeltas
<1>4. QED
  BY <1>2, <1>3 DEF NewDeltas

LEMMA DeltasNextInv ==
  CacheInv /\ DeltasInv /\ [CacheNext]_cacheVars => DeltasInv'
<1> SUFFICES ASSUME CacheInv, DeltasInv, [CacheNext]_cacheVars PROVE DeltasInv'
  OBVIOUS
<1>1. /\ FifoTypeOK /\ items \in [Keys -> Seq(Delta)] /\ indexer \in [Keys -> Nat]
      /\ history \in Seq(Collection)
  BY DEF CacheInv, CacheTypeOK, FifoTypeOK
<1>2. CASE UNCHANGED <<items, indexer>>
  BY <1>2 DEF DeltasInv
<1>3. ASSUME NEW k \in Keys, NEW d \in Delta, items' = [items EXCEPT ![k] = NewDeltas(k, d)],
             d.type = "Deleted" => items[k] # <<>> \/ indexer[k] # Absent, indexer' = indexer
      PROVE  DeltasInv'
  <2>1. SoundDeltas(NewDeltas(k, d), indexer[k])
    BY <1>1, <1>3, NewDeltasSound DEF DeltasInv
  <2>2. \A j \in Keys : items'[j] = IF j = k THEN NewDeltas(k, d) ELSE items[j]
    BY <1>1, <1>3
  <2>3. QED
    BY <1>3, <2>1, <2>2 DEF DeltasInv
<1>4. ASSUME NEW first \in SUBSET Keys, NEW second \in SUBSET Keys, NEW delta,
             \A k \in first \cup second : delta[k] \in Delta,
             \A k \in first \cup second : delta[k].type = "Deleted" => indexer[k] # Absent,
             QueueActions(first, second, delta), indexer' = indexer
      PROVE  DeltasInv'
  <2>1. ASSUME NEW k \in first \cup second PROVE SoundDeltas(NewDeltas(k, delta[k]), indexer[k])
    <3>1. k \in Keys /\ delta[k] \in Delta /\ (delta[k].type = "Deleted" => indexer[k] # Absent)
          /\ SoundDeltas(items[k], indexer[k])
      BY <1>4 DEF DeltasInv
    <3>2. QED
      BY <1>1, <3>1, NewDeltasSound
  <2>2. \A k \in Keys : items'[k] = IF k \in first \cup second THEN NewDeltas(k, delta[k]) ELSE items[k]
    BY <1>4 DEF QueueActions
  <2>3. QED
    BY <1>4, <2>1, <2>2 DEF DeltasInv
<1>5. ASSUME NEW r \in DOMAIN history, List(r) PROVE DeltasInv'
  <2> DEFINE list   == history[r]
             listed == {k \in Keys : list[k] # Absent}
             gone   == Known \ listed
             delta  == [k \in Keys |-> IF k \in listed
                          THEN [type |-> "Sync", version |-> list[k]] ELSE Deleted]
  <2>1. list \in Collection
    BY <1>1
  <2>2. QueueActions(listed, gone, delta) /\ indexer' = indexer
    BY <1>5 DEF List, Replace
  <2>3. \A k \in listed \cup gone : delta[k] \in Delta
    BY <2>1, ReplaceDeltas DEF Known
  <2>4. \A k \in listed \cup gone : delta[k].type = "Deleted" => indexer[k] # Absent
    BY DEF Known
  <2>5. listed \in SUBSET Keys /\ gone \in SUBSET Keys
    BY DEF Known
  <2> HIDE DEF listed, gone, delta
  <2>6. QED
    BY <1>4, <2>2, <2>3, <2>4, <2>5
<1>6. ASSUME NEW k \in Keys, WatchEvent(k) PROVE DeltasInv'
  <2>1. history[version + 1][k] \in Nat
    BY <1>1, <1>6 DEF WatchEvent, CacheInv, CacheTypeOK, Collection
  <2>2. ASSUME NEW type \in {"Added", "Updated"}, NEW v \in Nat \ {Absent}, AddDelta(k, type, v)
        PROVE  DeltasInv'
    <3> DEFINE d == [type |-> type, version |-> v]
    <3>1. d \in Delta /\ d.type # "Deleted"
      BY DEF Delta
    <3>2. items' = [items EXCEPT ![k] = NewDeltas(k, d)] /\ indexer' = indexer
      BY <2>2 DEF AddDelta, QueueAction
    <3> HIDE DEF d
    <3>3. QED
      BY <1>3, <3>1, <3>2
  <2>3. ASSUME Delete(k) PROVE DeltasInv'
    <3>1. indexer' = indexer
      BY <2>3 DEF Delete
    <3>2. CASE k \in Known \cup Queued
      <4>1. items' = [items EXCEPT ![k] = NewDeltas(k, Deleted)]
        BY <2>3, <3>2 DEF Delete, QueueAction
      <4>2. Deleted \in Delta /\ (items[k] # <<>> \/ indexer[k] # Absent)
        BY <3>2 DEF Known, Queued, Delta, Deleted
      <4>3. QED
        BY <1>3, <3>1, <4>1, <4>2
    <3>3. CASE k \notin Known \cup Queued
      BY <1>2, <2>3, <3>1, <3>3 DEF Delete
    <3>4. QED
      BY <3>2, <3>3
  <2>4. QED
    BY <1>6, <2>1, <2>2, <2>3 DEF WatchEvent
<1>7. ASSUME ResyncStore PROVE DeltasInv'
  <2> DEFINE delta == [k \in Keys |-> [type |-> "Sync", version |-> indexer[k]]]
  <2>1. \A k \in (Known \ Queued) \cup {} : delta[k] \in Delta /\ delta[k].type # "Deleted"
    BY <1>1 DEF Known, Delta, Absent
  <2>2. QueueActions(Known \ Queued, {}, delta) /\ indexer' = indexer
    BY <1>7 DEF ResyncStore, Resync
  <2>3. Known \ Queued \in SUBSET Keys /\ {} \in SUBSET Keys
    BY DEF Known
  <2> HIDE DEF delta
  <2>4. QED
    BY <1>4, <2>1, <2>2, <2>3
<1>8. ASSUME Process PROVE DeltasInv'
  <2> DEFINE h == Head(queue)
  <2>1. h \in Keys
    BY <1>1, <1>8 DEF Process, PopItem, FifoTypeOK
  <2>2. \A k \in Keys : /\ items'[k] = IF k = h THEN <<>> ELSE items[k]
                        /\ k # h => indexer'[k] = indexer[k]
    BY <1>1, <1>8, <2>1 DEF Process, PopItem
  <2>3. \A v : SoundDeltas(<<>>, v)
    BY DEF SoundDeltas
  <2>4. QED
    BY <2>2, <2>3 DEF DeltasInv
<1>9. CASE \/ \E k \in Keys, v \in 0 .. MaxVersion : Write(k, v)
           \/ WatchFails \/ ReflectorStops \/ ProcessWaits \/ Stop \/ CloseQueue
           \/ UNCHANGED cacheVars
  <2>1. UNCHANGED <<items, indexer>>
    BY <1>9 DEF Write, WatchFails, ReflectorStops, ProcessWaits, PopEmpty, PopWait, Stop,
           CloseQueue, Close, cacheVars, fifoVars
  <2>2. QED
    BY <1>2, <2>1
<1>10. QED
  BY <1>5, <1>6, <1>7, <1>8, <1>9 DEF CacheNext, CacheStep

LEMMA DeltasInitInv == CacheInit => DeltasInv
BY DEF CacheInit, FifoInit, DeltasInv, SoundDeltas

-----------------------------------------------------------------------------
(* The listeners *)

\* A handler that was not added has nothing to do.  Until a resync every listener
\* is a syncing one, and its notifications leave it with the indexer; later they
\* still leave it without the objects that the indexer does not have.
ListenersInv ==
  /\ resyncs = 0 => syncing = listeners
  /\ \A l \in Listeners \ listeners :
       pending[l] = <<>> /\ \A k \in Keys : seen[l][k] = Absent
  /\ resyncs = 0 => \A l \in listeners : AddsRight(pending[l], seen[l])
  /\ \A l \in listeners, k \in Keys :
       resyncs = 0 \/ indexer[k] = Absent => Left(pending[l], seen[l], k, indexer[k])

InformerInv == InformerTypeOK /\ CacheInv /\ QueueInv /\ DeltasInv /\ ListenersInv

LEMMA InformerStepsCache == InformerNext => CacheNext \/ UNCHANGED cacheVars
BY DEF InformerNext, HandleDeltas, ShouldResync, ResyncListeners, AddEventHandler, Notify,
   CacheNext

LEMMA NotifyInv ==
  ASSUME InformerInv, NEW l \in Listeners, Notify(l)
  PROVE  ListenersInv' /\ pending' \in [Listeners -> Seq(Notification)]
                       /\ seen' \in [Listeners -> Collection]
<1> DEFINE p == pending[l]
           n == Head(p)
           u == [seen[l] EXCEPT ![n.key] = n.version]
<1>1. /\ pending \in [Listeners -> Seq(Notification)] /\ seen \in [Listeners -> Collection]
      /\ p \in Seq(Notification) /\ p # <<>> /\ seen[l] \in Collection
      /\ listeners \in SUBSET Listeners
  BY DEF InformerInv, InformerTypeOK, Notify
<1>2. Tail(p) \in Seq(Notification) /\ n \in Notification
  BY <1>1, TailFacts
<1>3. n.key \in Keys /\ n.version \in Nat /\ u \in Collection
  BY <1>1, <1>2 DEF Notification, Collection
<1>4. /\ pending' = [pending EXCEPT ![l] = Tail(p)]
      /\ seen' = [seen EXCEPT ![l] = u]
      /\ UNCHANGED <<indexer, resyncs, listeners, syncing>>
  BY <1>1 DEF Notify, cacheVars
<1>5. \A m \in Listeners : /\ pending'[m] = IF m = l THEN Tail(p) ELSE pending[m]
                           /\ seen'[m] = IF m = l THEN u ELSE seen[m]
  BY <1>1, <1>4
<1>6. l \in listeners
  BY <1>1 DEF InformerInv, ListenersInv
<1>7. \A k \in Keys : \A v : Left(p, seen[l], k, v) => Left(Tail(p), u, k, v)
  BY <1>1, LeftTail
<1>8. AddsRight(p, seen[l]) => AddsRight(Tail(p), u)
  BY <1>1, AddsTail
<1> HIDE DEF p, n, u
<1>9. \A m \in listeners : m \in Listeners
  BY <1>1
<1>10. resyncs' = 0 => \A m \in listeners' : AddsRight(pending'[m], seen'[m])
  BY <1>4, <1>5, <1>8, <1>9 DEF InformerInv, ListenersInv, p
<1>11. \A m \in listeners', k \in Keys :
         resyncs' = 0 \/ indexer'[k] = Absent => Left(pending'[m], seen'[m], k, indexer'[k])
  BY <1>4, <1>5, <1>7, <1>9 DEF InformerInv, ListenersInv, p
<1>12. /\ resyncs' = 0 => syncing' = listeners'
       /\ \A m \in Listeners \ listeners' :
            pending'[m] = <<>> /\ \A k \in Keys : seen'[m][k] = Absent
  BY <1>4, <1>5, <1>6 DEF InformerInv, ListenersInv
<1>13. ListenersInv'
  BY <1>10, <1>11, <1>12 DEF ListenersInv
<1>14. QED
  BY <1>1, <1>2, <1>3, <1>4, <1>13

LEMMA AddEventHandlerInv ==
  ASSUME InformerInv, NEW l \in Listeners, AddEventHandler(l)
  PROVE  ListenersInv' /\ pending' \in [Listeners -> Seq(Notification)]
<1>1. /\ pending \in [Listeners -> Seq(Notification)] /\ indexer \in [Keys -> Nat]
      /\ listeners \in SUBSET Listeners /\ l \notin listeners
  BY DEF InformerInv, InformerTypeOK, CacheTypeOK, FifoTypeOK, AddEventHandler
<1>2. PICK order \in SetToSeqs(Known) :
        pending' = [pending EXCEPT ![l] =
          [j \in DOMAIN order |-> [key |-> order[j], kind |-> "add",
                                   version |-> indexer[order[j]]]]]
  BY DEF AddEventHandler
<1> DEFINE p == [j \in DOMAIN order |-> [key |-> order[j], kind |-> "add",
                                         version |-> indexer[order[j]]]]
<1>3. /\ p \in Seq(Notification) /\ Len(p) = Len(order)
      /\ \A j \in 1 .. Len(p) : /\ p[j].key = order[j] /\ p[j].kind = "add"
                                /\ p[j].version = indexer[order[j]]
  BY <1>1, KnownSent
<1>4. \A m \in Listeners : pending'[m] = IF m = l THEN p ELSE pending[m]
  BY <1>1, <1>2
<1>5. pending' \in [Listeners -> Seq(Notification)]
  BY <1>1, <1>2, <1>3
<1> HIDE DEF p
<1>6. \A k \in Keys : seen[l][k] = Absent
  BY <1>1 DEF InformerInv, ListenersInv
<1>7. AddsRight(p, seen[l]) /\ \A k \in Keys : Left(p, seen[l], k, indexer[k])
  BY <1>1, <1>3, <1>6, AddsOfKnown
<1>8. /\ listeners' = listeners \cup {l} /\ syncing' = syncing \cup {l}
      /\ UNCHANGED <<indexer, resyncs, seen>>
  BY DEF AddEventHandler, cacheVars
<1>9. \A m \in listeners' : m = l \/ (m \in listeners /\ m \in Listeners /\ m # l)
  BY <1>1, <1>8
<1>10. resyncs' = 0 => \A m \in listeners' : AddsRight(pending'[m], seen'[m])
  BY <1>4, <1>7, <1>8, <1>9 DEF InformerInv, ListenersInv
<1>11. \A m \in listeners', k \in Keys :
         resyncs' = 0 \/ indexer'[k] = Absent => Left(pending'[m], seen'[m], k, indexer'[k])
  BY <1>4, <1>7, <1>8, <1>9 DEF InformerInv, ListenersInv
<1>12. /\ resyncs' = 0 => syncing' = listeners'
       /\ \A m \in Listeners \ listeners' :
            pending'[m] = <<>> /\ \A k \in Keys : seen'[m][k] = Absent
  BY <1>4, <1>8 DEF InformerInv, ListenersInv
<1>13. QED
  BY <1>5, <1>10, <1>11, <1>12 DEF ListenersInv

LEMMA HandleDeltasInv ==
  ASSUME InformerInv, HandleDeltas
  PROVE  ListenersInv' /\ pending' \in [Listeners -> Seq(Notification)]
<1> DEFINE h == Head(queue)
           d(l) == Distributed(h, l)
<1>1. /\ FifoTypeOK /\ queue \in Seq(Keys) /\ queue # <<>> /\ items \in [Keys -> Seq(Delta)]
      /\ indexer \in [Keys -> Nat] /\ pending \in [Listeners -> Seq(Notification)]
      /\ listeners \in SUBSET Listeners
  BY DEF InformerInv, InformerTypeOK, CacheTypeOK, FifoTypeOK, HandleDeltas, Process, PopItem
<1>2. h \in Keys /\ items[h] # <<>>
  <2>1. h \in Keys /\ h \in ToSet(queue)
    BY <1>1 DEF ToSet
  <2>2. QED
    BY <2>1 DEF InformerInv, QueueInv, ItemsQueued, Queued
<1>3. /\ \A k \in Keys : indexer'[k] = IF k = h THEN Last(items[h]).version ELSE indexer[k]
      /\ UNCHANGED <<resyncs, listeners, syncing, seen>>
  BY <1>1, <1>2 DEF HandleDeltas, Process, PopItem, Applied
<1>4. ASSUME NEW l \in Listeners
      PROVE  /\ d(l) \in Seq(Notification)
             /\ \A n \in 1 .. Len(d(l)) : d(l)[n].key = h
  BY <1>1, <1>2, DistributedType
<1>5. ASSUME NEW l \in Listeners, Last(items[h]).type # "Sync"
      PROVE  d(l) # <<>> /\ d(l)[Len(d(l))].version = Last(items[h]).version
  BY <1>1, <1>2, <1>5, DistributedLast
<1>6. ASSUME NEW l \in syncing PROVE d(l) = Notifications(h)
  BY <1>1, <1>2, DistributedAll
<1> HIDE DEF d
<1>7. pending' = [l \in Listeners |-> IF l \in listeners THEN pending[l] \o d(l) ELSE pending[l]]
  BY DEF HandleDeltas, d
<1>8. pending' \in [Listeners -> Seq(Notification)]
  <2>1. \A l \in Listeners : pending[l] \o d(l) \in Seq(Notification)
    BY <1>1, <1>4
  <2>2. QED
    BY <1>1, <1>7, <2>1
<1>9. \A l \in listeners : l \in Listeners /\ pending'[l] = pending[l] \o d(l) /\ pending[l] \in Seq(Notification)
  BY <1>1, <1>7
<1> DEFINE t == Notifications(h)
           N == Len(items[h])
<1>10. /\ t \in Seq(Notification) /\ N \in Nat \ {0} /\ Len(t) = N /\ t # <<>>
       /\ \A n \in 1 .. N : /\ t[n].key = h /\ t[n].version = items[h][n].version
                            /\ items[h][n] \in Delta
       /\ \A n \in 1 .. N :
              t[n].kind = IF items[h][n].type = "Deleted" THEN "delete"
                          ELSE IF (IF n = 1 THEN indexer[h] ELSE items[h][n - 1].version) = Absent
                               THEN "add" ELSE "update"
  <2>1. items[h] \in Seq(Delta)
    BY <1>1, <1>2
  <2>2. N \in Nat \ {0}
    BY <1>2, <2>1
  <2>3. /\ t \in Seq(Notification) /\ Len(t) = N
        /\ \A n \in 1 .. N : /\ t[n].key = h /\ t[n].version = items[h][n].version
                             /\ items[h][n] \in Delta
    BY <1>1, <1>2, NotificationsType
  <2>4. \A n \in 1 .. N :
              t[n].kind = IF items[h][n].type = "Deleted" THEN "delete"
                          ELSE IF (IF n = 1 THEN indexer[h] ELSE items[h][n - 1].version) = Absent
                               THEN "add" ELSE "update"
    BY <1>1, <1>2, NotificationsType
  <2>5. t # <<>>
    BY <2>2, <2>3
  <2>6. QED
    BY <2>2, <2>3, <2>4, <2>5
<1>11. \A n \in 1 .. N : /\ t[n].key = h
                         /\ t[n].kind = "add" <=> (IF n = 1 THEN indexer[h] ELSE t[n - 1].version) = Absent
  <2>1. ASSUME NEW n \in 1 .. N
        PROVE  t[n].kind = "add" <=> (IF n = 1 THEN indexer[h] ELSE t[n - 1].version) = Absent
    <3>1. items[h][n].type = "Deleted" => (IF n = 1 THEN indexer[h] ELSE items[h][n - 1].version) # Absent
      BY <1>2 DEF InformerInv, DeltasInv, SoundDeltas
    <3>2. n # 1 => n - 1 \in 1 .. N
      BY <1>10
    <3>3. n # 1 => t[n - 1].version = items[h][n - 1].version
      BY <1>10, <3>2
    <3>4. CASE n = 1
      BY <1>10, <3>1, <3>4
    <3>5. CASE n # 1
      BY <1>10, <3>1, <3>3, <3>5
    <3>6. QED
      BY <3>4, <3>5
  <2>2. QED
    BY <1>10, <2>1
<1>12. t[Len(t)].version = Last(items[h]).version
  BY <1>10 DEF Last
<1> HIDE DEF t, N, h
<1>13. ASSUME resyncs = 0, NEW l \in listeners
       PROVE  /\ d(l) = t
              /\ AddsRight(pending[l], seen[l]) /\ Left(pending[l], seen[l], h, indexer[h])
  BY <1>2, <1>6, <1>13 DEF InformerInv, ListenersInv, t
<1>14. ASSUME resyncs = 0, NEW l \in listeners PROVE AddsRight(pending'[l], seen[l])
  <2>1. Len(t) = N /\ t \in Seq(Notification) /\ pending[l] \in Seq(Notification)
    BY <1>9, <1>10
  <2>2. TellsAdds(t, h, indexer[h])
    BY <1>11, <2>1, Zenon DEF TellsAdds
  <2>3. AddsRight(pending[l], seen[l]) /\ Left(pending[l], seen[l], h, indexer[h])
    BY <1>13, <1>14
  <2>4. AddsRight(pending[l] \o t, seen[l])
    BY <2>1, <2>2, <2>3, AddsConcat
  <2>5. QED
    BY <1>9, <1>13, <1>14, <2>4
<1>15. ASSUME NEW l \in listeners, NEW k \in Keys, resyncs = 0 \/ indexer'[k] = Absent
       PROVE  Left(pending'[l], seen[l], k, indexer'[k])
  <2>1. CASE k # h
    <3>1. indexer'[k] = indexer[k] /\ Left(pending[l], seen[l], k, indexer[k])
      BY <1>3, <1>15, <2>1 DEF InformerInv, ListenersInv
    <3>2. \A n \in 1 .. Len(d(l)) : d(l)[n].key # k
      BY <1>4, <1>9, <2>1
    <3>3. Left(pending[l] \o d(l), seen[l], k, indexer[k])
      BY <1>4, <1>9, <3>1, <3>2, LeftConcatOther
    <3>4. QED
      BY <1>9, <3>1, <3>3
  <2>2. CASE k = h
    <3>1. indexer'[k] = Last(items[h]).version
      BY <1>3, <2>2
    <3>2. d(l) # <<>> /\ d(l)[Len(d(l))].version = Last(items[h]).version
      <4>1. CASE resyncs = 0
        BY <1>10, <1>12, <1>13, <4>1
      <4>2. CASE resyncs # 0
        <5>1. Last(items[h]).version = Absent
          BY <1>15, <3>1, <4>2
        <5>2. Last(items[h]) \in Delta
          BY <1>10 DEF Last, N
        <5>3. \A e \in Delta : e.version = Absent => e.type # "Sync"
          BY DEF Delta
        <5>4. QED
          BY <1>5, <1>9, <5>1, <5>2, <5>3
      <4>3. QED
        BY <4>1, <4>2
    <3>3. Left(pending[l] \o d(l), seen[l], h, Last(items[h]).version)
      BY <1>4, <1>9, <3>2, LeftConcat
    <3>4. QED
      BY <1>9, <2>2, <3>1, <3>3
  <2>3. QED
    BY <2>1, <2>2
<1>16. \A l \in Listeners \ listeners : pending'[l] = pending[l]
  BY <1>7
<1>17. /\ resyncs' = 0 => syncing' = listeners'
       /\ \A l \in Listeners \ listeners' :
            pending'[l] = <<>> /\ \A k \in Keys : seen'[l][k] = Absent
  BY <1>3, <1>16 DEF InformerInv, ListenersInv
<1>18. ListenersInv'
  BY <1>3, <1>14, <1>15, <1>17 DEF ListenersInv
<1>19. QED
  BY <1>8, <1>18

\* The listeners are left alone, and so is the indexer.
LEMMA ListenersUnchanged ==
  ASSUME InformerInv, indexer' = indexer, UNCHANGED <<listeners, pending, seen>>,
         resyncs' = 0 => resyncs = 0 /\ syncing' = syncing
  PROVE  ListenersInv'
BY DEF InformerInv, ListenersInv

LEMMA IndexerUnchanged == CacheStep \/ ResyncStore => indexer' = indexer
BY DEF CacheStep, ResyncStore, Write, List, Replace, WatchEvent, AddDelta, Delete,
   WatchFails, ReflectorStops, ProcessWaits, PopEmpty, PopWait, Stop, CloseQueue, Close, Resync

LEMMA InformerNextInv == InformerInv /\ [InformerNext]_informerVars => InformerInv'
<1> SUFFICES ASSUME InformerInv, [InformerNext]_informerVars PROVE InformerInv'
  OBVIOUS
<1>1. [CacheNext]_cacheVars
  BY InformerStepsCache DEF informerVars
<1>2. CacheInv' /\ QueueInv' /\ DeltasInv' /\ CacheTypeOK'
  BY <1>1, CacheNextInv, QueueNextInv, DeltasNextInv DEF InformerInv, CacheInv
<1>3. /\ CacheTypeOK /\ resyncing \in BOOLEAN /\ resyncs \in Nat
      /\ listeners \in SUBSET Listeners /\ syncing \in SUBSET listeners
      /\ pending \in [Listeners -> Seq(Notification)] /\ seen \in [Listeners -> Collection]
  BY DEF InformerInv, InformerTypeOK
<1>4. ASSUME ListenersInv', pending' \in [Listeners -> Seq(Notification)],
             seen' \in [Listeners -> Collection], resyncing' \in BOOLEAN, resyncs' \in Nat,
             listeners' \in SUBSET Listeners, syncing' \in SUBSET listeners'
      PROVE  InformerInv'
  BY <1>2, <1>4 DEF InformerInv, InformerTypeOK
<1>5. CASE CacheStep /\ UNCHANGED listenerVars
  <2>1. ListenersInv'
    BY <1>5, IndexerUnchanged, ListenersUnchanged DEF listenerVars
  <2>2. QED
    BY <1>3, <1>4, <1>5, <2>1 DEF listenerVars
<1>6. CASE HandleDeltas
  <2>1. ListenersInv' /\ pending' \in [Listeners -> Seq(Notification)]
    BY <1>6, HandleDeltasInv
  <2>2. QED
    BY <1>3, <1>4, <1>6, <2>1 DEF HandleDeltas
<1>7. ASSUME NEW due \in SUBSET Resyncers, ShouldResync(due) PROVE InformerInv'
  <2>1. /\ indexer' = indexer /\ UNCHANGED <<listeners, pending, seen>>
        /\ resyncs' = resyncs + 1 /\ syncing' = due /\ due \subseteq listeners
        /\ resyncing' \in BOOLEAN
    BY <1>7 DEF ShouldResync, cacheVars
  <2>2. resyncs' # 0 /\ resyncs' \in Nat
    BY <1>3, <2>1
  <2>3. ListenersInv'
    BY <2>1, <2>2, ListenersUnchanged
  <2>4. QED
    BY <1>3, <1>4, <2>1, <2>2, <2>3
<1>8. CASE ResyncListeners
  <2>1. ListenersInv'
    BY <1>8, IndexerUnchanged, ListenersUnchanged DEF ResyncListeners
  <2>2. QED
    BY <1>3, <1>4, <1>8, <2>1 DEF ResyncListeners
<1>9. ASSUME NEW l \in Listeners, AddEventHandler(l) PROVE InformerInv'
  <2>1. ListenersInv' /\ pending' \in [Listeners -> Seq(Notification)]
    BY <1>9, AddEventHandlerInv
  <2>2. QED
    BY <1>3, <1>4, <1>9, <2>1 DEF AddEventHandler
<1>10. ASSUME NEW l \in Listeners, Notify(l) PROVE InformerInv'
  <2>1. /\ ListenersInv' /\ pending' \in [Listeners -> Seq(Notification)]
        /\ seen' \in [Listeners -> Collection]
    BY <1>10, NotifyInv
  <2>2. QED
    BY <1>3, <1>4, <1>10, <2>1 DEF Notify
<1>11. CASE UNCHANGED informerVars
  <2>1. ListenersInv'
    BY <1>11, ListenersUnchanged DEF informerVars, listenerVars, cacheVars
  <2>2. QED
    BY <1>3, <1>4, <1>11, <2>1 DEF informerVars, listenerVars
<1>12. QED
  BY <1>5, <1>6, <1>7, <1>8, <1>9, <1>10, <1>11 DEF InformerNext

LEMMA InformerInitInv == InformerInit => InformerInv
<1> SUFFICES ASSUME InformerInit PROVE InformerInv
  OBVIOUS
<1>1. CacheInv /\ QueueInv /\ DeltasInv
  BY CacheInitInv, QueueInitInv, DeltasInitInv DEF InformerInit
<1>2. <<>> \in Seq(Notification) /\ [k \in Keys |-> Absent] \in Collection
  BY DEF Collection, Absent
<1>3. InformerTypeOK
  BY <1>1, <1>2 DEF InformerInit, InformerTypeOK, CacheInv
<1>4. ListenersInv
  BY DEF InformerInit, ListenersInv
<1>5. QED
  BY <1>1, <1>3, <1>4 DEF InformerInv

LEMMA InformerAlways == InformerSpec => []InformerInv
<1>1. QED
  BY InformerInitInv, InformerNextInv, PTL DEF InformerSpec

\* The informer and its listeners keep their types; in particular the syncing
\* listeners are always among the listeners.
THEOREM InformerTypeCorrect == InformerSpec => []InformerTypeOK
<1>1. InformerInv => InformerTypeOK
  BY DEF InformerInv
<1>2. QED
  BY <1>1, InformerAlways, PTL

\* Whatever is listed, watched, popped, added and delivered in whatever order, the
\* notifications that HandleDeltas and AddEventHandler have sent to a handler
\* leave it with exactly what the indexer holds, until shouldResync first singles
\* out some of the listeners.
THEOREM HandlersAreInformed == InformerSpec => []HandlersInformed
<1>1. InformerInv => HandlersInformed
  <2> SUFFICES ASSUME InformerInv, resyncs = 0, NEW l \in listeners, NEW k \in Keys
               PROVE  View(l, k) = indexer[k]
    BY DEF HandlersInformed
  <2>1. InformerTypeOK /\ l \in Listeners /\ Left(pending[l], seen[l], k, indexer[k])
    BY DEF InformerInv, InformerTypeOK, ListenersInv
  <2>2. QED
    BY <2>1, ViewOfLeft
<1>2. QED
  BY <1>1, InformerAlways, PTL

\* Also after resyncs, no handler is left with an object that the indexer has
\* lost: distribute withholds Sync notifications from listeners that are not
\* syncing, but never the last word on a deletion.
THEOREM NoGhosts == InformerSpec => []NoGhostObjects
<1>1. InformerInv => NoGhostObjects
  <2> SUFFICES ASSUME InformerInv, NEW l \in listeners, NEW k \in Keys, indexer[k] = Absent
               PROVE  View(l, k) = Absent
    BY DEF NoGhostObjects
  <2>1. InformerTypeOK /\ l \in Listeners /\ Left(pending[l], seen[l], k, Absent)
    BY DEF InformerInv, InformerTypeOK, ListenersInv
  <2>2. QED
    BY <2>1, ViewOfLeft
<1>2. QED
  BY <1>1, InformerAlways, PTL

\* Until the first resync a handler gets OnAdd exactly for the objects that it
\* does not know: HandleDeltas tells additions from updates by the indexer, and
\* every listener's notifications agree with the indexer.
THEOREM AddsComeFirst == InformerSpec => []AddedFirst
<1>1. InformerInv => AddedFirst
  <2> SUFFICES ASSUME InformerInv, NEW l \in listeners, resyncs = 0, pending[l] # <<>>
               PROVE  (Head(pending[l]).kind = "add") <=> (seen[l][Head(pending[l]).key] = Absent)
    BY DEF AddedFirst
  <2>1. pending[l] \in Seq(Notification) /\ AddsRight(pending[l], seen[l])
    BY DEF InformerInv, InformerTypeOK, ListenersInv
  <2>2. Head(pending[l]) = pending[l][1] /\ 1 \in 1 .. Len(pending[l])
    BY <2>1, TailFacts
  <2>3. \A m \in 1 .. 1 - 1 : pending[l][m].key # pending[l][1].key
    OBVIOUS
  <2>4. QED
    BY <2>1, <2>2, <2>3 DEF AddsRight
<1>2. QED
  BY <1>1, InformerAlways, PTL
=============================================================================
