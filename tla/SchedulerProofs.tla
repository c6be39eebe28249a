--------------------------- MODULE SchedulerProofs ---------------------------
(***************************************************************************)
(* Safety of the scheduler, for any pods, nodes and capacity: no pod is    *)
(* lost or queued twice, no move request is missed, the cache never meets  *)
(* its own corruption check and counts every pod once, its snapshots are   *)
(* exact, and no node is given more pods than fit.                         *)
(***************************************************************************)
EXTENDS Scheduler, FiniteSetTheorems, TLAPS

-----------------------------------------------------------------------------
(* The inductive invariant. *)

Binding == [pod: Pods, node: Nodes, pc: {"bind", "done", "failed", "orphan"}]

\* scheduleOne has one pod at a time.
SchedOK ==
    /\ sched \in [pc: {"idle", "schedule", "assume"}, pod: SUBSET Pods,
                  node: Nodes \cup {NoNode}, overtaken: BOOLEAN]
    /\ \A p, q \in sched.pod : p = q
    /\ sched.pc = "idle" <=> sched.pod = {}
    /\ sched.pc = "assume" <=> sched.node \in Nodes

\* The types of what the properties depend on: TypeOK without nodes and snapshot.
Types ==
    /\ QueueTypeOK
    /\ podStates \in [Pods -> PodState]
    /\ api \in [Pods -> PodObject] /\ toldQueue \in [Pods -> PodObject]
    /\ toldCache \in [Pods -> PodObject]
    /\ SchedOK
    /\ bindings \subseteq Binding

\* A pod with a DeletionTimestamp, or none at all: it stays so.
Ending(p) == api[p].dying \/ api[p].phase = "none"

\* A pending pod that the queue's handler was told of is in the scheduler's hands.  This
\* is stronger than NoPodLost: an update that is still to come does not excuse it.
Held == \A p \in Pods : toldQueue[p] # NoPod /\ api[p].phase = "pending" /\ ~api[p].dying
                        => InHand(p)

\* What makes scheduleOne drop a pod is never out of date.
Doomed == /\ \A p \in terminating : Ending(p)
          /\ \A r \in retries : r.dying => Ending(r.pod)

\* A binding that has succeeded was made.
Bound == \A b \in bindings : b.pc = "done" => api[b.pod].phase # "pending"

\* moveRequestCycle knows of every move request that overtook an attempt.
Remembered == /\ sched.overtaken => moved /\ sched.pc # "idle"
              /\ \A r \in retries : r.overtaken => r.moved

\* A pod that the cache's handler was told of is where it was, or gone.
Told == \A p \in Pods : toldCache[p] # NoPod =>
            api[p].phase = "none" \/ (api[p].phase = "bound" /\ api[p].node = toldCache[p].node)

\* A confirmed pod is where the handler was told, or will not be heard of again.
Confirmed == \A p \in Pods : Cached(p) /\ ~Assumed(p) =>
                IF toldCache[p] = NoPod THEN api[p].phase = "none"
                ELSE podStates[p].node = toldCache[p].node

IInv == Types /\ InOneQueue /\ Held /\ Doomed /\ Bound /\ Remembered /\ Told /\ Confirmed

-----------------------------------------------------------------------------
(* The operations of the queue. *)

InQueue == activeQ \cup podBackoffQ \cup unschedulableQ

\* The initial state has nothing in it.
LEMMA InitIInv == ASSUME Init PROVE IInv
<1>1. NoPod \in PodObject /\ [NoPod EXCEPT !.phase = "pending"] \in PodObject
  BY DEF NoPod, PodObject
<1>2. NoState \in PodState /\ NoState.node = NoNode
  BY DEF NoState, PodState
<1>3. /\ \A p \in Pods : podStates[p] = NoState /\ toldQueue[p] = NoPod /\ toldCache[p] = NoPod
      /\ sched = Idle /\ bindings = {} /\ terminating = {} /\ retries = {}
  BY DEF Init, QueueInit
<1>4. QueueTypeOK /\ InOneQueue
  BY DEF Init, QueueInit, QueueTypeOK, InOneQueue
<1>5. /\ podStates \in [Pods -> PodState] /\ api \in [Pods -> PodObject]
      /\ toldQueue \in [Pods -> PodObject] /\ toldCache \in [Pods -> PodObject]
  BY <1>1, <1>2 DEF Init
<1>6. Types
  BY <1>3, <1>4, <1>5, NoNodeAssumption DEF Types, SchedOK, Idle
<1>7. Held /\ Doomed /\ Bound /\ Remembered /\ Told /\ Confirmed
  BY <1>2, <1>3 DEF Idle, Held, Doomed, Bound, Remembered, Told, Confirmed, Cached
<1> QED BY <1>4, <1>6, <1>7 DEF IInv

\* A move request takes pods out of unschedulableQ and loses none; all attempts under way
\* know of it.
LEMMA MoveFacts ==
  ASSUME QueueTypeOK, InOneQueue, NEW S \in SUBSET unschedulableQ, movePodsToActiveQueue(S)
  PROVE  /\ QueueTypeOK' /\ InOneQueue' /\ InQueue' = InQueue
         /\ unschedulableQ' \subseteq unschedulableQ
         /\ terminating' = terminating /\ moved' = TRUE
         /\ \A r \in retries : \E s \in retries' : s.pod = r.pod
         /\ \A r \in retries : r.moved => r \in retries'
         /\ \A s \in retries' : s.moved
         /\ \A s \in retries' : \E r \in retries : s.pod = r.pod /\ s.dying = r.dying
<1>1. PICK B \in SUBSET S : podBackoffQ' = podBackoffQ \cup B /\ activeQ' = activeQ \cup (S \ B)
  BY DEF movePodsToActiveQueue
<1>2. /\ unschedulableQ' = unschedulableQ \ S /\ moved' = TRUE
      /\ retries' = {[r EXCEPT !.moved = TRUE] : r \in retries} /\ terminating' = terminating
  BY DEF movePodsToActiveQueue
<1>3. \A r \in retries : /\ [r EXCEPT !.moved = TRUE] \in Retry
                         /\ [r EXCEPT !.moved = TRUE].pod = r.pod
                         /\ [r EXCEPT !.moved = TRUE].moved = TRUE
                         /\ [r EXCEPT !.moved = TRUE].dying = r.dying
                         /\ r.moved => [r EXCEPT !.moved = TRUE] = r
  BY DEF QueueTypeOK, Retry
<1>4. QueueTypeOK' /\ InOneQueue' /\ InQueue' = InQueue
  BY <1>1, <1>2, <1>3 DEF QueueTypeOK, InOneQueue, InQueue
<1>5. \A r \in retries : (\E s \in retries' : s.pod = r.pod) /\ (r.moved => r \in retries')
  <2> TAKE r \in retries
  <2>1. [r EXCEPT !.moved = TRUE] \in retries'
    BY <1>2
  <2>2. [r EXCEPT !.moved = TRUE].pod = r.pod /\ (r.moved => [r EXCEPT !.moved = TRUE] = r)
    BY <1>3
  <2> QED BY <2>1, <2>2, Zenon
<1>7. \A s \in retries' : s.moved /\ \E r \in retries : s.pod = r.pod /\ s.dying = r.dying
  <2> TAKE s \in retries'
  <2>1. PICK r \in retries : s = [r EXCEPT !.moved = TRUE]
    BY <1>2
  <2>2. s.moved = TRUE /\ s.pod = r.pod /\ s.dying = r.dying
    BY <2>1, <1>3
  <2> QED BY <2>2
<1> QED BY <1>2, <1>4, <1>5, <1>7

\* Update leaves its pod in exactly one queue and the others where they were.
LEMMA UpdateFacts ==
  ASSUME QueueTypeOK, InOneQueue, NEW p \in Pods, NEW updated \in BOOLEAN,
         NEW dying \in BOOLEAN, Update(p, updated, dying)
  PROVE  /\ QueueTypeOK' /\ InOneQueue' /\ InQueue' = InQueue \cup {p}
         /\ terminating' \subseteq terminating \cup {p} /\ (p \in terminating' => dying)
         /\ moved' = moved /\ retries' = retries
  BY DEF Update, StoreObject, QueueTypeOK, InOneQueue, InQueue

\* Add and Delete, likewise.
LEMMA AddFacts ==
  ASSUME QueueTypeOK, InOneQueue, NEW p \in Pods, NEW dying \in BOOLEAN, Add(p, dying)
  PROVE  /\ QueueTypeOK' /\ InOneQueue' /\ InQueue' = InQueue \cup {p}
         /\ terminating' \subseteq terminating \cup {p} /\ (p \in terminating' => dying)
         /\ moved' = moved /\ retries' = retries
  BY DEF Add, StoreObject, QueueTypeOK, InOneQueue, InQueue

LEMMA DeleteFacts ==
  ASSUME QueueTypeOK, InOneQueue, NEW p \in Pods, Delete(p)
  PROVE  /\ QueueTypeOK' /\ InOneQueue' /\ InQueue \ {p} \subseteq InQueue'
         /\ terminating' = terminating /\ moved' = moved /\ retries' = retries
  BY DEF Delete, QueueTypeOK, InOneQueue, InQueue

-----------------------------------------------------------------------------
(* Users and the kubelet. *)

\* A change of a pod that is no binding: it ends or stays as it is.
LEMMA ApiStep ==
  ASSUME IInv, NEW p \in Pods, NEW o \in PodObject, api' = [api EXCEPT ![p] = o],
         o.phase \in {"none", api[p].phase}, o.phase = "none" \/ o.node = api[p].node,
         o.dying \/ o.phase = "none" \/ ~api[p].dying,
         UNCHANGED local
  PROVE  IInv'
<1>1. Types' /\ InOneQueue'
  BY DEF IInv, Types, SchedOK, QueueTypeOK, InOneQueue, local, queueVars, cacheVars
<1>2. \A q \in Pods : /\ api'[q].phase \in {"none", api[q].phase}
                      /\ api'[q].phase = "none" \/ api'[q].node = api[q].node
                      /\ api[q].dying => api'[q].dying \/ api'[q].phase = "none"
  BY DEF IInv, Types
<1>3. Held'
  BY <1>2 DEF IInv, Types, Held, InHand, local, queueVars
<1>4. Doomed'
  BY <1>2 DEF IInv, Types, QueueTypeOK, Retry, Doomed, Ending, local, queueVars
<1>5. Bound' /\ Remembered'
  BY <1>2 DEF IInv, Types, Binding, Bound, Remembered, local, queueVars
<1>6. Told' /\ Confirmed'
  BY <1>2 DEF IInv, Told, Confirmed, Cached, Assumed, local, cacheVars
<1> QED BY <1>1, <1>3, <1>4, <1>5, <1>6 DEF IInv

LEMMA EditPodStep == ASSUME IInv, NEW p \in Pods, EditPod(p) PROVE IInv'
<1> DEFINE o == [api[p] EXCEPT !.rev = ~@]
<1>0. api[p] \in PodObject /\ (~api[p].rev) \in BOOLEAN
  BY DEF IInv, Types, PodObject
<1>1. /\ o \in PodObject /\ o.phase = api[p].phase /\ o.node = api[p].node
      /\ o.dying = api[p].dying
  BY <1>0, Zenon DEF PodObject
<1>2. api' = [api EXCEPT ![p] = o] /\ UNCHANGED local
  BY DEF EditPod
<1>3. o.phase \in {"none", api[p].phase} /\ (o.dying \/ o.phase = "none" \/ ~api[p].dying)
  BY <1>1
<1> HIDE DEF o
<1> QED BY <1>1, <1>2, <1>3, ApiStep

LEMMA DeletePodStep == ASSUME IInv, NEW p \in Pods, DeletePod(p) PROVE IInv'
<1>1. PICK o \in {NoPod, [api[p] EXCEPT !.dying = TRUE]} : api' = [api EXCEPT ![p] = o]
  BY DEF DeletePod
<1>0. api[p] \in PodObject
  BY DEF IInv, Types
<1>2. /\ o \in PodObject /\ o.phase \in {"none", api[p].phase}
      /\ o.phase = "none" \/ o.node = api[p].node
      /\ o.dying \/ o.phase = "none" \/ ~api[p].dying
  <2>1. CASE o = NoPod
    BY <2>1 DEF PodObject, NoPod
  <2>2. CASE o = [api[p] EXCEPT !.dying = TRUE]
    <3>1. /\ o \in PodObject /\ o.phase = api[p].phase
          /\ o.node = api[p].node /\ o.dying = TRUE
      BY <1>0, <2>2 DEF PodObject
    <3> QED BY <3>1
  <2> QED BY <1>1, <2>1, <2>2
<1> QED BY <1>1, <1>2, ApiStep DEF DeletePod

LEMMA PodEndsStep == ASSUME IInv, NEW p \in Pods, PodEnds(p) PROVE IInv'
<1>1. NoPod \in PodObject /\ NoPod.phase = "none"
  BY DEF NoPod, PodObject
<1> QED BY <1>1, ApiStep DEF PodEnds

-----------------------------------------------------------------------------
(* The event handlers and the timers. *)

\* isPodUpdated is a truth value.
LEMMA UpdatedBoolean == \A old, new \in PodObject : isPodUpdated(old, new) \in BOOLEAN
  BY DEF isPodUpdated

\* What a move request does to the invariant, leaving the cache aside.
LEMMA MoveStep ==
  ASSUME IInv, NEW S \in SUBSET unschedulableQ, movePodsToActiveQueue(S), Overtaken,
         UNCHANGED <<bindings, api, toldQueue>>
  PROVE  QueueTypeOK' /\ SchedOK' /\ InOneQueue' /\ Held' /\ Doomed' /\ Bound' /\ Remembered'
<1>0. QueueTypeOK /\ InOneQueue
  BY DEF IInv, Types
<1> DEFINE M == /\ QueueTypeOK' /\ InOneQueue' /\ InQueue' = InQueue
                /\ unschedulableQ' \subseteq unschedulableQ
                /\ terminating' = terminating /\ moved' = TRUE
                /\ \A r \in retries : \E s \in retries' : s.pod = r.pod
                /\ \A r \in retries : r.moved => r \in retries'
                /\ \A s \in retries' : s.moved
                /\ \A s \in retries' : \E r \in retries : s.pod = r.pod /\ s.dying = r.dying
<1>1. M
  BY <1>0, MoveFacts
<1>2. /\ sched'.pc = sched.pc /\ sched'.pod = sched.pod /\ sched'.node = sched.node
      /\ SchedOK'
  BY DEF IInv, Types, SchedOK, Overtaken
<1>3. Held'
  BY <1>1, <1>2 DEF IInv, Held, InHand, InQueue
<1>4. Doomed'
  BY <1>1 DEF IInv, Doomed, Ending
<1>5. Bound'
  BY DEF IInv, Bound
<1>6. Remembered'
  BY <1>1 DEF IInv, Types, SchedOK, Remembered, Overtaken
<1> QED BY <1>1, <1>2, <1>3, <1>4, <1>5, <1>6

LEMMA HandleQueueEventStep == ASSUME IInv, NEW p \in Pods, HandleQueueEvent(p) PROVE IInv'
<1> DEFINE old == toldQueue[p]
           new == Unassigned(api[p])
<1>1. /\ toldQueue' = [toldQueue EXCEPT ![p] = new]
      /\ UNCHANGED <<cacheVars, sched, bindings, api, toldCache>>
  BY DEF HandleQueueEvent
<1>2. /\ new \in PodObject /\ old \in PodObject /\ new.dying \in BOOLEAN
      /\ new # NoPod => new = api[p]
  BY DEF Unassigned, IInv, Types, PodObject, NoPod
<1>3. QueueTypeOK /\ InOneQueue
  BY DEF IInv, Types
<1>4. /\ QueueTypeOK' /\ InOneQueue' /\ moved' = moved /\ retries' = retries
      /\ InQueue \ {p} \subseteq InQueue'
      /\ terminating' \subseteq terminating \cup {p}
      /\ new # NoPod => (p \in InQueue' \/ (old # NoPod /\ InQueue' = InQueue))
      /\ p \in terminating' => p \in terminating \/ (new # NoPod /\ new.dying)
  <2>1. CASE old = NoPod /\ new # NoPod /\ Add(p, new.dying)
    BY <1>2, <1>3, <2>1, AddFacts
  <2>2. CASE old # NoPod /\ new # NoPod /\ Update(p, isPodUpdated(old, new), new.dying)
    BY <1>2, <1>3, <2>2, UpdateFacts, UpdatedBoolean
  <2>3. CASE old # NoPod /\ UNCHANGED queueVars
    BY <1>3, <2>3 DEF queueVars, QueueTypeOK, InOneQueue, InQueue
  <2>4. CASE new = NoPod /\ Delete(p)
    BY <1>3, <2>4, DeleteFacts
  <2> QED BY <2>1, <2>2, <2>3, <2>4 DEF HandleQueueEvent
<1>5. Types'
  BY <1>1, <1>2, <1>4 DEF IInv, Types, SchedOK, cacheVars
<1>6. Held'
  <2> SUFFICES ASSUME NEW q \in Pods, toldQueue'[q] # NoPod, api[q].phase = "pending",
                      ~api[q].dying
               PROVE  InHand(q)'
    BY <1>1 DEF Held
  <2>1. CASE q = p
    <3>1. new # NoPod
      BY <1>1, <2>1 DEF IInv, Types
    <3>2. CASE old # NoPod /\ InQueue' = InQueue
      <4>1. InHand(p)
        BY <2>1, <3>2 DEF IInv, Held
      <4> QED BY <1>1, <1>4, <2>1, <3>2, <4>1 DEF InHand, InQueue
    <3> QED BY <1>4, <2>1, <3>1, <3>2 DEF InHand, InQueue
  <2>2. CASE q # p
    <3>1. InHand(q)
      BY <1>1, <2>2 DEF IInv, Types, Held
    <3> QED BY <1>1, <1>4, <2>2, <3>1 DEF InHand, InQueue
  <2> QED BY <2>1, <2>2
<1>7. Doomed'
  BY <1>1, <1>2, <1>4 DEF IInv, Doomed, Ending
<1>8. Bound' /\ Remembered' /\ Told' /\ Confirmed'
  BY <1>1, <1>4 DEF IInv, Bound, Remembered, Told, Confirmed, Cached, Assumed, cacheVars
<1> QED BY <1>4, <1>5, <1>6, <1>7, <1>8 DEF IInv

\* The cache after an event: confirmed where the handler was told.
LEMMA HandleCacheEventStep == ASSUME IInv, NEW p \in Pods, HandleCacheEvent(p) PROVE IInv'
<1> DEFINE old == toldCache[p]
           new == Assigned(api[p])
<1>1. /\ old # new /\ toldCache' = [toldCache EXCEPT ![p] = new] /\ Overtaken
      /\ UNCHANGED <<bindings, api, toldQueue>>
  BY DEF HandleCacheEvent
<1>2. /\ new \in PodObject /\ old \in PodObject
      /\ new # NoPod => new = api[p] /\ api[p].phase = "bound"
      /\ new = NoPod => api[p].phase # "bound"
  BY DEF Assigned, IInv, Types, PodObject, NoPod
<1>3. PICK S \in SUBSET unschedulableQ : movePodsToActiveQueue(S)
  BY DEF HandleCacheEvent, AssignedPodAdded, MoveAllToActiveQueue
<1>4. QueueTypeOK' /\ SchedOK' /\ InOneQueue' /\ Held' /\ Doomed' /\ Bound' /\ Remembered'
  BY <1>1, <1>3, MoveStep
<1>5. \/ old = NoPod /\ AddPod(p, new.node)
      \/ old # NoPod /\ new # NoPod /\ podStates' = podStates
      \/ new = NoPod /\ RemovePod(p)
  BY DEF HandleCacheEvent, UpdatePod
<1>6. podStates' \in [Pods -> PodState]
  <2>1. /\ podStates \in [Pods -> PodState] /\ NoState \in PodState
        /\ [NoState EXCEPT !.node = new.node] \in PodState
    BY <1>2 DEF IInv, Types, NoState, PodState, PodObject
  <2> QED BY <1>5, <2>1 DEF AddPod, RemovePod
<1>7. Types'
  BY <1>1, <1>2, <1>4, <1>6 DEF IInv, Types
<1>8. Told'
  BY <1>1, <1>2 DEF IInv, Types, Told
<1>9. Confirmed'
  <2> SUFFICES ASSUME NEW q \in Pods, Cached(q)', ~Assumed(q)'
               PROVE  IF toldCache'[q] = NoPod THEN api[q].phase = "none"
                      ELSE podStates'[q].node = toldCache'[q].node
    BY <1>1 DEF Confirmed
  <2>0. podStates \in [Pods -> PodState] /\ toldCache \in [Pods -> PodObject]
    BY DEF IInv, Types
  <2>1. CASE q # p
    <3>1. podStates'[q] = podStates[q] /\ toldCache'[q] = toldCache[q]
      BY <1>1, <1>5, <2>0, <2>1 DEF AddPod, RemovePod
    <3> QED BY <3>1 DEF IInv, Confirmed, Cached, Assumed
  <2>2. CASE q = p /\ old = NoPod /\ AddPod(p, new.node)
    <3>1. toldCache'[p] = new /\ new # NoPod /\ api[p].phase = "bound"
      BY <1>1, <1>2, <2>0, <2>2
    <3>2. Assumed(p) \/ ~Cached(p)
      BY <2>2, <3>1 DEF IInv, Confirmed
    <3>3. podStates'[p] = [NoState EXCEPT !.node = new.node]
      BY <2>0, <2>2, <3>2 DEF AddPod
    <3>4. podStates'[p].node = new.node
      BY <3>3 DEF NoState
    <3> QED BY <2>2, <3>1, <3>4
  <2>3. CASE q = p /\ old # NoPod /\ new # NoPod /\ podStates' = podStates
    <3>1. toldCache'[p] = new /\ new.node = old.node
      BY <1>1, <1>2, <2>0, <2>3 DEF IInv, Told
    <3>2. podStates[p].node = old.node
      BY <2>3 DEF IInv, Confirmed, Cached, Assumed
    <3> QED BY <2>3, <3>1, <3>2
  <2>4. CASE q = p /\ new = NoPod /\ RemovePod(p)
    <3>1. toldCache'[p] = NoPod /\ old # NoPod
      BY <1>1, <2>0, <2>4
    <3> QED BY <1>2, <2>4, <3>1 DEF IInv, Told
  <2> QED BY <1>5, <2>1, <2>2, <2>3, <2>4
<1> QED BY <1>4, <1>7, <1>8, <1>9 DEF IInv

\* What the handlers of nodes change is not part of the invariant.
LEMMA NodeStep ==
  ASSUME IInv, UNCHANGED nodeHandler,
         \/ MoveAllToActiveQueue /\ Overtaken
         \/ UNCHANGED <<queueVars, sched>>
  PROVE  IInv'
<1>1. CASE MoveAllToActiveQueue /\ Overtaken
  <2>1. QueueTypeOK' /\ SchedOK' /\ InOneQueue' /\ Held' /\ Doomed' /\ Bound' /\ Remembered'
    BY <1>1, MoveStep DEF MoveAllToActiveQueue, nodeHandler, world
  <2> QED BY <2>1 DEF IInv, Types, Told, Confirmed, Cached, Assumed, nodeHandler, world
<1>2. CASE UNCHANGED <<queueVars, sched>>
  BY <1>2 DEF IInv, Types, QueueTypeOK, SchedOK, InOneQueue, Held, InHand, Doomed, Ending,
              Bound, Remembered, Told, Confirmed, Cached, Assumed, nodeHandler, world, queueVars
<1> QED BY <1>1, <1>2

LEMMA NodeHandlerSteps ==
  ASSUME IInv, NEW n \in Nodes,
         AddNodeToCache(n) \/ UpdateNodeInCache(n) \/ DeleteNodeFromCache(n)
  PROVE  IInv'
  BY NodeStep DEF AddNodeToCache, UpdateNodeInCache, DeleteNodeFromCache

LEMMA FlushBackoffStep == ASSUME IInv, NEW S \in SUBSET Pods, FlushBackoff(S) PROVE IInv'
<1> USE DEF FlushBackoff, flushBackoffQCompleted, timers, world, cacheVars
<1>1. Types' /\ InOneQueue'
  BY DEF IInv, Types, QueueTypeOK, SchedOK, InOneQueue
<1>2. Held'
  BY DEF IInv, Held, InHand
<1>3. Doomed' /\ Bound' /\ Remembered' /\ Told' /\ Confirmed'
  BY DEF IInv, Doomed, Ending, Bound, Remembered, Told, Confirmed, Cached, Assumed
<1> QED BY <1>1, <1>2, <1>3 DEF IInv

LEMMA FlushUnschedulableStep ==
  ASSUME IInv, NEW S \in SUBSET Pods, FlushUnschedulable(S) PROVE IInv'
<1>1. UNCHANGED <<podStates, bindings, api, toldQueue, toldCache>>
  BY DEF FlushUnschedulable, timers, world, cacheVars
<1>2. QueueTypeOK' /\ SchedOK' /\ InOneQueue' /\ Held' /\ Doomed' /\ Bound' /\ Remembered'
  BY <1>1, MoveStep DEF FlushUnschedulable, flushUnschedulableQLeftover
<1> QED BY <1>1, <1>2 DEF IInv, Types, Told, Confirmed, Cached, Assumed

LEMMA ExpireStep == ASSUME IInv, NEW p \in Pods, Expire(p) PROVE IInv'
<1>1. UNCHANGED <<queueVars, world, bindings, sched>>
  BY DEF Expire
<1>2. podStates' = [podStates EXCEPT ![p] = NoState] /\ NoState \in PodState
  BY DEF Expire, ExpirePod, NoState, PodState
<1>3. Types' /\ InOneQueue'
  BY <1>1, <1>2 DEF IInv, Types, QueueTypeOK, SchedOK, InOneQueue, queueVars, world
<1>4. Confirmed'
  BY <1>1, <1>2 DEF IInv, Types, Confirmed, Cached, Assumed, NoState, world
<1>5. Held' /\ Doomed' /\ Bound' /\ Remembered' /\ Told'
  BY <1>1 DEF IInv, Held, InHand, Doomed, Ending, Bound, Remembered, Told, queueVars, world
<1> QED BY <1>3, <1>4, <1>5 DEF IInv

-----------------------------------------------------------------------------
(* scheduleOne and its goroutines. *)

\* A failed attempt leaves its pod with a goroutine; of the pod at most the condition
\* changes.
LEMMA FailureFacts ==
  ASSUME IInv, NEW p \in Pods, NEW overtaken \in BOOLEAN, overtaken => moved,
         recordSchedulingFailure(p, overtaken)
  PROVE  /\ retries \subseteq retries' /\ retries' \subseteq Retry
         /\ \E r \in retries' : r.pod = p
         /\ \A r \in retries' : r \in retries \/ (~r.dying /\ (r.overtaken => r.moved))
         /\ api' \in [Pods -> PodObject]
         /\ \A q \in Pods : /\ api'[q].phase = api[q].phase
                            /\ api'[q].dying = api[q].dying /\ api'[q].node = api[q].node
<1> DEFINE new == [pod |-> p, moved |-> moved, overtaken |-> overtaken,
                   got |-> FALSE, dying |-> FALSE]
<1>1. retries' = retries \cup {new} /\ retries \subseteq Retry /\ moved \in BOOLEAN
  BY DEF recordSchedulingFailure, IInv, Types, QueueTypeOK
<1>2. new \in Retry /\ new.pod = p /\ ~new.dying /\ (new.overtaken => new.moved)
  BY <1>1 DEF Retry
<1>3. api \in [Pods -> PodObject]
  BY DEF IInv, Types
<1>4. \/ api' = api
      \/ api' = [api EXCEPT ![p].cond = TRUE]
  BY DEF recordSchedulingFailure
<1>5. \A q \in Pods : /\ [api[q] EXCEPT !.cond = TRUE] \in PodObject
                      /\ [api[q] EXCEPT !.cond = TRUE].phase = api[q].phase
                      /\ [api[q] EXCEPT !.cond = TRUE].dying = api[q].dying
                      /\ [api[q] EXCEPT !.cond = TRUE].node = api[q].node
  BY <1>3 DEF PodObject
<1>6. /\ api' \in [Pods -> PodObject]
      /\ \A q \in Pods : /\ api'[q].phase = api[q].phase
                         /\ api'[q].dying = api[q].dying /\ api'[q].node = api[q].node
  BY <1>3, <1>4, <1>5
<1> HIDE DEF new
<1> QED BY <1>1, <1>2, <1>6

\* The rest of the invariant after a failed attempt, whoever it was that held the pod.
LEMMA FailureStep ==
  ASSUME IInv, NEW p \in Pods, NEW overtaken \in BOOLEAN, overtaken => moved,
         recordSchedulingFailure(p, overtaken), UNCHANGED <<inQueue, informed>>,
         SchedOK', sched' = Idle \/ sched' = sched, \A q \in sched.pod \ sched'.pod : q = p,
         bindings' \subseteq bindings, \A b \in bindings \ bindings' : b.pod = p,
         podStates' \in [Pods -> PodState],
         \A q \in Pods : podStates'[q] = NoState \/ podStates'[q].assumed \/ podStates'[q] = podStates[q]
  PROVE  IInv'
<1>1. /\ retries \subseteq retries' /\ retries' \subseteq Retry
      /\ \E r \in retries' : r.pod = p
      /\ \A r \in retries' : r \in retries \/ (~r.dying /\ (r.overtaken => r.moved))
      /\ api' \in [Pods -> PodObject]
      /\ \A q \in Pods : /\ api'[q].phase = api[q].phase
                         /\ api'[q].dying = api[q].dying /\ api'[q].node = api[q].node
  BY FailureFacts
<1>2. Types' /\ InOneQueue'
  BY <1>1 DEF IInv, Types, QueueTypeOK, InOneQueue, inQueue, informed
<1>3. Held'
  BY <1>1 DEF IInv, Held, InHand, inQueue, informed
<1>4. Doomed'
  BY <1>1 DEF IInv, Types, QueueTypeOK, Retry, Doomed, Ending, inQueue
<1>5. Bound'
  BY <1>1 DEF IInv, Types, Binding, Bound
<1>6. Remembered'
  BY <1>1 DEF IInv, Remembered, inQueue, Idle
<1>7. Told' /\ Confirmed'
  BY <1>1 DEF IInv, Told, Confirmed, Cached, Assumed, NoState, informed
<1> QED BY <1>2, <1>3, <1>4, <1>5, <1>6, <1>7 DEF IInv

LEMMA NextPodStep == ASSUME IInv, NEW p \in Pods, NextPod(p) PROVE IInv'
<1>1. /\ sched.pc = "idle" /\ p \in activeQ /\ activeQ' = activeQ \ {p} /\ moved' = FALSE
      /\ UNCHANGED <<podBackoffQ, unschedulableQ, terminating, retries>>
      /\ UNCHANGED <<podStates, api, toldQueue, toldCache, bindings>>
  BY DEF NextPod, Pop, cacheVars, world
<1>2. \/ p \in terminating /\ sched' = sched
      \/ sched' = [pc |-> "schedule", pod |-> {p}, node |-> NoNode, overtaken |-> FALSE]
  BY DEF NextPod
<1>0. SchedOK /\ sched.pod = {}
  BY <1>1 DEF IInv, Types, SchedOK
<1>3. SchedOK' /\ sched.pod = {}
  <2>1. CASE sched' = sched
    BY <1>0, <2>1 DEF SchedOK
  <2>2. CASE sched' = [pc |-> "schedule", pod |-> {p}, node |-> NoNode, overtaken |-> FALSE]
    BY <1>0, <2>2, NoNodeAssumption DEF SchedOK
  <2> QED BY <1>0, <1>2, <2>1, <2>2
<1>4. Types' /\ InOneQueue'
  BY <1>1, <1>3 DEF IInv, Types, QueueTypeOK, InOneQueue
<1>5. Held'
  <2> SUFFICES ASSUME NEW q \in Pods, toldQueue[q] # NoPod, api[q].phase = "pending",
                      ~api[q].dying
               PROVE  InHand(q)'
    BY <1>1 DEF Held
  <2>1. InHand(q)
    BY DEF IInv, Held
  <2>2. CASE q = p
    <3>1. p \notin terminating
      BY <2>2 DEF IInv, Doomed, Ending
    <3> QED BY <1>2, <2>2, <3>1 DEF InHand
  <2>3. CASE q # p
    BY <1>1, <1>3, <2>1, <2>3 DEF InHand
  <2> QED BY <2>2, <2>3
<1>6. Doomed' /\ Bound' /\ Told' /\ Confirmed'
  BY <1>1 DEF IInv, Doomed, Ending, Bound, Told, Confirmed, Cached, Assumed
<1>7. Remembered'
  BY <1>1, <1>2 DEF IInv, Remembered
<1> QED BY <1>4, <1>5, <1>6, <1>7 DEF IInv

LEMMA ScheduleStep == ASSUME IInv, NEW p \in Pods, Schedule(p) PROVE IInv'
<1>1. /\ sched.pc = "schedule" /\ p \in sched.pod
      /\ UNCHANGED <<inQueue, podStates, informed, bindings>>
  BY DEF Schedule
<1>2. CASE /\ \E n \in Nodes : sched' = [sched EXCEPT !.pc = "assume", !.node = n]
           /\ UNCHANGED <<api, retries>>
  <2>1. SchedOK' /\ sched'.pod = sched.pod /\ sched'.overtaken = sched.overtaken /\ sched'.pc # "idle"
    BY <1>1, <1>2 DEF IInv, Types, SchedOK
  <2>2. Types' /\ InOneQueue'
    BY <1>1, <1>2, <2>1 DEF IInv, Types, QueueTypeOK, InOneQueue, inQueue, informed
  <2>3. Held' /\ Doomed' /\ Bound' /\ Remembered' /\ Told' /\ Confirmed'
    BY <1>1, <1>2, <2>1 DEF IInv, Held, InHand, Doomed, Ending, Bound, Remembered, Told,
                            Confirmed, Cached, Assumed, inQueue, informed
  <2> QED BY <2>2, <2>3 DEF IInv
<1>3. CASE recordSchedulingFailure(p, sched.overtaken) /\ sched' = Idle
  <2>1. /\ SchedOK' /\ sched.overtaken \in BOOLEAN /\ (sched.overtaken => moved)
        /\ \A q \in sched.pod \ sched'.pod : q = p
    BY <1>1, <1>3, NoNodeAssumption DEF IInv, Types, SchedOK, Remembered, Idle
  <2>2. podStates' \in [Pods -> PodState] /\ \A q \in Pods : podStates'[q] = podStates[q]
    BY <1>1 DEF IInv, Types
  <2> QED BY <1>1, <1>3, <2>1, <2>2, FailureStep
<1> QED BY <1>2, <1>3 DEF Schedule

LEMMA AssumeStep == ASSUME IInv, NEW p \in Pods, Assume(p) PROVE IInv'
<1>1. /\ sched.pc = "assume" /\ p \in sched.pod /\ sched' = Idle
      /\ UNCHANGED <<inQueue, informed>>
  BY DEF Assume
<1>2. /\ SchedOK' /\ sched.overtaken \in BOOLEAN /\ (sched.overtaken => moved)
      /\ sched.pod = {p} /\ sched.node \in Nodes
  BY <1>1, NoNodeAssumption DEF IInv, Types, SchedOK, Remembered, Idle
<1>3. CASE /\ CanAssume(p) /\ AssumePod(p, sched.node)
           /\ bindings' = bindings \cup {[pod |-> p, node |-> sched.node, pc |-> "bind"]}
           /\ UNCHANGED <<api, retries>>
  <2>1. [pod |-> p, node |-> sched.node, pc |-> "bind"] \in Binding
    BY <1>2 DEF Binding
  <2>2. [node |-> sched.node, assumed |-> TRUE, finished |-> FALSE] \in PodState
    BY <1>2 DEF PodState
  <2>3. podStates' = [podStates EXCEPT ![p] = [node |-> sched.node, assumed |-> TRUE, finished |-> FALSE]]
    BY <1>3 DEF AssumePod
  <2>4. Types' /\ InOneQueue'
    BY <1>1, <1>2, <1>3, <2>1, <2>2, <2>3 DEF IInv, Types, QueueTypeOK, InOneQueue, inQueue, informed
  <2>5. Held'
    <3> DEFINE new == [pod |-> p, node |-> sched.node, pc |-> "bind"]
    <3>0. new \in bindings' /\ new.pod = p /\ new.pc # "orphan"
      BY <1>3
    <3> HIDE DEF new
    <3>1. \E b \in bindings' : b.pod = p /\ b.pc # "orphan"
      BY <3>0
    <3>2. bindings \subseteq bindings'
      BY <1>3
    <3> QED BY <1>1, <1>2, <1>3, <3>1, <3>2 DEF IInv, Held, InHand, inQueue, informed
  <2>6. Doomed' /\ Bound' /\ Remembered' /\ Told'
    BY <1>1, <1>3 DEF IInv, Doomed, Ending, Bound, Remembered, Told, Idle, inQueue, informed
  <2>7. Confirmed'
    BY <1>1, <1>3, <2>3 DEF IInv, Types, Confirmed, Cached, Assumed, informed
  <2> QED BY <2>4, <2>5, <2>6, <2>7 DEF IInv
<1>4. CASE recordSchedulingFailure(p, sched.overtaken) /\ UNCHANGED <<podStates, nodes, bindings>>
  <2>1. podStates' \in [Pods -> PodState] /\ \A q \in Pods : podStates'[q] = podStates[q]
    BY <1>4 DEF IInv, Types
  <2> QED BY <1>1, <1>2, <1>4, <2>1, FailureStep
<1> QED BY <1>3, <1>4 DEF Assume

\* A binding changes an unassigned pod that is not being deleted, and nothing else.
LEMMA AssignFacts ==
  ASSUME IInv, NEW b \in bindings, assignPod(b)
  PROVE  /\ b.pod \in Pods /\ api[b.pod].phase = "pending" /\ ~api[b.pod].dying
         /\ api' \in [Pods -> PodObject] /\ api'[b.pod].phase = "bound"
         /\ \A q \in Pods \ {b.pod} : api'[q] = api[q]
<1>1. b.pod \in Pods /\ b.node \in Nodes /\ api \in [Pods -> PodObject]
  BY DEF IInv, Types, Binding
<1> DEFINE o == [NoPod EXCEPT !.phase = "bound", !.node = b.node]
<1>2. o \in PodObject /\ o.phase = "bound"
  BY <1>1 DEF NoPod, PodObject
<1>3. api' = [api EXCEPT ![b.pod] = o] /\ api[b.pod].phase = "pending" /\ ~api[b.pod].dying
  BY DEF assignPod, Bindable
<1> HIDE DEF o
<1> QED BY <1>1, <1>2, <1>3

\* What an assignment, or none, does to the invariant, except to the bindings.
LEMMA AssignStep ==
  ASSUME IInv, NEW b \in bindings, assignPod(b) \/ api' = api,
         UNCHANGED <<queueVars, podStates, sched, informed>>,
         bindings' \subseteq Binding,
         \A c \in bindings : c.pc # "orphan" => \E d \in bindings' : d.pod = c.pod /\ d.pc # "orphan",
         \A d \in bindings' : d.pc = "done" => d \in bindings \/ (d.pod = b.pod /\ assignPod(b))
  PROVE  IInv'
<1>1. /\ b.pod \in Pods /\ api' \in [Pods -> PodObject]
      /\ \A q \in Pods : \/ api'[q] = api[q]
                         \/ api[q].phase = "pending" /\ ~api[q].dying /\ api'[q].phase = "bound"
  BY AssignFacts DEF IInv, Types, Binding
<1>2. Types' /\ InOneQueue'
  BY <1>1 DEF IInv, Types, QueueTypeOK, SchedOK, InOneQueue, queueVars, informed
<1>3. Held'
  BY <1>1 DEF IInv, Held, InHand, queueVars, informed
<1>4. Doomed'
  BY <1>1 DEF IInv, Types, QueueTypeOK, Retry, Doomed, Ending, queueVars
<1>5. Bound'
  BY <1>1, AssignFacts DEF IInv, Types, Binding, Bound
<1>6. Remembered' /\ Told' /\ Confirmed'
  BY <1>1 DEF IInv, Remembered, Told, Confirmed, Cached, Assumed, queueVars, informed
<1> QED BY <1>2, <1>3, <1>4, <1>5, <1>6 DEF IInv

LEMMA BindStep == ASSUME IInv, NEW b \in bindings, Bind(b) PROVE IInv'
<1>1. PICK pc \in {"done", "failed"} : /\ bindings' = (bindings \ {b}) \cup {[b EXCEPT !.pc = pc]}
                                       /\ assignPod(b) \/ (pc = "failed" /\ api' = api)
  BY DEF Bind
<1>2. /\ [b EXCEPT !.pc = pc] \in Binding /\ [b EXCEPT !.pc = pc].pod = b.pod
      /\ [b EXCEPT !.pc = pc].pc = pc /\ bindings \subseteq Binding
  BY DEF IInv, Types, Binding
<1> QED BY <1>1, <1>2, AssignStep DEF Bind, cacheVars

LEMMA BindArrivesLateStep == ASSUME IInv, NEW b \in bindings, BindArrivesLate(b) PROVE IInv'
<1>1. bindings \subseteq Binding /\ bindings' = bindings \ {b} /\ b.pc = "orphan"
  BY DEF IInv, Types, BindArrivesLate
<1> QED BY <1>1, AssignStep DEF BindArrivesLate, cacheVars

LEMMA BindReturnsStep == ASSUME IInv, NEW b \in bindings, BindReturns(b) PROVE IInv'
<1>1. /\ bindings' = bindings \ {b} /\ b.pod \in Pods /\ bindings \subseteq Binding
      /\ UNCHANGED <<inQueue, informed, sched>> /\ SchedOK'
  BY DEF BindReturns, IInv, Types, SchedOK, Binding
<1>2. /\ podStates \in [Pods -> PodState] /\ NoState \in PodState
      /\ Finished(podStates, b.pod) \in [Pods -> PodState]
      /\ \A q \in Pods : \/ Finished(podStates, b.pod)[q] = podStates[q]
                         \/ Finished(podStates, b.pod)[q].assumed
  <2>1. podStates \in [Pods -> PodState] /\ NoState \in PodState
    BY DEF IInv, Types, NoState, PodState
  <2>2. CASE podStates[b.pod].assumed
    <3> DEFINE o == [podStates[b.pod] EXCEPT !.finished = TRUE]
    <3>1. o \in PodState /\ o.assumed
      BY <1>1, <2>1, <2>2 DEF PodState
    <3>2. Finished(podStates, b.pod) = [podStates EXCEPT ![b.pod] = o]
      BY <2>2 DEF Finished
    <3> HIDE DEF o
    <3> QED BY <1>1, <2>1, <3>1, <3>2
  <2>3. CASE ~podStates[b.pod].assumed
    BY <2>1, <2>3 DEF Finished
  <2> QED BY <2>2, <2>3
<1>3. CASE /\ b.pc = "done" /\ podStates' = Finished(podStates, b.pod)
           /\ UNCHANGED <<nodes, api, retries>>
  <2>1. Types' /\ InOneQueue'
    BY <1>1, <1>2, <1>3 DEF IInv, Types, QueueTypeOK, InOneQueue, inQueue, informed
  <2>2. Held'
    BY <1>1, <1>3 DEF IInv, Bound, Held, InHand, inQueue, informed
  <2>3. Doomed' /\ Bound' /\ Remembered' /\ Told'
    BY <1>1, <1>3 DEF IInv, Doomed, Ending, Bound, Remembered, Told, inQueue, informed
  <2>4. Confirmed'
    BY <1>1, <1>2, <1>3 DEF IInv, Confirmed, Cached, Assumed, informed
  <2> QED BY <2>1, <2>2, <2>3, <2>4 DEF IInv
<1>4. CASE /\ FinishAndForget(b.pod, b.node)
           /\ recordSchedulingFailure(b.pod, FALSE)
  <2>1. /\ podStates' \in [Pods -> PodState]
        /\ \A q \in Pods : \/ podStates'[q] = NoState \/ podStates'[q].assumed
                           \/ podStates'[q] = podStates[q]
    BY <1>1, <1>2, <1>4 DEF FinishAndForget
  <2> QED BY <1>1, <1>4, <2>1, FailureStep
<1> QED BY <1>3, <1>4 DEF BindReturns

LEMMA RetryGetStep == ASSUME IInv, NEW r \in retries, RetryGet(r) PROVE IInv'
<1> DEFINE New(x) == [r EXCEPT !.got = TRUE, !.dying = api[x].dying]
           X == {r.pod} \cap {p \in Pods : api[p].phase = "pending"}
<1>1. /\ retries' = (retries \ {r}) \cup {New(x) : x \in X}
      /\ UNCHANGED <<inQueue, podStates, api, toldQueue, toldCache, sched, bindings>>
  BY DEF RetryGet, cacheVars, world
<1>2. r \in Retry /\ api \in [Pods -> PodObject] /\ retries \subseteq Retry
  BY DEF IInv, Types, QueueTypeOK
<1>3. \A x \in X : /\ New(x) \in Retry /\ New(x).pod = r.pod /\ x = r.pod
                   /\ New(x).dying = api[x].dying /\ New(x).moved = r.moved
                   /\ New(x).overtaken = r.overtaken
  BY <1>2 DEF Retry, PodObject
<1> HIDE DEF New
<1>4. /\ \A s \in retries' : \/ s \in retries
                             \/ /\ s \in Retry /\ s.pod = r.pod /\ s.dying = api[r.pod].dying
                                /\ s.moved = r.moved /\ s.overtaken = r.overtaken
      /\ api[r.pod].phase = "pending" => \E s \in retries' : s.pod = r.pod
      /\ \A s \in retries : s # r => s \in retries'
  <2>1. ASSUME NEW s \in retries', s \notin retries
        PROVE  /\ s \in Retry /\ s.pod = r.pod /\ s.dying = api[r.pod].dying
               /\ s.moved = r.moved /\ s.overtaken = r.overtaken
    <3>1. PICK x \in X : s = New(x)
      BY <1>1, <2>1
    <3> QED BY <1>3, <3>1
  <2>2. ASSUME api[r.pod].phase = "pending" PROVE \E s \in retries' : s.pod = r.pod
    <3>1. r.pod \in X
      BY <1>2, <2>2 DEF Retry
    <3>2. New(r.pod) \in retries'
      BY <1>1, <3>1
    <3> QED BY <1>3, <3>1, <3>2
  <2> QED BY <1>1, <2>1, <2>2
<1>5. Types' /\ InOneQueue'
  BY <1>1, <1>2, <1>4 DEF IInv, Types, QueueTypeOK, SchedOK, InOneQueue, inQueue
<1>6. Held'
  BY <1>1, <1>4 DEF IInv, Held, InHand, inQueue
<1>7. Doomed' /\ Remembered'
  BY <1>1, <1>4 DEF IInv, Doomed, Ending, Remembered, inQueue
<1>8. Bound' /\ Told' /\ Confirmed'
  BY <1>1 DEF IInv, Bound, Told, Confirmed, Cached, Assumed
<1> QED BY <1>5, <1>6, <1>7, <1>8 DEF IInv

LEMMA RetryAddStep == ASSUME IInv, NEW r \in retries, RetryAdd(r) PROVE IInv'
<1>1. /\ retries' = retries \ {r} /\ AddUnschedulableIfNotPresent(r)
      /\ UNCHANGED <<podStates, api, toldQueue, toldCache, sched, bindings>>
  BY DEF RetryAdd, cacheVars, world
<1>2. r \in Retry /\ r.pod \in Pods /\ QueueTypeOK /\ InOneQueue
  BY DEF IInv, Types, QueueTypeOK, Retry
<1>3. /\ QueueTypeOK' /\ InOneQueue' /\ InQueue' = InQueue \cup {r.pod} /\ moved' = moved
      /\ terminating' \subseteq terminating \cup {r.pod}
      /\ r.pod \in terminating' => r.pod \in terminating \/ r.dying
  BY <1>1, <1>2 DEF AddUnschedulableIfNotPresent, StoreObject, QueueTypeOK, InOneQueue, InQueue
<1>4. Types'
  BY <1>1, <1>3 DEF IInv, Types, SchedOK
<1>5. Held'
  BY <1>1, <1>3 DEF IInv, Held, InHand, InQueue
<1>6. Doomed'
  BY <1>1, <1>3 DEF IInv, Doomed, Ending
<1>7. Bound' /\ Remembered' /\ Told' /\ Confirmed'
  BY <1>1, <1>3 DEF IInv, Bound, Remembered, Told, Confirmed, Cached, Assumed
<1> QED BY <1>3, <1>4, <1>5, <1>6, <1>7 DEF IInv

LEMMA RestartStep == ASSUME IInv, Restart PROVE IInv'
<1>1. /\ activeQ' = {} /\ podBackoffQ' = {} /\ unschedulableQ' = {} /\ terminating' = {}
      /\ moved' = FALSE /\ retries' = {} /\ sched' = Idle /\ api' = api
      /\ podStates' = [p \in Pods |-> NoState]
      /\ toldQueue' = [p \in Pods |-> NoPod] /\ toldCache' = toldQueue'
  BY DEF Restart
<1>2. \A b \in bindings' : b \in Binding /\ b.pc = "orphan"
  <2> TAKE b \in bindings'
  <2>1. PICK c \in bindings : b = [c EXCEPT !.pc = "orphan"]
    BY DEF Restart
  <2>2. c \in Binding
    BY DEF IInv, Types
  <2> QED BY <2>1, <2>2 DEF Binding
<1>3. /\ NoState \in PodState /\ NoState.node = NoNode /\ NoPod \in PodObject
  BY DEF NoState, PodState, NoPod, PodObject
<1>4. /\ podStates' \in [Pods -> PodState] /\ api' \in [Pods -> PodObject]
      /\ toldQueue' \in [Pods -> PodObject] /\ toldCache' \in [Pods -> PodObject]
  BY <1>1, <1>3 DEF IInv, Types
<1>5. Types' /\ InOneQueue'
  BY <1>1, <1>2, <1>4, NoNodeAssumption DEF Types, QueueTypeOK, SchedOK, InOneQueue, Idle
<1>6. Held' /\ Doomed' /\ Bound' /\ Remembered' /\ Told'
  BY <1>1, <1>2 DEF Held, Doomed, Bound, Remembered, Told, Idle
<1>7. Confirmed'
  BY <1>1, <1>3 DEF Confirmed, Cached
<1> QED BY <1>5, <1>6, <1>7 DEF IInv

-----------------------------------------------------------------------------
(* The theorems. *)

LEMMA NextIInv == ASSUME IInv, [Next]_vars PROVE IInv'
<1>1. CASE UNCHANGED vars
  BY <1>1 DEF IInv, Types, QueueTypeOK, SchedOK, InOneQueue, Held, InHand, Doomed, Ending, Bound,
              Remembered, Told, Confirmed, Cached, Assumed, vars, queueVars, cacheVars, world
<1>2. CASE Next
  BY <1>2, EditPodStep, DeletePodStep, PodEndsStep, ExpireStep, HandleQueueEventStep,
     HandleCacheEventStep, NextPodStep, ScheduleStep, AssumeStep, NodeHandlerSteps, RestartStep,
     FlushBackoffStep, FlushUnschedulableStep, BindStep, BindReturnsStep, BindArrivesLateStep,
     RetryGetStep, RetryAddStep DEF Next
<1> QED BY <1>1, <1>2

\* The invariant holds, whatever users, nodes, failures and restarts do.
THEOREM SchedulerInvariant == Spec => []IInv
  BY InitIInv, NextIInv, PTL DEF Spec

\* No pod is in two of the queue's three parts, however Add, Update, Delete, the returns of
\* failed attempts, the flushes and move requests interleave (PriorityQueue).
THEOREM QueuesDisjoint == Spec => []InOneQueue
<1>1. IInv => InOneQueue
  BY DEF IInv
<1> QED BY <1>1, SchedulerInvariant, PTL

\* An unassigned pod that the scheduler was told of is in a queue, in scheduleOne, in a
\* binding or on its way back, or news of it is to come.
THEOREM PodsAreNotLost == Spec => []NoPodLost
<1>1. IInv => NoPodLost
  BY DEF IInv, Held, NoPodLost, NoPod
<1> QED BY <1>1, SchedulerInvariant, PTL

\* The cache does not find a confirmed pod on another node than it was added to, which
\* would end the process (UpdatePod, RemovePod).
THEOREM CacheNotCorrupted == Spec => []NotCorrupted
<1>1. IInv => NotCorrupted
  BY DEF IInv, Confirmed, NotCorrupted
<1> QED BY <1>1, SchedulerInvariant, PTL

\* A step that ends an overtaken attempt does not leave its pod unschedulable.
LEMMA MoveSeenStep ==
  ASSUME IInv, [Next]_vars, NEW r \in retries, r.overtaken, r \notin retries', r.got,
         r.pod \in unschedulableQ'
  PROVE  r.pod \in unschedulableQ
<1>1. ASSUME NEW S \in SUBSET unschedulableQ, movePodsToActiveQueue(S)
      PROVE  r.pod \in unschedulableQ
  BY <1>1 DEF movePodsToActiveQueue
<1>2. ASSUME NEW s \in retries, RetryGet(s) PROVE FALSE
  BY <1>2 DEF RetryGet
<1>3. ASSUME NEW s \in retries, RetryAdd(s) PROVE r.pod \in unschedulableQ
  <2>1. s = r /\ r.moved
    BY <1>3 DEF RetryAdd, IInv, Remembered
  <2> QED BY <1>3, <2>1 DEF RetryAdd, AddUnschedulableIfNotPresent
<1>5. CASE UNCHANGED vars
  BY <1>5 DEF vars, queueVars
<1>6. ASSUME NEW p \in Pods,
             \/ EditPod(p) \/ DeletePod(p) \/ PodEnds(p) \/ Expire(p) \/ NextPod(p)
      PROVE  FALSE
  BY <1>6 DEF EditPod, DeletePod, PodEnds, Expire, NextPod, Pop, local, queueVars
<1>7. ASSUME NEW p \in Pods, HandleQueueEvent(p) PROVE FALSE
  BY <1>7 DEF HandleQueueEvent, Add, Update, Delete, queueVars
<1>8. ASSUME NEW p \in Pods, HandleCacheEvent(p) PROVE r.pod \in unschedulableQ
  BY <1>1, <1>8 DEF HandleCacheEvent, AssignedPodAdded, MoveAllToActiveQueue
<1>9. ASSUME NEW p \in Pods, Schedule(p) \/ Assume(p) PROVE FALSE
  BY <1>9 DEF Schedule, Assume, recordSchedulingFailure
<1>10. ASSUME NEW n \in Nodes, AddNodeToCache(n) \/ UpdateNodeInCache(n) \/ DeleteNodeFromCache(n)
       PROVE  r.pod \in unschedulableQ
  BY <1>1, <1>10 DEF AddNodeToCache, UpdateNodeInCache, DeleteNodeFromCache,
                     MoveAllToActiveQueue, queueVars
<1>11. ASSUME Restart PROVE FALSE
  BY <1>11 DEF Restart
<1>12. ASSUME NEW S \in SUBSET Pods, FlushBackoff(S) \/ FlushUnschedulable(S)
       PROVE  r.pod \in unschedulableQ
  BY <1>1, <1>12 DEF FlushBackoff, FlushUnschedulable, flushBackoffQCompleted,
                     flushUnschedulableQLeftover
<1>13. ASSUME NEW b \in bindings, Bind(b) \/ BindReturns(b) \/ BindArrivesLate(b) PROVE FALSE
  BY <1>13 DEF Bind, BindReturns, BindArrivesLate, recordSchedulingFailure, queueVars
<1> QED BY <1>2, <1>3, <1>5, <1>6, <1>7, <1>8, <1>9, <1>10, <1>11, <1>12, <1>13 DEF Next

\* A failed attempt that a move request overtook is not put into unschedulableQ
\* (moveRequestCycle in AddUnschedulableIfNotPresent).
THEOREM MovesAreSeen == Spec => MoveSeen
<1> DEFINE Seen == \A r \in retries : r.overtaken /\ r \notin retries' /\ r.got
                     => (r.pod \in unschedulableQ' => r.pod \in unschedulableQ)
<1>1. IInv /\ [Next]_vars => [Seen]_vars
  BY MoveSeenStep
<1>2. MoveSeen <=> [][Seen]_vars
  BY PTL DEF MoveSeen
<1> HIDE DEF Seen
<1> QED BY <1>1, <1>2, SchedulerInvariant, PTL DEF Spec

-----------------------------------------------------------------------------
(* The cache's books: what makes its list of nodes good enough for a snapshot. *)

NodeInfo == [node: BOOLEAN, pods: SUBSET Pods]
SnapshotEntry == [in: BOOLEAN, pods: SUBSET Pods]

\* A node is in the list once.
Distinct(list) == \A i, j \in 1..Len(list) : list[i] = list[j] => i = j

\* The nodes of C are a prefix of the list.
First(list, C) == \A i, j \in 1..Len(list) : i < j /\ list[j] \in C => list[i] \in C

\* The nodes and their list: all that changed since the last snapshot comes first.
Sound(c) ==
    /\ c \in [info: [Nodes -> NodeInfo], list: Seq(Nodes), changed: SUBSET Nodes]
    /\ Distinct(c.list) /\ First(c.list, c.changed)
    /\ \A n \in Nodes : n \in Listed(c) <=> (c.info[n].node \/ c.info[n].pods # {})

\* A pod counts where its podState says.
Counts(c, ps) == \A n \in Nodes : c.info[n].pods = {p \in Pods : ps[p].node = n}

\* What has not changed since is in the snapshot.
Fresh(c, s) == \A n \in Nodes : c.info[n].node /\ n \notin c.changed
                                => s[n] = [in |-> TRUE, pods |-> c.info[n].pods]

CacheOK(c, ps, s) ==
    /\ Sound(c) /\ Counts(c, ps) /\ Fresh(c, s)
    /\ s \in [Nodes -> SnapshotEntry] /\ ps \in [Pods -> PodState]
    /\ \A p \in Pods : ps[p].assumed => ps[p].node # NoNode

CacheInv == CacheOK(nodes, podStates, snapshot)

\* Sequences of nodes.
LEMMA ConcatFacts ==
  \A a, z \in Seq(Nodes) :
    /\ a \o z \in Seq(Nodes) /\ Len(a \o z) = Len(a) + Len(z)
    /\ \A i \in 1..(Len(a) + Len(z)) : (a \o z)[i] = IF i <= Len(a) THEN a[i] ELSE z[i - Len(a)]
  OBVIOUS

LEMMA ElementFacts == \A s \in Seq(Nodes) : \A i \in 1..Len(s) : s[i] \in ToSet(s)
  BY DEF ToSet

\* A node is taken out of the list; the others keep their order.
LEMMA UnlinkFacts ==
  ASSUME NEW list \in Seq(Nodes), Distinct(list), NEW n
  PROVE  /\ Unlinked(list, n) \in Seq(Nodes) /\ Distinct(Unlinked(list, n))
         /\ ToSet(Unlinked(list, n)) = ToSet(list) \ {n}
         /\ \A C : First(list, C) => First(Unlinked(list, n), C)
<1>1. CASE n \notin ToSet(list)
  BY <1>1 DEF Unlinked
<1>2. CASE n \in ToSet(list)
  <2> DEFINE k == CHOOSE i \in DOMAIN list : list[i] = n
             u == RemoveAt(list, k)
  <2>1. k \in 1..Len(list) /\ list[k] = n
    BY <1>2 DEF ToSet
  <2>2. Unlinked(list, n) = u
    BY <1>2 DEF Unlinked
  <2> HIDE DEF k
  <2>3. /\ u \in Seq(Nodes) /\ Len(u) = Len(list) - 1
        /\ \A i \in 1..Len(u) : u[i] = IF i < k THEN list[i] ELSE list[i + 1]
    <3> DEFINE a == SubSeq(list, 1, k - 1)
               z == SubSeq(list, k + 1, Len(list))
    <3>1. /\ a \in Seq(Nodes) /\ Len(a) = k - 1
          /\ \A i \in 1..(k - 1) : a[i] = list[i]
      BY <2>1
    <3>2. /\ z \in Seq(Nodes) /\ Len(z) = Len(list) - k
          /\ \A i \in 1..(Len(list) - k) : z[i] = list[i + k]
      BY <2>1
    <3>3. u = a \o z
      BY DEF RemoveAt
    <3> HIDE DEF a, z, u
    <3>4. u \in Seq(Nodes) /\ Len(u) = Len(list) - 1
      <4>1. u \in Seq(Nodes) /\ Len(u) = Len(a) + Len(z)
        BY <3>1, <3>2, <3>3, ConcatFacts
      <4>2. Len(list) \in Nat /\ k \in Nat
        BY <2>1
      <4> QED BY <3>1, <3>2, <4>1, <4>2
    <3>5. ASSUME NEW i \in 1..Len(u) PROVE u[i] = IF i < k THEN list[i] ELSE list[i + 1]
      <4>1. CASE i < k
        BY <2>1, <3>1, <3>2, <3>3, <3>4, <4>1
      <4>2. CASE i >= k
        <5>1. u[i] = z[i - (k - 1)]
          BY <2>1, <3>1, <3>2, <3>3, <3>4, <4>2
        <5>2. (i - (k - 1)) \in 1..(Len(list) - k) /\ (i - (k - 1)) + k = i + 1
          BY <2>1, <3>4, <4>2
        <5>3. z[i - (k - 1)] = list[i + 1]
          BY <3>2, <5>2
        <5> QED BY <2>1, <4>2, <5>1, <5>3
      <4> QED BY <2>1, <4>1, <4>2
    <3> QED BY <3>4, <3>5
  <2> HIDE DEF u
  <2>4. Distinct(u) /\ \A C : First(list, C) => First(u, C)
    <3> DEFINE At(i) == IF i < k THEN i ELSE i + 1
    <3>1. \A i \in 1..Len(u) : At(i) \in 1..Len(list) /\ u[i] = list[At(i)]
      BY <2>1, <2>3
    <3>2. \A i, j \in 1..Len(u) : (At(i) = At(j) => i = j) /\ (i < j => At(i) < At(j))
      BY <2>1, <2>3
    <3> HIDE DEF At
    <3> QED BY <3>1, <3>2 DEF Distinct, First
  <2>5. ToSet(u) \subseteq ToSet(list) \ {n}
    BY <2>1, <2>3 DEF Distinct, ToSet
  <2>6. ASSUME NEW i \in 1..Len(list), list[i] # n PROVE list[i] \in ToSet(u)
    <3>1. CASE i < k
      <4>1. i \in 1..Len(u) /\ u[i] = list[i]
        BY <2>1, <2>3, <3>1
      <4> QED BY <2>3, <4>1 DEF ToSet
    <3>2. CASE i > k
      <4>1. (i - 1) \in 1..Len(u) /\ u[i - 1] = list[i]
        BY <2>1, <2>3, <3>2
      <4> QED BY <2>3, <4>1 DEF ToSet
    <3> QED BY <2>1, <2>6, <3>1, <3>2
  <2>7. ToSet(list) \ {n} \subseteq ToSet(u)
    BY <2>6 DEF ToSet
  <2> QED BY <2>2, <2>3, <2>4, <2>5, <2>7
<1> QED BY <1>1, <1>2

\* A node at the head may be one of those that have changed.
LEMMA HeadFacts ==
  ASSUME NEW list \in Seq(Nodes), Distinct(list), NEW n \in Nodes
  PROVE  /\ MoveToHead(list, n) \in Seq(Nodes) /\ Distinct(MoveToHead(list, n))
         /\ ToSet(MoveToHead(list, n)) = ToSet(list) \cup {n}
         /\ \A C : First(list, C) => First(MoveToHead(list, n), C \cup {n})
<1> DEFINE u == Unlinked(list, n)
           m == MoveToHead(list, n)
<1>1. /\ u \in Seq(Nodes) /\ Distinct(u) /\ ToSet(u) = ToSet(list) \ {n}
      /\ \A C : First(list, C) => First(u, C)
  BY UnlinkFacts
<1>2. m = <<n>> \o u
  BY DEF MoveToHead
<1> HIDE DEF u, m
<1>3. /\ m \in Seq(Nodes) /\ Len(m) = Len(u) + 1 /\ m[1] = n
      /\ \A i \in 2..Len(m) : m[i] = u[i - 1]
  BY <1>1, <1>2
<1>4. \A i \in 1..Len(u) : u[i] # n /\ u[i] = m[i + 1]
  <2>1. \A i \in 1..Len(u) : u[i] \in ToSet(u)
    BY <1>1 DEF ToSet
  <2>2. \A i \in 1..Len(u) : i + 1 \in 2..Len(m) /\ (i + 1) - 1 = i
    BY <1>1, <1>3
  <2> QED BY <1>1, <1>3, <2>1, <2>2
<1>5. Distinct(m)
  <2> SUFFICES ASSUME NEW i \in 1..Len(m), NEW j \in 1..Len(m), m[i] = m[j] PROVE i = j
    BY DEF Distinct
  <2>1. i # 1 => i - 1 \in 1..Len(u) /\ m[i] = u[i - 1] /\ u[i - 1] # n
    BY <1>1, <1>3, <1>4
  <2>2. j # 1 => j - 1 \in 1..Len(u) /\ m[j] = u[j - 1] /\ u[j - 1] # n
    BY <1>1, <1>3, <1>4
  <2>3. i # 1 /\ j # 1 => i - 1 = j - 1
    BY <1>1, <2>1, <2>2 DEF Distinct
  <2>4. (i = 1 <=> j = 1)
    BY <1>3, <2>1, <2>2
  <2> QED BY <2>3, <2>4
<1>6. ASSUME NEW C, First(list, C) PROVE First(m, C \cup {n})
  <2> SUFFICES ASSUME NEW i \in 1..Len(m), NEW j \in 1..Len(m), i < j, m[j] \in C \cup {n}
               PROVE  m[i] \in C \cup {n}
    BY DEF First
  <2>1. i # 1 => i - 1 \in 1..Len(u) /\ m[i] = u[i - 1]
    BY <1>1, <1>3
  <2>2. j - 1 \in 1..Len(u) /\ m[j] = u[j - 1] /\ u[j - 1] \in C
    BY <1>1, <1>3, <1>4
  <2>3. First(u, C)
    BY <1>1, <1>6
  <2> QED BY <1>1, <1>3, <2>1, <2>2, <2>3, SMTT(20) DEF First
<1>7. ToSet(m) = ToSet(u) \cup {n}
  <2>1. ToSet(m) \subseteq ToSet(u) \cup {n}
    BY <1>1, <1>3 DEF ToSet
  <2>2. \A i \in 1..Len(u) : i + 1 \in DOMAIN m /\ u[i] = m[i + 1]
    BY <1>1, <1>3, <1>4
  <2>3. 1 \in DOMAIN m /\ m[1] = n
    BY <1>1, <1>3
  <2>4. ToSet(u) \cup {n} \subseteq ToSet(m)
    BY <1>1, <2>2, <2>3 DEF ToSet
  <2> QED BY <2>1, <2>4
<1> QED BY <1>1, <1>3, <1>5, <1>6, <1>7 DEF m

\* d is c with another NodeInfo for n, and knows that it has changed.
Changed(c, d, n, i) ==
    /\ Sound(d) /\ d.info = [c.info EXCEPT ![n] = i]
    /\ i.node => n \in d.changed
    /\ \A m \in Nodes \ {n} : m \in c.changed <=> m \in d.changed

\* The three ways to change a NodeInfo.
LEMMA TouchedFacts ==
  ASSUME NEW c, Sound(c), NEW n \in Nodes, NEW i \in NodeInfo, i.node \/ i.pods # {}
  PROVE  Changed(c, Touched(c, n, i), n, i)
<1> DEFINE d == Touched(c, n, i)
<1>1. /\ c.info \in [Nodes -> NodeInfo] /\ c.list \in Seq(Nodes) /\ c.changed \subseteq Nodes
      /\ Distinct(c.list) /\ First(c.list, c.changed)
  BY DEF Sound
<1>2. /\ d.info = [c.info EXCEPT ![n] = i] /\ d.list = MoveToHead(c.list, n)
      /\ d.changed = c.changed \cup {n}
  BY DEF Touched
<1>3. /\ d.list \in Seq(Nodes) /\ Distinct(d.list) /\ First(d.list, d.changed)
      /\ Listed(d) = Listed(c) \cup {n}
  <2> DEFINE m == MoveToHead(c.list, n)
  <2>1. /\ m \in Seq(Nodes) /\ Distinct(m) /\ ToSet(m) = ToSet(c.list) \cup {n}
        /\ First(m, c.changed \cup {n})
    BY <1>1, HeadFacts, Zenon
  <2> QED BY <1>1, <1>2, <2>1 DEF Listed
<1>4. d \in [info: [Nodes -> NodeInfo], list: Seq(Nodes), changed: SUBSET Nodes]
  <2>1. d.info \in [Nodes -> NodeInfo] /\ d.changed \subseteq Nodes
    BY <1>1, <1>2
  <2> QED BY <1>3, <2>1 DEF Touched
<1> HIDE DEF d
<1>5. \A m \in Nodes : m \in Listed(d) <=> (d.info[m].node \/ d.info[m].pods # {})
  BY <1>1, <1>2, <1>3 DEF Sound
<1> QED BY <1>2, <1>3, <1>4, <1>5 DEF Changed, Sound, d

LEMMA DroppedFacts ==
  ASSUME NEW c, Sound(c), NEW n \in Nodes, NEW i \in NodeInfo, ~(i.node \/ i.pods # {})
  PROVE  Changed(c, Dropped(c, n, i), n, i)
<1> DEFINE d == Dropped(c, n, i)
<1>1. /\ c.info \in [Nodes -> NodeInfo] /\ c.list \in Seq(Nodes) /\ c.changed \subseteq Nodes
      /\ Distinct(c.list) /\ First(c.list, c.changed)
  BY DEF Sound
<1>2. /\ d.info = [c.info EXCEPT ![n] = i] /\ d.list = Unlinked(c.list, n)
      /\ d.changed = c.changed \ {n}
  BY DEF Dropped
<1>3. /\ d.list \in Seq(Nodes) /\ Distinct(d.list) /\ First(d.list, c.changed)
      /\ Listed(d) = Listed(c) \ {n}
  BY <1>1, <1>2, UnlinkFacts DEF Listed
<1>4. d \in [info: [Nodes -> NodeInfo], list: Seq(Nodes), changed: SUBSET Nodes]
  <2>1. d.info \in [Nodes -> NodeInfo] /\ d.changed \subseteq Nodes
    BY <1>1, <1>2
  <2> QED BY <1>3, <2>1 DEF Dropped
<1> HIDE DEF d
<1>5. \A m \in Nodes : m \in Listed(d) <=> (d.info[m].node \/ d.info[m].pods # {})
  BY <1>1, <1>2, <1>3 DEF Sound
<1>6. First(d.list, d.changed)
  <2>1. \A j \in 1..Len(d.list) : d.list[j] # n
    BY <1>3, ElementFacts DEF Listed
  <2> QED BY <1>2, <1>3, <2>1 DEF First
<1> QED BY <1>2, <1>3, <1>4, <1>5, <1>6 DEF Changed, Sound, d

LEMMA KeptFacts ==
  ASSUME NEW c, Sound(c), NEW n \in Nodes, NEW i \in NodeInfo
  PROVE  Changed(c, Kept(c, n, i), n, i)
  BY TouchedFacts, DroppedFacts DEF Kept

\* A change is one that the next snapshot sees.
LEMMA ChangedIsFresh ==
  ASSUME NEW c, Sound(c), NEW d, NEW n \in Nodes, NEW i \in NodeInfo, Changed(c, d, n, i),
         NEW s, Fresh(c, s)
  PROVE  Fresh(d, s)
  BY ZenonT(30) DEF Changed, Fresh, Sound

\* Adding a pod to a node, and taking it away.
LEMMA addPodFacts ==
  ASSUME NEW c, Sound(c), NEW p \in Pods, NEW n \in Nodes
  PROVE  /\ Sound(addPod(c, p, n))
         /\ \A s : Fresh(c, s) => Fresh(addPod(c, p, n), s)
         /\ \A m \in Nodes : /\ addPod(c, p, n).info[m].node = c.info[m].node
                             /\ addPod(c, p, n).info[m].pods
                                  = c.info[m].pods \cup (IF m = n THEN {p} ELSE {})
<1> DEFINE i == [c.info[n] EXCEPT !.pods = @ \cup {p}]
<1>1. c.info \in [Nodes -> NodeInfo] /\ c.info[n] \in NodeInfo
  BY DEF Sound
<1>2. i \in NodeInfo /\ i.pods = c.info[n].pods \cup {p} /\ i.node = c.info[n].node
  BY <1>1 DEF NodeInfo
<1> HIDE DEF i
<1>3. Changed(c, addPod(c, p, n), n, i)
  BY <1>2, TouchedFacts DEF addPod, i
<1> QED BY <1>1, <1>2, <1>3, ChangedIsFresh DEF Changed

LEMMA removePodFacts ==
  ASSUME NEW c, Sound(c), NEW p \in Pods, NEW n \in Nodes
  PROVE  /\ Sound(removePod(c, p, n))
         /\ \A s : Fresh(c, s) => Fresh(removePod(c, p, n), s)
         /\ \A m \in Nodes : /\ removePod(c, p, n).info[m].node = c.info[m].node
                             /\ removePod(c, p, n).info[m].pods
                                  = c.info[m].pods \ (IF m = n THEN {p} ELSE {})
<1> DEFINE i == [c.info[n] EXCEPT !.pods = @ \ {p}]
<1>1. c.info \in [Nodes -> NodeInfo] /\ c.info[n] \in NodeInfo
  BY DEF Sound
<1>2. i \in NodeInfo /\ i.pods = c.info[n].pods \ {p} /\ i.node = c.info[n].node
  BY <1>1 DEF NodeInfo
<1> HIDE DEF i
<1>3. Changed(c, removePod(c, p, n), n, i)
  BY <1>2, KeptFacts DEF removePod, i
<1> QED BY <1>1, <1>2, <1>3, ChangedIsFresh DEF Changed


\* SetToSeq lists each element once.
LEMMA SetToSeqFacts ==
  ASSUME NEW S \in SUBSET Nodes
  PROVE  SetToSeq(S) \in Seq(Nodes) /\ Distinct(SetToSeq(S)) /\ ToSet(SetToSeq(S)) = S
<1> DEFINE k == Cardinality(S)
           f == SetToSeq(S)
<1>1. IsFiniteSet(S) /\ k \in Nat /\ ExistsBijection(1..k, S)
  BY SchedulerAssumption, FS_Subset, FS_CardinalityType
<1>2. PICK g \in [1..k -> S] : IsInjective(g)
  BY <1>1 DEF ExistsBijection, Bijection, Injection
<1>3. f \in [1..k -> S] /\ IsInjective(f)
  BY <1>2 DEF SetToSeq
<1> HIDE DEF f
<1>4. f \in Injection(1..k, S)
  BY <1>3 DEF Injection
<1>5. IsFiniteSet(1..k) /\ Cardinality(1..k) = k
  BY <1>1, FS_Interval
<1> HIDE DEF k
<1>6. f \in Surjection(1..k, S)
  BY <1>1, <1>4, <1>5, FS_Injection DEF k
<1>7. f \in Seq(Nodes) /\ Len(f) = k
  BY <1>1, <1>3
<1>8. Distinct(f)
  BY <1>3, <1>7 DEF Distinct, IsInjective
<1>9. ToSet(f) = S
  BY <1>3, <1>6 DEF ToSet, Surjection
<1> QED BY <1>7, <1>8, <1>9 DEF f

\* The list has as many entries as nodes.
LEMMA ListCardinality ==
  ASSUME NEW list \in Seq(Nodes), Distinct(list)
  PROVE  Cardinality(ToSet(list)) = Len(list)
<1>1. list \in [1..Len(list) -> ToSet(list)] /\ Len(list) \in Nat
  BY DEF ToSet
<1>2. list \in Bijection(1..Len(list), ToSet(list))
  <2>1. IsInjective(list)
    BY <1>1 DEF Distinct, IsInjective
  <2>2. \A t \in ToSet(list) : \E i \in 1..Len(list) : list[i] = t
    BY DEF ToSet
  <2> QED BY <1>1, <2>1, <2>2 DEF Bijection, Injection, Surjection
<1>3. ExistsBijection(1..Len(list), ToSet(list))
  BY <1>2 DEF ExistsBijection
<1> QED BY <1>1, <1>3, FS_CountingElements

\* A cache that holds node objects and no pods, as at the start.
LEMMA EmptyCache ==
  ASSUME NEW S \in SUBSET Nodes, NEW c, NEW ps, NEW s,
         c = [info |-> [n \in Nodes |-> [node |-> n \in S, pods |-> {}]],
              list |-> SetToSeq(S), changed |-> S],
         ps = [p \in Pods |-> NoState],
         s = [n \in Nodes |-> [in |-> FALSE, pods |-> {}]]
  PROVE  CacheOK(c, ps, s)
<1>1. /\ c.info = [n \in Nodes |-> [node |-> n \in S, pods |-> {}]]
      /\ c.list = SetToSeq(S) /\ c.changed = S
  OBVIOUS
<1>2. c.list \in Seq(Nodes) /\ Distinct(c.list) /\ Listed(c) = S
  BY <1>1, SetToSeqFacts DEF Listed
<1>3. /\ c.info \in [Nodes -> NodeInfo]
      /\ \A n \in Nodes : (c.info[n].node <=> n \in S) /\ c.info[n].pods = {}
  <2>1. \A n \in Nodes : (n \in S) \in BOOLEAN
    OBVIOUS
  <2>2. \A n \in Nodes : c.info[n] = [node |-> n \in S, pods |-> {}]
    BY <1>1, Zenon
  <2>3. \A n \in Nodes : c.info[n] \in NodeInfo
    BY <2>1, <2>2, Zenon DEF NodeInfo
  <2>4. \A n \in Nodes : (c.info[n].node <=> n \in S) /\ c.info[n].pods = {}
    BY <2>2, Zenon
  <2> QED BY <1>1, <2>3, <2>4
<1>4. c \in [info: [Nodes -> NodeInfo], list: Seq(Nodes), changed: SUBSET Nodes]
  BY <1>1, <1>2, <1>3
<1>5. First(c.list, c.changed)
  BY <1>1, <1>2, ElementFacts DEF First, Listed
<1>6. Sound(c)
  BY <1>2, <1>3, <1>4, <1>5 DEF Sound
<1>7. Counts(c, ps) /\ Fresh(c, s) /\ s \in [Nodes -> SnapshotEntry]
  BY <1>1, <1>3, NoNodeAssumption DEF Counts, Fresh, NoState, SnapshotEntry
<1>8. ps \in [Pods -> PodState] /\ \A p \in Pods : ~ps[p].assumed
  BY DEF NoState, PodState
<1> QED BY <1>6, <1>7, <1>8 DEF CacheOK

\* A pod that was nowhere counts on a node.
LEMMA PutPod ==
  ASSUME NEW c, NEW ps, NEW s, CacheOK(c, ps, s), NEW p \in Pods, ps[p].node = NoNode,
         NEW q \in PodState, q.node \in Nodes
  PROVE  CacheOK(addPod(c, p, q.node), [ps EXCEPT ![p] = q], s)
<1> DEFINE d == addPod(c, p, q.node)
           qs == [ps EXCEPT ![p] = q]
<1>1. ps \in [Pods -> PodState] /\ Sound(c) /\ Counts(c, ps) /\ Fresh(c, s)
  BY DEF CacheOK
<1>2. /\ Sound(d) /\ Fresh(d, s)
      /\ \A m \in Nodes : d.info[m].pods = c.info[m].pods \cup (IF m = q.node THEN {p} ELSE {})
  BY <1>1, addPodFacts
<1>3. qs \in [Pods -> PodState] /\ qs[p] = q /\ \A r \in Pods \ {p} : qs[r] = ps[r]
  BY <1>1
<1>4. \A r \in Pods : qs[r].assumed => qs[r].node # NoNode
  BY <1>3, NoNodeAssumption DEF CacheOK
<1> HIDE DEF d, qs
<1>5. Counts(d, qs)
  BY <1>1, <1>2, <1>3, NoNodeAssumption DEF Counts
<1> QED BY <1>2, <1>3, <1>4, <1>5 DEF CacheOK, d, qs

\* A pod counts nowhere any more.
LEMMA DropPod ==
  ASSUME NEW c, NEW ps, NEW s, CacheOK(c, ps, s), NEW p \in Pods, ps[p].node \in Nodes
  PROVE  CacheOK(removePod(c, p, ps[p].node), [ps EXCEPT ![p] = NoState], s)
<1> DEFINE n == ps[p].node
           d == removePod(c, p, n)
           qs == [ps EXCEPT ![p] = NoState]
<1>1. ps \in [Pods -> PodState] /\ Sound(c) /\ Counts(c, ps) /\ Fresh(c, s)
  BY DEF CacheOK
<1>2. /\ Sound(d) /\ Fresh(d, s)
      /\ \A m \in Nodes : d.info[m].pods = c.info[m].pods \ (IF m = n THEN {p} ELSE {})
  BY <1>1, removePodFacts
<1>3. NoState \in PodState /\ NoState.node = NoNode /\ ~NoState.assumed
  BY DEF NoState, PodState
<1>4. qs \in [Pods -> PodState] /\ qs[p] = NoState /\ \A r \in Pods \ {p} : qs[r] = ps[r]
  BY <1>1, <1>3
<1>5. \A r \in Pods : qs[r].assumed => qs[r].node # NoNode
  BY <1>3, <1>4 DEF CacheOK
<1> HIDE DEF d, qs
<1>6. Counts(d, qs)
  BY <1>1, <1>2, <1>3, <1>4, NoNodeAssumption DEF Counts
<1> QED BY <1>2, <1>4, <1>5, <1>6 DEF CacheOK, d, qs

\* Of a pod that stays where it is, only the state changes.
LEMMA KeepPod ==
  ASSUME NEW c, NEW ps, NEW s, CacheOK(c, ps, s), NEW p \in Pods, ps[p].node \in Nodes,
         NEW q \in PodState, q.node = ps[p].node
  PROVE  CacheOK(c, [ps EXCEPT ![p] = q], s)
<1> DEFINE qs == [ps EXCEPT ![p] = q]
<1>1. ps \in [Pods -> PodState] /\ Counts(c, ps)
  BY DEF CacheOK
<1>2. qs \in [Pods -> PodState] /\ \A r \in Pods : qs[r].node = ps[r].node
  BY <1>1
<1>3. \A r \in Pods : qs[r].assumed => qs[r].node # NoNode
  BY <1>1, NoNodeAssumption DEF CacheOK
<1> HIDE DEF qs
<1>4. Counts(c, qs)
  BY <1>1, <1>2 DEF Counts
<1> QED BY <1>2, <1>3, <1>4 DEF CacheOK, qs

\* A node object comes, changes or goes.
LEMMA NodeChange ==
  ASSUME NEW c, NEW ps, NEW s, CacheOK(c, ps, s), NEW n \in Nodes, NEW i \in NodeInfo,
         i.pods = c.info[n].pods, NEW d, Changed(c, d, n, i)
  PROVE  CacheOK(d, ps, s)
<1>1. Sound(c) /\ Counts(c, ps) /\ Fresh(c, s) /\ c.info \in [Nodes -> NodeInfo]
  BY DEF CacheOK, Sound
<1>2. Fresh(d, s)
  BY <1>1, ChangedIsFresh
<1>3. Sound(d) /\ \A m \in Nodes : d.info[m].pods = c.info[m].pods
  BY <1>1 DEF Changed
<1> QED BY <1>1, <1>2, <1>3 DEF CacheOK, Counts


\* A pod has a node if it is bound.
Placed == \A p \in Pods : api[p].phase = "bound" <=> api[p].node \in Nodes

\* The snapshot is the cache.
Exact(c, s) == \A n \in Nodes : c.info[n].node => s[n] = [in |-> TRUE, pods |-> c.info[n].pods]

\* The part of the list that is visited is all that has changed.
LEMMA SnapshotFacts ==
  ASSUME CacheInv, UpdateNodeInfoSnapshot
  PROVE  /\ CacheOK(nodes', podStates, snapshot') /\ Exact(nodes', snapshot')
         /\ nodes'.info = nodes.info
<1> DEFINE fresh == {i \in DOMAIN nodes.list : \A j \in 1..i : nodes.list[j] \in nodes.changed}
           copied == {nodes.list[i] : i \in fresh} \cap {n \in Nodes : nodes.info[n].node}
           copy == [n \in Nodes |-> IF n \in copied THEN [in |-> TRUE, pods |-> nodes.info[n].pods]
                                    ELSE snapshot[n]]
           tooMany == Cardinality({n \in Nodes : copy[n].in}) > Len(nodes.list)
<1>1. /\ nodes \in [info: [Nodes -> NodeInfo], list: Seq(Nodes), changed: SUBSET Nodes]
      /\ nodes.info \in [Nodes -> NodeInfo] /\ nodes.list \in Seq(Nodes)
      /\ First(nodes.list, nodes.changed) /\ Fresh(nodes, snapshot) /\ Sound(nodes)
      /\ snapshot \in [Nodes -> SnapshotEntry]
  BY DEF CacheInv, CacheOK, Sound
<1>2. /\ snapshot' = [n \in Nodes |-> IF tooMany /\ n \notin Listed(nodes)
                                      THEN [in |-> FALSE, pods |-> {}] ELSE copy[n]]
      /\ nodes' = [nodes EXCEPT !.changed = {}]
  BY DEF UpdateNodeInfoSnapshot
<1>3. /\ nodes'.info = nodes.info /\ nodes'.list = nodes.list /\ nodes'.changed = {}
      /\ nodes' \in [info: [Nodes -> NodeInfo], list: Seq(Nodes), changed: SUBSET Nodes]
  BY <1>1, <1>2
<1>4. ASSUME NEW n \in Nodes, nodes.info[n].node
      PROVE  copy[n] = [in |-> TRUE, pods |-> nodes.info[n].pods] /\ n \in Listed(nodes)
  <2>1. n \in Listed(nodes)
    BY <1>1, <1>4 DEF Sound
  <2>2. CASE n \in nodes.changed
    <3>1. PICK i \in DOMAIN nodes.list : nodes.list[i] = n
      BY <2>1 DEF Listed, ToSet
    <3>2. \A j \in 1..i : nodes.list[j] \in nodes.changed
      <4> TAKE j \in 1..i
      <4>1. i \in 1..Len(nodes.list) /\ j \in 1..Len(nodes.list) /\ (j < i \/ j = i)
        BY <1>1, <3>1
      <4> QED BY <1>1, <2>2, <3>1, <4>1 DEF First
    <3>3. n \in copied
      BY <1>4, <3>1, <3>2
    <3> HIDE DEF copied
    <3> QED BY <2>1, <3>3
  <2>3. CASE n \notin nodes.changed
    <3>1. snapshot[n] = [in |-> TRUE, pods |-> nodes.info[n].pods]
      BY <1>1, <1>4, <2>3 DEF Fresh
    <3> HIDE DEF copied
    <3> QED BY <2>1, <3>1
  <2> QED BY <2>2, <2>3
<1>5. \A n \in Nodes : copy[n] \in SnapshotEntry
  <2>1. \A n \in Nodes : nodes.info[n].pods \subseteq Pods
    BY <1>1 DEF NodeInfo
  <2> HIDE DEF copied
  <2> QED BY <1>1, <2>1 DEF SnapshotEntry
<1> HIDE DEF copy, tooMany
<1>6. snapshot' \in [Nodes -> SnapshotEntry]
  BY <1>2, <1>5 DEF SnapshotEntry
<1>7. \A n \in Nodes : nodes.info[n].node => snapshot'[n] = [in |-> TRUE, pods |-> nodes.info[n].pods]
  BY <1>2, <1>4
<1>8. Exact(nodes', snapshot') /\ Fresh(nodes', snapshot')
  BY <1>3, <1>7 DEF Exact, Fresh
<1>9. Sound(nodes') /\ Counts(nodes', podStates)
  BY <1>1, <1>3 DEF Sound, First, Listed, Counts, CacheInv, CacheOK
<1> QED BY <1>3, <1>6, <1>8, <1>9 DEF CacheInv, CacheOK

-----------------------------------------------------------------------------
(* The cache after each step. *)

\* An assumption expires.
LEMMA ExpireCache == ASSUME CacheInv, NEW p \in Pods, Expire(p) PROVE CacheInv'
<1>1. podStates[p] \in PodState /\ podStates[p].node \in Nodes
  BY DEF CacheInv, CacheOK, Expire, ExpirePod, Assumed, PodState
<1> QED BY <1>1, DropPod DEF CacheInv, Expire, ExpirePod

\* An assumption is confirmed, here or elsewhere, or an expired pod is added back.
LEMMA AddPodCache ==
  ASSUME CacheInv, NEW p \in Pods, NEW n \in Nodes, AddPod(p, n), snapshot' = snapshot
  PROVE  CacheInv'
<1> DEFINE q == [NoState EXCEPT !.node = n]
<1>1. q \in PodState /\ q.node = n
  BY DEF NoState, PodState
<1> HIDE DEF q
<1>2. podStates[p] \in PodState /\ (Cached(p) <=> podStates[p].node \in Nodes)
  BY NoNodeAssumption DEF CacheInv, CacheOK, PodState, Cached
<1>3. Assumed(p) => Cached(p)
  BY DEF CacheInv, CacheOK, Assumed, Cached
<1>4. CASE Assumed(p) /\ podStates[p].node = n
  <2>1. nodes' = nodes /\ podStates' = [podStates EXCEPT ![p] = q]
    BY <1>2, <1>3, <1>4 DEF AddPod, q
  <2> QED BY <1>1, <1>4, <2>1, KeepPod DEF CacheInv
<1>5. CASE Assumed(p) /\ podStates[p].node # n
  <2> DEFINE m == podStates[p].node
             c == removePod(nodes, p, m)
             ps == [podStates EXCEPT ![p] = NoState]
  <2>1. nodes' = addPod(c, p, n) /\ podStates' = [podStates EXCEPT ![p] = q]
    BY <1>2, <1>3, <1>5 DEF AddPod, q
  <2>2. CacheOK(c, ps, snapshot)
    BY <1>2, <1>3, <1>5, DropPod DEF CacheInv
  <2>3. ps[p].node = NoNode /\ podStates' = [ps EXCEPT ![p] = q]
    BY <2>1 DEF CacheInv, CacheOK, NoState
  <2> HIDE DEF c, ps
  <2>4. CacheOK(addPod(c, p, q.node), [ps EXCEPT ![p] = q], snapshot)
    BY <1>1, <2>2, <2>3, PutPod
  <2> QED BY <1>1, <2>1, <2>3, <2>4 DEF CacheInv
<1>6. CASE ~Assumed(p) /\ ~Cached(p)
  <2>1. nodes' = addPod(nodes, p, n) /\ podStates' = [podStates EXCEPT ![p] = q]
    BY <1>6 DEF AddPod, q
  <2>2. podStates[p].node = NoNode
    BY <1>6 DEF Cached
  <2> QED BY <1>1, <2>1, <2>2, PutPod DEF CacheInv
<1>7. CASE ~Assumed(p) /\ Cached(p)
  BY <1>7 DEF AddPod, CacheInv
<1> QED BY <1>4, <1>5, <1>6, <1>7

\* UpdatePod takes the pod out and puts it back.
LEMMA UpdatePodCache ==
  ASSUME CacheInv, NEW p \in Pods, NEW n \in Nodes, UpdatePod(p, n), snapshot' = snapshot
  PROVE  CacheInv'
<1>1. CASE Cached(p) /\ ~Assumed(p) /\ Removable(nodes, p, n)
  <2> DEFINE c == removePod(nodes, p, n)
  <2>1. Sound(nodes) /\ Counts(nodes, podStates) /\ Fresh(nodes, snapshot)
    BY DEF CacheInv, CacheOK
  <2>2. Sound(c) /\ Fresh(c, snapshot)
        /\ \A m \in Nodes : c.info[m].pods = nodes.info[m].pods \ (IF m = n THEN {p} ELSE {})
    BY <2>1, removePodFacts
  <2>3. nodes' = addPod(c, p, n) /\ podStates' = podStates
    BY <1>1 DEF UpdatePod
  <2> HIDE DEF c
  <2>4. Sound(nodes') /\ Fresh(nodes', snapshot)
        /\ \A m \in Nodes : nodes'.info[m].pods = c.info[m].pods \cup (IF m = n THEN {p} ELSE {})
    BY <2>2, <2>3, addPodFacts
  <2>5. p \in nodes.info[n].pods
    BY <1>1 DEF Removable
  <2>6. \A m \in Nodes : nodes'.info[m].pods = nodes.info[m].pods
    <3> TAKE m \in Nodes
    <3>1. /\ c.info[m].pods = nodes.info[m].pods \ (IF m = n THEN {p} ELSE {})
          /\ nodes'.info[m].pods = c.info[m].pods \cup (IF m = n THEN {p} ELSE {})
      BY <2>2, <2>4
    <3>2. CASE m = n
      BY <2>5, <3>1, <3>2
    <3>3. CASE m # n
      BY <3>1, <3>3
    <3> QED BY <3>2, <3>3
  <2>7. Counts(nodes', podStates)
    BY <2>1, <2>6 DEF Counts
  <2> QED BY <2>3, <2>4, <2>7 DEF CacheInv, CacheOK
<1>2. CASE ~(Cached(p) /\ ~Assumed(p) /\ Removable(nodes, p, n))
  BY <1>2 DEF UpdatePod, CacheInv
<1> QED BY <1>1, <1>2

\* A confirmed pod goes.
LEMMA RemovePodCache ==
  ASSUME CacheInv, NEW p \in Pods, RemovePod(p), snapshot' = snapshot
  PROVE  CacheInv'
<1> DEFINE n == podStates[p].node
<1>1. CASE Cached(p) /\ ~Assumed(p) /\ Removable(nodes, p, n)
  <2>1. podStates[p].node \in Nodes
    BY <1>1 DEF CacheInv, CacheOK, PodState, Cached
  <2> QED BY <1>1, <2>1, DropPod DEF RemovePod, CacheInv
<1>2. CASE ~(Cached(p) /\ ~Assumed(p) /\ Removable(nodes, p, n))
  BY <1>2 DEF RemovePod, CacheInv
<1> QED BY <1>1, <1>2

\* FinishBinding moves nothing.
LEMMA FinishedCache ==
  ASSUME CacheInv, NEW p \in Pods
  PROVE  CacheOK(nodes, Finished(podStates, p), snapshot)
<1>1. CASE podStates[p].assumed
  <2> DEFINE q == [podStates[p] EXCEPT !.finished = TRUE]
  <2>1. podStates[p] \in PodState /\ podStates[p].node \in Nodes
    BY <1>1 DEF CacheInv, CacheOK, PodState
  <2>2. q \in PodState /\ q.node = podStates[p].node
    BY <2>1 DEF PodState
  <2>3. Finished(podStates, p) = [podStates EXCEPT ![p] = q]
    BY <1>1 DEF Finished
  <2> HIDE DEF q
  <2>4. CacheOK(nodes, [podStates EXCEPT ![p] = q], snapshot)
    BY <2>1, <2>2, KeepPod DEF CacheInv
  <2> QED BY <2>3, <2>4
<1>2. CASE ~podStates[p].assumed
  BY <1>2 DEF Finished, CacheInv
<1> QED BY <1>1, <1>2

\* ForgetPod undoes an assumption.
LEMMA ForgetCache ==
  ASSUME CacheInv, NEW p \in Pods, NEW n, FinishAndForget(p, n), snapshot' = snapshot
  PROVE  CacheInv'
<1>1. CacheOK(nodes, Finished(podStates, p), snapshot)
  BY FinishedCache
<1> DEFINE ps == Finished(podStates, p)
<1> HIDE DEF ps
<1>2. CASE ps[p].assumed /\ ps[p].node = n /\ Removable(nodes, p, n)
  <2>1. nodes' = removePod(nodes, p, ps[p].node) /\ podStates' = [ps EXCEPT ![p] = NoState]
    BY <1>2 DEF FinishAndForget, ps
  <2>2. CacheOK(nodes, ps, snapshot)
    BY <1>1 DEF ps
  <2>3. ps[p].node \in Nodes
    BY <1>2, <2>2 DEF CacheOK, PodState
  <2> QED BY <2>1, <2>2, <2>3, DropPod DEF CacheInv
<1>3. CASE ~(ps[p].assumed /\ ps[p].node = n /\ Removable(nodes, p, n))
  BY <1>1, <1>3 DEF FinishAndForget, CacheInv, ps
<1> QED BY <1>2, <1>3

\* A node object is added, replaced or removed.
LEMMA NodeCache ==
  ASSUME CacheInv, NEW n \in Nodes, AddNode(n) \/ RemoveNode(n),
         UNCHANGED <<podStates, snapshot>>
  PROVE  CacheInv'
<1>1. Sound(nodes) /\ nodes.info[n] \in NodeInfo
  BY DEF CacheInv, CacheOK, Sound
<1>2. CASE AddNode(n)
  <2> DEFINE i == [nodes.info[n] EXCEPT !.node = TRUE]
  <2>1. i \in NodeInfo /\ i.pods = nodes.info[n].pods /\ i.node
    BY <1>1 DEF NodeInfo
  <2>2. nodes' = Touched(nodes, n, i)
    BY <1>2 DEF AddNode
  <2> HIDE DEF i
  <2>3. Changed(nodes, nodes', n, i)
    BY <1>1, <2>1, <2>2, TouchedFacts
  <2> QED BY <2>1, <2>3, NodeChange DEF CacheInv
<1>3. CASE RemoveNode(n) /\ n \in Listed(nodes)
  <2> DEFINE i == [nodes.info[n] EXCEPT !.node = FALSE]
  <2>1. i \in NodeInfo /\ i.pods = nodes.info[n].pods
    BY <1>1 DEF NodeInfo
  <2>2. nodes' = Kept(nodes, n, i)
    BY <1>3 DEF RemoveNode
  <2> HIDE DEF i
  <2>3. Changed(nodes, nodes', n, i)
    BY <1>1, <2>1, <2>2, KeptFacts
  <2> QED BY <2>1, <2>3, NodeChange DEF CacheInv
<1>4. CASE RemoveNode(n) /\ n \notin Listed(nodes)
  BY <1>4 DEF RemoveNode, CacheInv
<1> QED BY <1>2, <1>3, <1>4

\* What the handler of assigned pods is told of a bound pod names a node.
LEMMA HandleCacheEventCache ==
  ASSUME CacheInv, Placed, IInv, NEW p \in Pods, HandleCacheEvent(p)
  PROVE  CacheInv'
<1> DEFINE new == Assigned(api[p])
<1>1. new # NoPod => new.node \in Nodes
  BY DEF Assigned, Placed
<1>2. /\ \/ new # NoPod /\ AddPod(p, new.node)
         \/ new # NoPod /\ UpdatePod(p, new.node)
         \/ RemovePod(p)
      /\ snapshot' = snapshot
  BY DEF HandleCacheEvent
<1> HIDE DEF new
<1> QED BY <1>1, <1>2, AddPodCache, UpdatePodCache, RemovePodCache

\* Every step keeps the cache's books in order.
LEMMA NextCache ==
  ASSUME IInv, Placed, CacheInv, [Next]_vars PROVE CacheInv'
<1>1. ASSUME NEW p \in Pods, HandleCacheEvent(p) PROVE CacheInv'
  BY <1>1, HandleCacheEventCache
<1>2. ASSUME NEW p \in Pods, Expire(p) PROVE CacheInv'
  BY <1>2, ExpireCache
<1>3. ASSUME NEW p \in Pods, Schedule(p) PROVE CacheInv'
  BY <1>3, SnapshotFacts DEF Schedule, CacheInv
<1>4. ASSUME NEW p \in Pods, Assume(p) PROVE CacheInv'
  <2>1. CASE CanAssume(p) /\ AssumePod(p, sched.node) /\ snapshot' = snapshot
    <3> DEFINE q == [node |-> sched.node, assumed |-> TRUE, finished |-> FALSE]
    <3>1. sched.node \in Nodes
      BY <1>4 DEF Assume, IInv, Types, SchedOK
    <3>2. q \in PodState /\ q.node = sched.node
      BY <3>1 DEF PodState
    <3>3. nodes' = addPod(nodes, p, sched.node) /\ podStates' = [podStates EXCEPT ![p] = q]
      BY <2>1 DEF AssumePod
    <3>4. podStates[p].node = NoNode
      BY <2>1 DEF CanAssume, Cached
    <3> HIDE DEF q
    <3> QED BY <2>1, <3>1, <3>2, <3>3, <3>4, PutPod DEF CacheInv
  <2>2. CASE UNCHANGED <<podStates, nodes, snapshot>>
    BY <2>2 DEF CacheInv
  <2> QED BY <1>4, <2>1, <2>2 DEF Assume
<1>5. ASSUME NEW b \in bindings, BindReturns(b) PROVE CacheInv'
  <2>1. b.pod \in Pods
    BY DEF IInv, Types, Binding
  <2>2. CASE podStates' = Finished(podStates, b.pod) /\ UNCHANGED <<nodes, snapshot>>
    BY <2>1, <2>2, FinishedCache DEF CacheInv
  <2>3. CASE FinishAndForget(b.pod, b.node) /\ snapshot' = snapshot
    BY <2>1, <2>3, ForgetCache
  <2> QED BY <1>5, <2>2, <2>3 DEF BindReturns
<1>6. ASSUME NEW n \in Nodes, AddNodeToCache(n) \/ UpdateNodeInCache(n) \/ DeleteNodeFromCache(n)
      PROVE  CacheInv'
  BY <1>6, NodeCache DEF AddNodeToCache, UpdateNodeInCache, DeleteNodeFromCache, nodeHandler
<1>7. ASSUME Restart PROVE CacheInv'
  <2>1. {n \in Nodes : nodes.info[n].node} \in SUBSET Nodes
    OBVIOUS
  <2> QED BY <1>7, <2>1, EmptyCache DEF Restart, CacheInv
<1>8. CASE UNCHANGED cacheVars
  BY <1>8 DEF cacheVars, CacheInv
<1>9. ASSUME NEW p \in Pods, EditPod(p) \/ DeletePod(p) \/ PodEnds(p) \/ HandleQueueEvent(p) \/ NextPod(p)
      PROVE  UNCHANGED cacheVars
  BY <1>9 DEF EditPod, DeletePod, PodEnds, HandleQueueEvent, NextPod, local
<1>10. ASSUME NEW S \in SUBSET Pods, FlushBackoff(S) \/ FlushUnschedulable(S) PROVE UNCHANGED cacheVars
  BY <1>10 DEF FlushBackoff, FlushUnschedulable
<1>11. ASSUME NEW b \in bindings, Bind(b) \/ BindArrivesLate(b) PROVE UNCHANGED cacheVars
  BY <1>11 DEF Bind, BindArrivesLate
<1>12. ASSUME NEW r \in retries, RetryGet(r) \/ RetryAdd(r) PROVE UNCHANGED cacheVars
  BY <1>12 DEF RetryGet, RetryAdd
<1>13. CASE UNCHANGED vars
  BY <1>8, <1>13 DEF vars
<1> QED BY <1>1, <1>2, <1>3, <1>4, <1>5, <1>6, <1>7, <1>8, <1>9, <1>10, <1>11, <1>12, <1>13 DEF Next

-----------------------------------------------------------------------------
(* Room on the nodes. *)

\* While a pod is unassigned, its binding keeps its assumption: it cannot expire.
Reserved == \A b \in bindings : b.pc # "orphan" /\ api[b.pod].phase = "pending"
              => podStates[b.pod] = [node |-> b.node, assumed |-> TRUE, finished |-> FALSE]

\* Nobody binds a pod twice at a time.
Single == \A b, c \in bindings :
            b.pod = c.pod /\ b.pc # "orphan" /\ c.pc # "orphan" /\ api[b.pod].phase = "pending"
            => b = c

CountedOn(ps, n) == {p \in Pods : ps[p].node = n}

\* The cache accounts for every bound pod: it counts where it is bound, an assumption of
\* it has not been confirmed yet, and no binding of it can fail any more.
Accounted ==
    /\ \A b \in bindings : b.pc # "orphan" /\ (api[b.pod].phase = "bound" => b.pc = "done")
    /\ \A p \in Pods : api[p].phase = "bound" =>
         podStates[p].node = api[p].node /\ (Assumed(p) => toldCache[p] = NoPod)

\* What counts on a node fits, with the pod that is about to be assumed.
Roomy == /\ \A n \in Nodes : Cardinality(CountedOn(podStates, n)) <= Capacity
         /\ sched.pc = "assume" => Cardinality(CountedOn(podStates, sched.node)) < Capacity

NInv == Placed /\ Reserved /\ Single /\ (sure => Accounted /\ Roomy)

\* Cardinalities of sets of pods.
LEMMA PodsFinite ==
  \A S \in SUBSET Pods : IsFiniteSet(S) /\ Cardinality(S) \in Nat
  BY SchedulerAssumption, FS_Subset, FS_CardinalityType

\* Pods that leave, or stay, need no more room.
LEMMA FewerCounted ==
  ASSUME NEW ps, NEW qs, \A q \in Pods : qs[q].node \in {ps[q].node, NoNode}, NEW n \in Nodes
  PROVE  /\ Cardinality(CountedOn(ps, n)) \in Nat /\ Cardinality(CountedOn(qs, n)) \in Nat
         /\ Cardinality(CountedOn(qs, n)) <= Cardinality(CountedOn(ps, n))
<1>1. CountedOn(qs, n) \in SUBSET CountedOn(ps, n) /\ CountedOn(ps, n) \in SUBSET Pods
  BY NoNodeAssumption DEF CountedOn
<1>2. CountedOn(qs, n) \in SUBSET Pods
  BY DEF CountedOn
<1>3. IsFiniteSet(CountedOn(ps, n))
  BY <1>1, PodsFinite
<1> QED BY <1>1, <1>2, <1>3, PodsFinite, FS_Subset

\* A step that assumes no pod keeps the room.
LEMMA StillRoomy ==
  ASSUME Roomy, SchedOK, \A q \in Pods : podStates'[q].node \in {podStates[q].node, NoNode},
         sched'.pc = "assume" => sched.pc = "assume" /\ sched'.node = sched.node
  PROVE  Roomy'
<1>1. Capacity \in Nat
  BY SchedulerAssumption
<1>2. \A n \in Nodes : /\ Cardinality(CountedOn(podStates, n)) \in Nat
                       /\ Cardinality(CountedOn(podStates', n)) \in Nat
                       /\ Cardinality(CountedOn(podStates', n)) <= Cardinality(CountedOn(podStates, n))
  BY FewerCounted
<1>3. \A n \in Nodes : Cardinality(CountedOn(podStates', n)) <= Capacity
  BY <1>1, <1>2 DEF Roomy
<1>4. ASSUME sched'.pc = "assume" PROVE Cardinality(CountedOn(podStates', sched'.node)) < Capacity
  BY <1>1, <1>2, <1>4 DEF Roomy, SchedOK
<1> QED BY <1>3, <1>4 DEF Roomy

\* Steps that leave the cache's pods and the bindings alone; pods may end.
LEMMA QuietStep ==
  ASSUME IInv, NInv, 
         \A q \in Pods : \/ api'[q].phase = api[q].phase /\ api'[q].node = api[q].node
                         \/ api'[q].phase = "none" /\ api'[q].node = NoNode,
         UNCHANGED <<podStates, bindings, toldCache, sure>>,
         sched'.pc = "assume" => sched.pc = "assume" /\ sched'.node = sched.node
  PROVE  NInv'
<1>1. Placed'
  BY NoNodeAssumption DEF NInv, Placed
<1>2. bindings \subseteq Binding /\ SchedOK
  BY DEF IInv, Types
<1>3. Reserved' /\ Single'
  BY <1>2 DEF NInv, Reserved, Single, Binding
<1>4. ASSUME sure' PROVE Accounted'
  BY <1>2, <1>4 DEF NInv, Accounted, Binding, Assumed
<1>5. ASSUME sure' PROVE Roomy'
  BY <1>2, <1>5, StillRoomy DEF NInv
<1> QED BY <1>1, <1>3, <1>4, <1>5 DEF NInv

\* Users and the kubelet take no room.
LEMMA UserRoom == ASSUME IInv, NInv, NEW p \in Pods, EditPod(p) \/ DeletePod(p) \/ PodEnds(p) PROVE NInv'
<1>1. api \in [Pods -> PodObject] /\ api[p] \in PodObject
  BY DEF IInv, Types
<1>2. NoPod.phase = "none" /\ NoPod.node = NoNode
  BY DEF NoPod
<1>3. \A q \in Pods : \/ api'[q].phase = api[q].phase /\ api'[q].node = api[q].node
                      \/ api'[q].phase = "none" /\ api'[q].node = NoNode
  <2>1. CASE EditPod(p)
    <3> DEFINE o == [api[p] EXCEPT !.rev = ~@]
    <3>1. o.phase = api[p].phase /\ o.node = api[p].node
      BY <1>1, Zenon DEF PodObject
    <3>2. api' = [api EXCEPT ![p] = o]
      BY <2>1 DEF EditPod
    <3> HIDE DEF o
    <3> QED BY <1>1, <3>1, <3>2
  <2>2. CASE DeletePod(p)
    <3>1. PICK o \in {NoPod, [api[p] EXCEPT !.dying = TRUE]} : api' = [api EXCEPT ![p] = o]
      BY <2>2 DEF DeletePod
    <3>2. \/ o.phase = api[p].phase /\ o.node = api[p].node
          \/ o.phase = "none" /\ o.node = NoNode
      BY <1>1, <1>2, <3>1 DEF PodObject
    <3> QED BY <1>1, <3>1, <3>2
  <2>3. CASE PodEnds(p)
    BY <1>1, <1>2, <2>3 DEF PodEnds
  <2> QED BY <2>1, <2>2, <2>3
<1>4. UNCHANGED <<podStates, bindings, toldCache, sure, sched>>
  BY DEF EditPod, DeletePod, PodEnds, local, cacheVars
<1> QED BY <1>3, <1>4, QuietStep

\* recordSchedulingFailure sets a condition only.
LEMMA FailureApi ==
  ASSUME IInv, NEW p \in Pods, NEW overtaken, recordSchedulingFailure(p, overtaken)
  PROVE  \A q \in Pods : api'[q].phase = api[q].phase /\ api'[q].node = api[q].node
<1>1. api \in [Pods -> PodObject] /\ api[p] \in PodObject
  BY DEF IInv, Types
<1>2. CASE api' = api
  BY <1>2
<1>3. CASE api' = [api EXCEPT ![p].cond = TRUE]
  BY <1>1, <1>3 DEF PodObject
<1> QED BY <1>2, <1>3 DEF recordSchedulingFailure

\* The queue, the node handlers and the timers take none either.
LEMMA QueueRoom ==
  ASSUME IInv, NInv,
         \/ \E p \in Pods : HandleQueueEvent(p) \/ NextPod(p)
         \/ \E n \in Nodes : AddNodeToCache(n) \/ UpdateNodeInCache(n) \/ DeleteNodeFromCache(n)
         \/ \E S \in SUBSET Pods : FlushBackoff(S) \/ FlushUnschedulable(S)
         \/ \E r \in retries : RetryGet(r) \/ RetryAdd(r)
         \/ UNCHANGED vars
  PROVE  NInv'
<1>1. UNCHANGED <<podStates, bindings, toldCache, sure, api>>
  BY DEF HandleQueueEvent, NextPod, AddNodeToCache, UpdateNodeInCache, DeleteNodeFromCache,
         FlushBackoff, FlushUnschedulable, RetryGet, RetryAdd, vars, cacheVars, world, nodeHandler, timers
<1>2. Overtaken => (sched'.pc = sched.pc /\ sched'.node = sched.node)
  BY DEF Overtaken, IInv, Types, SchedOK
<1>3. sched'.pc = "assume" => sched.pc = "assume" /\ sched'.node = sched.node
  <2>1. ASSUME NEW p \in Pods, NextPod(p) PROVE sched' = sched \/ sched'.pc = "schedule"
    BY <2>1 DEF NextPod
  <2> QED BY <1>2, <2>1 DEF HandleQueueEvent, AddNodeToCache, UpdateNodeInCache, DeleteNodeFromCache,
         FlushBackoff, FlushUnschedulable, RetryGet, RetryAdd, vars, nodeHandler, timers
<1> QED BY <1>1, <1>3, QuietStep


\* An assumption that expires while all is accounted for is of a pod that is not bound.
LEMMA ExpireRoom == ASSUME IInv, CacheInv, NInv, NEW p \in Pods, Expire(p) PROVE NInv'
<1>1. /\ podStates[p].assumed /\ podStates[p].finished
      /\ podStates' = [podStates EXCEPT ![p] = NoState]
      /\ UNCHANGED <<bindings, toldCache, api, sched>>
      /\ sure' => sure /\ ~Confirmable(p)
  BY DEF Expire, ExpirePod, Assumed, world
<1>2. /\ podStates \in [Pods -> PodState] /\ bindings \subseteq Binding /\ SchedOK
      /\ NoState.node = NoNode
  BY DEF IInv, Types, NoState
<1>3. \A q \in Pods : podStates'[q] = IF q = p THEN NoState ELSE podStates[q]
  BY <1>1, <1>2
<1>4. Placed' /\ Single'
  BY <1>1 DEF NInv, Placed, Single
<1>5. Reserved'
  <2> SUFFICES ASSUME NEW b \in bindings, b.pc # "orphan", api[b.pod].phase = "pending"
               PROVE  podStates'[b.pod] = [node |-> b.node, assumed |-> TRUE, finished |-> FALSE]
    BY <1>1 DEF Reserved
  <2>1. podStates[b.pod] = [node |-> b.node, assumed |-> TRUE, finished |-> FALSE] /\ b.pod \in Pods
    BY <1>2 DEF NInv, Reserved, Binding
  <2> QED BY <1>1, <1>3, <2>1
<1>6. ASSUME sure' PROVE Accounted'
  <2>1. sure /\ ~Confirmable(p) /\ Accounted
    BY <1>1, <1>6 DEF NInv
  <2>2. api[p].phase # "bound"
    BY <1>1, <2>1 DEF Accounted, Confirmable, Assumed
  <2> QED BY <1>1, <1>3, <2>1, <2>2 DEF Accounted, Assumed
<1>7. ASSUME sure' PROVE Roomy'
  BY <1>1, <1>2, <1>3, <1>7, StillRoomy DEF NInv
<1> QED BY <1>4, <1>5, <1>6, <1>7 DEF NInv

\* The cache after an event about p: p is confirmed where it is bound, or gone if it ended.
LEMMA HandleCacheEventRoom ==
  ASSUME IInv, CacheInv, NInv, NEW p \in Pods, HandleCacheEvent(p)
  PROVE  NInv'
<1> DEFINE new == Assigned(api[p])
<1>1. /\ toldCache' = [toldCache EXCEPT ![p] = new] /\ Overtaken
      /\ UNCHANGED <<bindings, api, sure>> /\ toldCache[p] # new
      /\ \/ toldCache[p] = NoPod /\ AddPod(p, new.node)
         \/ toldCache[p] # NoPod /\ new # NoPod /\ UpdatePod(p, new.node)
         \/ new = NoPod /\ RemovePod(p)
  BY DEF HandleCacheEvent
<1>2. /\ new # NoPod <=> api[p].phase = "bound"
      /\ new # NoPod => new = api[p] /\ new.node \in Nodes
  BY DEF Assigned, NoPod, NInv, Placed
<1> HIDE DEF new
<1>3. /\ podStates \in [Pods -> PodState] /\ bindings \subseteq Binding /\ SchedOK
      /\ toldCache \in [Pods -> PodObject]
      /\ sched'.pc = sched.pc /\ sched'.node = sched.node
  BY <1>1 DEF IInv, Types, SchedOK, Overtaken
<1>4. Placed' /\ Single'
  BY <1>1 DEF NInv, Placed, Single
<1>5. /\ \A q \in Pods \ {p} : podStates'[q] = podStates[q]
      /\ api[p].phase = "pending" /\ podStates[p].assumed => podStates'[p] = podStates[p]
  BY <1>1, <1>2, <1>3 DEF AddPod, UpdatePod, RemovePod, Assumed
<1>6. Reserved'
  <2> SUFFICES ASSUME NEW b \in bindings, b.pc # "orphan", api[b.pod].phase = "pending"
               PROVE  podStates'[b.pod] = [node |-> b.node, assumed |-> TRUE, finished |-> FALSE]
    BY <1>1 DEF Reserved
  <2>1. podStates[b.pod] = [node |-> b.node, assumed |-> TRUE, finished |-> FALSE] /\ b.pod \in Pods
    BY <1>3 DEF NInv, Reserved, Binding
  <2> QED BY <1>5, <2>1
<1>7. ASSUME sure'
      PROVE  /\ podStates'[p].node \in {podStates[p].node, NoNode}
             /\ api[p].phase = "bound" => podStates'[p].node = api[p].node /\ ~podStates'[p].assumed
  <2>0. Accounted
    BY <1>1, <1>7 DEF NInv
  <2>1. CASE toldCache[p] = NoPod /\ AddPod(p, new.node)
    <3>1. new # NoPod /\ podStates[p].node = new.node /\ new.node # NoNode
      BY <1>1, <1>2, <2>0, <2>1, NoNodeAssumption DEF Accounted
    <3>2. /\ [NoState EXCEPT !.node = new.node].node = new.node
          /\ ~[NoState EXCEPT !.node = new.node].assumed
      BY DEF NoState
    <3> QED BY <1>2, <1>3, <2>1, <3>1, <3>2 DEF AddPod, Assumed, Cached
  <2>2. CASE toldCache[p] # NoPod /\ new # NoPod /\ UpdatePod(p, new.node)
    <3>1. podStates' = podStates /\ podStates[p].node = api[p].node /\ ~podStates[p].assumed
      BY <1>2, <2>0, <2>2 DEF Accounted, UpdatePod, Assumed
    <3> QED BY <3>1
  <2>3. CASE new = NoPod /\ RemovePod(p)
    <3>1. NoState.node = NoNode
      BY DEF NoState
    <3> QED BY <1>2, <1>3, <2>3, <3>1 DEF RemovePod
  <2> QED BY <1>1, <2>1, <2>2, <2>3
<1>8. ASSUME sure' PROVE Accounted'
  <2>0. Accounted
    BY <1>1, <1>8 DEF NInv
  <2>1. \A b \in bindings' : b.pc # "orphan" /\ (api'[b.pod].phase = "bound" => b.pc = "done")
    BY <1>1, <2>0 DEF Accounted
  <2>2. \A q \in Pods : api'[q].phase = "bound" =>
          podStates'[q].node = api'[q].node /\ (podStates'[q].assumed => toldCache'[q] = NoPod)
    BY <1>1, <1>3, <1>5, <1>7, <1>8, <2>0 DEF Accounted, Assumed
  <2> QED BY <2>1, <2>2 DEF Accounted, Assumed
<1>9. ASSUME sure' PROVE Roomy'
  BY <1>1, <1>3, <1>5, <1>7, <1>9, StillRoomy DEF NInv
<1> QED BY <1>4, <1>6, <1>8, <1>9 DEF NInv

\* The room that Schedule finds in the snapshot is there.
LEMMA ScheduleRoom == ASSUME IInv, CacheInv, NInv, NEW p \in Pods, Schedule(p) PROVE NInv'
<1>1. /\ UNCHANGED <<podStates, toldCache, bindings, sure>> /\ UpdateNodeInfoSnapshot
  BY DEF Schedule, informed
<1>2. CASE recordSchedulingFailure(p, sched.overtaken) /\ sched' = Idle
  BY <1>1, <1>2, FailureApi, QuietStep DEF Idle
<1>3. ASSUME NEW n \in Nodes, nodes.info[n].node, Cardinality(snapshot'[n].pods) < Capacity,
             sched' = [sched EXCEPT !.pc = "assume", !.node = n], api' = api
      PROVE  NInv'
  <2>1. sched'.pc = "assume" /\ sched'.node = n /\ SchedOK /\ sched.pc = "schedule"
    BY <1>3 DEF IInv, Types, SchedOK, Schedule
  <2>2. snapshot'[n].pods = CountedOn(podStates, n)
    <3>1. snapshot'[n].pods = nodes'.info[n].pods
      <4>1. Exact(nodes', snapshot') /\ nodes'.info = nodes.info
        BY <1>1, SnapshotFacts
      <4>2. snapshot'[n] = [in |-> TRUE, pods |-> nodes'.info[n].pods]
        BY <1>3, <4>1 DEF Exact
      <4> QED BY <4>2
    <3>2. nodes'.info[n].pods = {q \in Pods : podStates[q].node = n}
      BY <1>1, SnapshotFacts DEF CacheOK, Counts
    <3> QED BY <3>1, <3>2 DEF CountedOn
  <2>3. Placed' /\ Reserved' /\ Single'
    BY <1>1, <1>3 DEF NInv, Placed, Reserved, Single
  <2>4. ASSUME sure' PROVE Accounted' /\ Roomy'
    <3>1. Accounted /\ Roomy
      BY <1>1, <2>4 DEF NInv
    <3>2. Accounted'
      BY <1>1, <1>3, <3>1 DEF Accounted, Assumed
    <3>3. Roomy'
      BY <1>1, <1>3, <2>1, <2>2, <3>1 DEF Roomy
    <3> QED BY <3>2, <3>3
  <2> QED BY <2>3, <2>4 DEF NInv
<1> QED BY <1>2, <1>3 DEF Schedule

\* A pod is assumed where there is room; while it is pending nobody else binds it.
LEMMA AssumeRoom == ASSUME IInv, CacheInv, NInv, NEW p \in Pods, Assume(p) PROVE NInv'
<1>1. /\ sched' = Idle /\ sched.pc = "assume" /\ UNCHANGED <<toldCache, sure>>
      /\ sched.node \in Nodes /\ podStates \in [Pods -> PodState] /\ bindings \subseteq Binding
  BY DEF Assume, informed, IInv, Types, SchedOK
<1>2. CASE recordSchedulingFailure(p, sched.overtaken) /\ UNCHANGED <<podStates, bindings>>
  BY <1>1, <1>2, FailureApi, QuietStep DEF Idle
<1>3. CASE /\ CanAssume(p) /\ AssumePod(p, sched.node)
           /\ bindings' = bindings \cup {[pod |-> p, node |-> sched.node, pc |-> "bind"]}
           /\ api' = api
  <2> DEFINE new == [pod |-> p, node |-> sched.node, pc |-> "bind"]
             q == [node |-> sched.node, assumed |-> TRUE, finished |-> FALSE]
  <2>1. podStates[p].node = NoNode
    BY <1>3 DEF CanAssume, Cached
  <2>2. /\ podStates' = [podStates EXCEPT ![p] = q] /\ q.node = sched.node
        /\ bindings' = bindings \cup {new} /\ new.pod = p /\ new.node = sched.node /\ new.pc = "bind"
    BY <1>3 DEF AssumePod
  <2>3. podStates'[p] = q /\ \A r \in Pods \ {p} : podStates'[r] = podStates[r]
    BY <1>1, <2>2
  <2>4. \A b \in bindings : b.pc # "orphan" /\ api[b.pod].phase = "pending" => b.pod # p
    <3> SUFFICES ASSUME NEW b \in bindings, b.pc # "orphan", api[b.pod].phase = "pending", b.pod = p
                 PROVE  FALSE
      OBVIOUS
    <3>1. podStates[p] = [node |-> b.node, assumed |-> TRUE, finished |-> FALSE] /\ b.node \in Nodes
      BY <1>1 DEF NInv, Reserved, Binding
    <3> QED BY <2>1, <3>1, NoNodeAssumption
  <2>5. Placed'
    BY <1>3 DEF NInv, Placed
  <2>6. Reserved'
    <3> SUFFICES ASSUME NEW b \in bindings', b.pc # "orphan", api[b.pod].phase = "pending"
                 PROVE  podStates'[b.pod] = [node |-> b.node, assumed |-> TRUE, finished |-> FALSE]
      BY <1>3 DEF Reserved
    <3>1. CASE b = new
      BY <2>2, <2>3, <3>1
    <3>2. CASE b \in bindings
      BY <1>1, <2>3, <2>4, <3>2 DEF NInv, Reserved, Binding
    <3> QED BY <2>2, <3>1, <3>2
  <2> HIDE DEF new, q
  <2>7. Single'
    BY <1>3, <2>2, <2>4 DEF NInv, Single
  <2>8. ASSUME sure' PROVE Accounted' /\ Roomy'
    <3>1. Accounted /\ Roomy
      BY <1>1, <2>8 DEF NInv
    <3>2. api[p].phase # "bound"
      BY <2>1, <3>1, NoNodeAssumption DEF Accounted, NInv, Placed
    <3>3. Accounted'
      BY <1>1, <1>3, <2>2, <2>3, <3>1, <3>2 DEF Accounted, Assumed
    <3>4. CountedOn(podStates', sched.node) = CountedOn(podStates, sched.node) \cup {p}
      BY <2>2, <2>3 DEF CountedOn
    <3>5. \A n \in Nodes \ {sched.node} : CountedOn(podStates', n) = CountedOn(podStates, n)
      BY <2>1, <2>2, <2>3, NoNodeAssumption DEF CountedOn
    <3>6. /\ Cardinality(CountedOn(podStates, sched.node)) \in Nat
          /\ Cardinality(CountedOn(podStates', sched.node)) <= Cardinality(CountedOn(podStates, sched.node)) + 1
      <4>1. CountedOn(podStates, sched.node) \in SUBSET Pods
        BY DEF CountedOn
      <4>2. /\ IsFiniteSet(CountedOn(podStates, sched.node))
            /\ Cardinality(CountedOn(podStates, sched.node)) \in Nat
        BY <4>1, PodsFinite
      <4> QED BY <3>4, <4>2, FS_AddElement
    <3>7. Cardinality(CountedOn(podStates', sched.node)) <= Capacity
      <4>1. Cardinality(CountedOn(podStates', sched.node)) \in Nat
        <5>1. CountedOn(podStates', sched.node) \in SUBSET Pods
          BY DEF CountedOn
        <5> QED BY <5>1, PodsFinite
      <4> QED BY <1>1, <3>1, <3>6, <4>1, SchedulerAssumption DEF Roomy
    <3>8. Roomy'
      BY <1>1, <3>1, <3>5, <3>7 DEF Roomy, Idle
    <3> QED BY <3>3, <3>8
  <2> QED BY <2>5, <2>6, <2>7, <2>8 DEF NInv
<1> QED BY <1>2, <1>3 DEF Assume

\* A binding that succeeds is of a pod that is assumed on its node.
LEMMA BindRoom ==
  ASSUME IInv, CacheInv, NInv, NEW b \in bindings, Bind(b) PROVE NInv'
<1>1. /\ UNCHANGED <<podStates, toldCache, sched>> /\ b.pc = "bind" /\ (sure' => sure)
      /\ bindings \subseteq Binding /\ b.pod \in Pods /\ b.node \in Nodes
      /\ api \in [Pods -> PodObject] /\ SchedOK
  BY DEF Bind, cacheVars, informed, IInv, Types, Binding
<1>2. PICK pc \in {"done", "failed"} :
          /\ bindings' = (bindings \ {b}) \cup {[b EXCEPT !.pc = pc]}
          /\ assignPod(b) \/ (pc = "failed" /\ api' = api)
          /\ sure' => pc = "done" \/ api' = api
          /\ pc = "done" => assignPod(b)
  BY DEF Bind
<1> DEFINE new == [b EXCEPT !.pc = pc]
<1>3. /\ new \in Binding /\ new.pod = b.pod /\ new.node = b.node /\ new.pc = pc
      /\ pc # "orphan"
  BY <1>1, <1>2 DEF Binding
<1>4. bindings' = (bindings \ {b}) \cup {new}
  BY <1>2
<1> HIDE DEF new
<1>5. \A q \in Pods : \/ api'[q] = api[q]
                      \/ /\ assignPod(b) /\ q = b.pod /\ api[q].phase = "pending"
                         /\ api'[q].phase = "bound" /\ api'[q].node = b.node
  <2>1. CASE assignPod(b)
    <3> DEFINE o == [NoPod EXCEPT !.phase = "bound", !.node = b.node]
    <3>1. o.phase = "bound" /\ o.node = b.node
      BY DEF NoPod
    <3>2. api' = [api EXCEPT ![b.pod] = o] /\ api[b.pod].phase = "pending"
      BY <2>1 DEF assignPod, Bindable
    <3> HIDE DEF o
    <3> QED BY <1>1, <2>1, <3>1, <3>2
  <2> QED BY <1>2, <2>1
<1>6. Placed'
  BY <1>1, <1>5 DEF NInv, Placed
<1>7. Reserved'
  <2> SUFFICES ASSUME NEW c \in bindings', c.pc # "orphan", api'[c.pod].phase = "pending"
               PROVE  podStates[c.pod] = [node |-> c.node, assumed |-> TRUE, finished |-> FALSE]
    BY <1>1 DEF Reserved
  <2>1. PICK d \in bindings : d.pod = c.pod /\ d.node = c.node /\ d.pc # "orphan"
    BY <1>1, <1>3, <1>4
  <2>2. api[d.pod].phase = "pending"
    BY <1>1, <1>5, <2>1 DEF Binding
  <2> QED BY <2>1, <2>2 DEF NInv, Reserved
<1>8. Single'
  <2> SUFFICES ASSUME NEW c \in bindings', NEW d \in bindings', c.pod = d.pod, c.pc # "orphan",
                      d.pc # "orphan", api'[c.pod].phase = "pending"
               PROVE  c = d
    BY DEF Single
  <2>1. c.pod \in Pods /\ api[c.pod].phase = "pending"
    BY <1>1, <1>3, <1>4, <1>5 DEF Binding
  <2> QED BY <1>1, <1>3, <1>4, <2>1 DEF NInv, Single
<1>9. ASSUME sure' PROVE Accounted'
  <2>1. Accounted
    BY <1>1, <1>9 DEF NInv
  <2>2. api[b.pod].phase # "bound"
    BY <1>1, <2>1 DEF Accounted
  <2>3. assignPod(b) => pc = "done"
    <3>1. ASSUME assignPod(b), api' = api PROVE FALSE
      <4>1. /\ api[b.pod].phase = "pending"
            /\ api' = [api EXCEPT ![b.pod] = [NoPod EXCEPT !.phase = "bound", !.node = b.node]]
        BY <3>1 DEF assignPod, Bindable
      <4>2. api'[b.pod].phase = "bound"
        BY <1>1, <4>1 DEF NoPod
      <4> QED BY <3>1, <4>1, <4>2
    <3> QED BY <1>2, <1>9, <3>1
  <2>4. ASSUME NEW c \in bindings' PROVE c.pc # "orphan" /\ (api'[c.pod].phase = "bound" => c.pc = "done")
    <3>1. CASE c = new
      <4>1. api'[b.pod].phase = "bound" => assignPod(b)
        BY <1>1, <1>5, <2>2
      <4> QED BY <1>3, <2>3, <3>1, <4>1
    <3>2. CASE c \in bindings \ {b}
      <4>1. c.pc # "orphan" /\ c.pod \in Pods
        BY <1>1, <2>1, <3>2 DEF Accounted, Binding
      <4>2. CASE api'[c.pod] = api[c.pod]
        BY <2>1, <3>2, <4>1, <4>2 DEF Accounted
      <4>3. CASE c.pod = b.pod /\ api[c.pod].phase = "pending"
        BY <1>1, <3>2, <4>1, <4>3 DEF NInv, Single
      <4> QED BY <1>5, <4>1, <4>2, <4>3
    <3> QED BY <1>4, <3>1, <3>2
  <2>5. ASSUME NEW q \in Pods, api'[q].phase = "bound"
        PROVE  podStates[q].node = api'[q].node /\ (podStates[q].assumed => toldCache[q] = NoPod)
    <3>1. CASE api'[q] = api[q]
      BY <2>1, <2>5, <3>1 DEF Accounted, Assumed
    <3>2. CASE q = b.pod /\ api[q].phase = "pending" /\ api'[q].node = b.node
      <4>1. podStates[q] = [node |-> b.node, assumed |-> TRUE, finished |-> FALSE]
        BY <1>1, <3>2 DEF NInv, Reserved
      <4>2. toldCache[q] = NoPod
        BY <3>2 DEF IInv, Told
      <4> QED BY <3>2, <4>1, <4>2
    <3> QED BY <1>5, <3>1, <3>2
  <2> QED BY <1>1, <2>4, <2>5 DEF Accounted, Assumed
<1>10. ASSUME sure' PROVE Roomy'
  BY <1>1, <1>10, StillRoomy DEF NInv
<1> QED BY <1>6, <1>7, <1>8, <1>9, <1>10 DEF NInv

\* Only after a restart.
LEMMA BindArrivesLateRoom ==
  ASSUME IInv, CacheInv, NInv, NEW b \in bindings, BindArrivesLate(b) PROVE NInv'
<1>1. /\ UNCHANGED <<podStates, toldCache, sched, sure>> /\ b.pc = "orphan"
      /\ bindings' = bindings \ {b} /\ bindings \subseteq Binding
      /\ b.pod \in Pods /\ b.node \in Nodes
  BY DEF BindArrivesLate, cacheVars, informed, IInv, Types, Binding
<1> DEFINE o == [NoPod EXCEPT !.phase = "bound", !.node = b.node]
<1>2. o.phase = "bound" /\ o.node = b.node
  BY DEF NoPod
<1>3. api' = [api EXCEPT ![b.pod] = o] /\ api \in [Pods -> PodObject]
  BY DEF BindArrivesLate, assignPod, IInv, Types
<1> HIDE DEF o
<1>4. \A q \in Pods : api'[q] = IF q = b.pod THEN o ELSE api[q]
  BY <1>3
<1>5. Placed' /\ Reserved' /\ Single'
  BY <1>1, <1>2, <1>4 DEF NInv, Placed, Reserved, Single, Binding
<1>6. ~sure
  BY <1>1 DEF NInv, Accounted
<1> QED BY <1>1, <1>5, <1>6 DEF NInv

\* When a binding returns, what it lets go is its own assumption.
LEMMA BindReturnsRoom ==
  ASSUME IInv, CacheInv, NInv, NEW b \in bindings, BindReturns(b) PROVE NInv'
<1>1. /\ UNCHANGED <<toldCache, sched, sure>> /\ bindings' = bindings \ {b}
      /\ bindings \subseteq Binding /\ b.pod \in Pods /\ SchedOK
      /\ podStates \in [Pods -> PodState]
  BY DEF BindReturns, informed, IInv, Types, Binding
<1>2. \A q \in Pods : api'[q].phase = api[q].phase /\ api'[q].node = api[q].node
  BY <1>1, FailureApi DEF BindReturns
<1>3. b.pc \in {"done", "failed"}
  BY DEF BindReturns
<1> DEFINE ps == Finished(podStates, b.pod)
<1>4. /\ ps \in [Pods -> PodState]
      /\ \A q \in Pods \ {b.pod} : ps[q] = podStates[q]
      /\ ps[b.pod].node = podStates[b.pod].node /\ ps[b.pod].assumed = podStates[b.pod].assumed
  <2>1. CASE podStates[b.pod].assumed
    <3> DEFINE q == [podStates[b.pod] EXCEPT !.finished = TRUE]
    <3>1. q \in PodState /\ q.node = podStates[b.pod].node /\ q.assumed = podStates[b.pod].assumed
      <4>1. podStates[b.pod] \in PodState
        BY <1>1
      <4> QED BY <4>1, Zenon DEF PodState
    <3>2. ps = [podStates EXCEPT ![b.pod] = q]
      BY <2>1 DEF Finished
    <3> HIDE DEF q, ps
    <3> QED BY <1>1, <3>1, <3>2
  <2>2. CASE ~podStates[b.pod].assumed
    BY <1>1, <2>2 DEF Finished
  <2> QED BY <2>1, <2>2
<1>5. /\ \A q \in Pods \ {b.pod} : podStates'[q] = podStates[q]
      /\ podStates'[b.pod].node \in {podStates[b.pod].node, NoNode}
      /\ b.pc = "done" => podStates' = ps
  <2>1. CASE b.pc = "done"
    BY <1>4, <2>1 DEF BindReturns
  <2>2. CASE b.pc = "failed"
    <3>1. podStates' = [ps EXCEPT ![b.pod] = NoState] \/ podStates' = ps
      BY <2>2 DEF BindReturns, FinishAndForget
    <3>2. NoState.node = NoNode
      BY DEF NoState
    <3> HIDE DEF ps
    <3> QED BY <1>1, <1>4, <2>2, <3>1, <3>2
  <2> QED BY <1>3, <2>1, <2>2
<1> HIDE DEF ps
<1>6. Placed' /\ Single'
  BY <1>1, <1>2 DEF NInv, Placed, Single, Binding
<1>7. Reserved'
  BY <1>1, <1>2, <1>3, <1>5 DEF NInv, Reserved, Single, Binding
<1>8. ASSUME sure' PROVE Accounted'
  <2>1. Accounted
    BY <1>1, <1>8 DEF NInv
  <2>2. api[b.pod].phase = "bound" => podStates' = ps
    BY <1>5, <2>1 DEF Accounted
  <2>3. \A c \in bindings' : c.pc # "orphan" /\ (api'[c.pod].phase = "bound" => c.pc = "done")
    BY <1>1, <1>2, <2>1 DEF Accounted, Binding
  <2>4. \A q \in Pods : api[q].phase = "bound" =>
          podStates'[q].node = podStates[q].node /\ podStates'[q].assumed = podStates[q].assumed
    BY <1>4, <1>5, <2>2
  <2> QED BY <1>1, <1>2, <2>1, <2>3, <2>4 DEF Accounted, Assumed
<1>9. ASSUME sure' PROVE Roomy'
  BY <1>1, <1>5, <1>9, StillRoomy DEF NInv
<1> QED BY <1>6, <1>7, <1>8, <1>9 DEF NInv

\* After a restart nothing is sure.
LEMMA RestartRoom == ASSUME IInv, NInv, Restart PROVE NInv'
<1>1. \A b \in bindings' : b.pc = "orphan"
  <2> TAKE b \in bindings'
  <2>1. PICK c \in bindings : b = [c EXCEPT !.pc = "orphan"]
    BY DEF Restart
  <2>2. c \in Binding
    BY DEF IInv, Types
  <2> QED BY <2>1, <2>2 DEF Binding
<1>2. api' = api /\ ~sure'
  BY DEF Restart
<1> QED BY <1>1, <1>2 DEF NInv, Placed, Reserved, Single

\* At the start nothing is bound.
LEMMA InitRoom == ASSUME Init PROVE NInv
<1>1. /\ \A p \in Pods : api[p].phase = "pending" /\ api[p].node = NoNode /\ podStates[p].node = NoNode
      /\ bindings = {} /\ sched.pc = "idle"
  BY DEF Init, NoPod, NoState, Idle
<1>2. \A n \in Nodes : CountedOn(podStates, n) = {}
  BY <1>1, NoNodeAssumption DEF CountedOn
<1>3. Roomy
  <2>1. \A n \in Nodes : Cardinality(CountedOn(podStates, n)) = 0
    BY <1>2, FS_EmptySet, Zenon
  <2>2. Capacity \in Nat
    BY SchedulerAssumption
  <2> QED BY <1>1, <2>1, <2>2 DEF Roomy
<1> QED BY <1>1, <1>3, NoNodeAssumption DEF NInv, Placed, Reserved, Single, Accounted

\* One lemma for each kind of step.
LEMMA NextRoom == ASSUME IInv, CacheInv, NInv, [Next]_vars PROVE NInv'
  BY UserRoom, QueueRoom, ExpireRoom, HandleCacheEventRoom, ScheduleRoom, AssumeRoom, BindRoom,
     BindArrivesLateRoom, BindReturnsRoom, RestartRoom DEF Next


\* The first list of nodes.
LEMMA InitCache == ASSUME Init PROVE CacheInv
<1>1. PICK S \in InitialNodes :
        nodes = [info |-> [n \in Nodes |-> [node |-> n \in S, pods |-> {}]],
                 list |-> SetToSeq(S), changed |-> S]
  BY DEF Init
<1>2. S \in SUBSET Nodes
  BY SchedulerAssumption
<1> QED BY <1>1, <1>2, EmptyCache DEF Init, CacheInv

\* The bound on disturbances, and the history.
Bounded == disturbances \in 0..MaxDisturbances /\ sure \in BOOLEAN

\* Steps that are not disturbances do not count.
LEMMA BoundedStep == ASSUME Bounded, [Next]_vars PROVE Bounded'
<1>1. \/ Disturbance \/ disturbances' = disturbances
  BY DEF Next, EditPod, DeletePod, PodEnds, Expire, HandleQueueEvent, HandleCacheEvent,
         NextPod, Schedule, Assume, AddNodeToCache, UpdateNodeInCache, DeleteNodeFromCache, Restart,
         FlushBackoff, FlushUnschedulable, Bind, BindReturns, BindArrivesLate, RetryGet, RetryAdd, timers, vars
<1>2. sure' = sure \/ sure' = FALSE
  BY DEF Next, EditPod, DeletePod, PodEnds, Expire, HandleQueueEvent, HandleCacheEvent,
         NextPod, Schedule, Assume, AddNodeToCache, UpdateNodeInCache, DeleteNodeFromCache, Restart,
         FlushBackoff, FlushUnschedulable, Bind, BindReturns, BindArrivesLate, RetryGet, RetryAdd, timers, vars,
         local, nodeHandler
<1>3. disturbances' \in 0..MaxDisturbances
  BY <1>1, SchedulerAssumption DEF Disturbance, Bounded
<1> QED BY <1>2, <1>3 DEF Bounded

FullInv == IInv /\ CacheInv /\ NInv /\ Bounded

-----------------------------------------------------------------------------
(* The theorems about the cache. *)

\* The queue, the cache and the room on the nodes, whatever users, nodes, failures and
\* restarts do.
THEOREM SchedulerFullInvariant == Spec => []FullInv
<1>1. Init => FullInv
  <2>1. Init => Bounded
    BY SchedulerAssumption DEF Bounded, Init
  <2> QED BY <2>1, InitIInv, InitCache, InitRoom DEF FullInv
<1>2. FullInv /\ [Next]_vars => FullInv'
  <2> SUFFICES ASSUME FullInv, [Next]_vars PROVE FullInv'
    OBVIOUS
  <2>1. IInv' /\ Bounded'
    BY NextIInv, BoundedStep DEF FullInv
  <2>2. CacheInv' /\ NInv'
    BY NextCache, NextRoom DEF FullInv, NInv
  <2> QED BY <2>1, <2>2 DEF FullInv
<1> QED BY <1>1, <1>2, PTL DEF Spec

\* Every variable keeps its type, and scheduleOne its one pod.
THEOREM SchedulerTypes == Spec => []TypeOK
<1>1. FullInv => TypeOK
  BY DEF FullInv, IInv, Types, SchedOK, Binding, CacheInv, CacheOK, Sound, NodeInfo, SnapshotEntry, Bounded,
         TypeOK, CacheTypeOK
<1> QED BY <1>1, SchedulerFullInvariant, PTL

\* Every pod counts on the node of its podState and on no other, and the list of nodes has
\* exactly those with an object or pods, once each, however assumptions are confirmed
\* elsewhere, forgotten or expire and nodes come and go (addPod, removePod, RemoveNode).
THEOREM PodsCountOnce == Spec => []CountedOnce
<1>1. CacheInv => CountedOnce
  <2> SUFFICES ASSUME CacheInv PROVE CountedOnce
    OBVIOUS
  <2>1. Sound(nodes) /\ Counts(nodes, podStates)
    BY DEF CacheInv, CacheOK
  <2>2. nodes.list \in Seq(Nodes) /\ Distinct(nodes.list)
    BY <2>1 DEF Sound
  <2>3. Cardinality(Listed(nodes)) = Len(nodes.list)
    BY <2>2, ListCardinality DEF Listed
  <2>4. Listed(nodes) \subseteq Nodes
    BY <2>2 DEF Listed, ToSet
  <2>5. Listed(nodes) = {n \in Nodes : nodes.info[n].node \/ nodes.info[n].pods # {}}
    BY <2>1, <2>4 DEF Sound
  <2> QED BY <2>1, <2>3, <2>5 DEF CountedOnce, Counts
<1> QED BY <1>1, SchedulerFullInvariant, PTL DEF FullInv

\* As long as the cache can account for every binding, no node is given more pods than fit:
\* an assumption holds the place from scheduleOne until the informer confirms it
\* (AssumePod, FinishBinding, AddPod).
THEOREM NodesNotOvercommitted == Spec => []NoOvercommit
<1>1. NInv => NoOvercommit
  <2> SUFFICES ASSUME NInv, sure, NEW n \in Nodes
               PROVE  Cardinality({p \in Pods : api[p].node = n}) <= Capacity
    BY DEF NoOvercommit
  <2> DEFINE S == {p \in Pods : api[p].node = n}
             T == CountedOn(podStates, n)
  <2>1. S \in SUBSET T /\ T \in SUBSET Pods /\ S \in SUBSET Pods
    BY DEF NInv, Placed, Accounted, CountedOn
  <2> HIDE DEF S, T
  <2>2. /\ Cardinality(S) \in Nat /\ Cardinality(T) \in Nat /\ IsFiniteSet(T)
    BY <2>1, PodsFinite
  <2>3. Cardinality(S) <= Cardinality(T)
    BY <2>1, <2>2, FS_Subset
  <2>4. Cardinality(T) <= Capacity /\ Capacity \in Nat
    BY SchedulerAssumption DEF NInv, Roomy, T
  <2> QED BY <2>2, <2>3, <2>4 DEF S
<1> QED BY <1>1, SchedulerFullInvariant, PTL DEF FullInv

\* Schedule is the only step of scheduleOne that leaves the state "schedule".
LEMMA SnapshotStep ==
  ASSUME FullInv, [Next]_vars, sched.pc = "schedule", sched'.pc # "schedule", UNCHANGED disturbances
  PROVE  Exact(nodes', snapshot')
<1>1. ~Overtaken
  BY DEF Overtaken, FullInv, IInv, Types, SchedOK
<1>2. ~Disturbance
  <2>1. disturbances + 1 # disturbances
    BY SchedulerAssumption DEF FullInv, Bounded
  <2> QED BY <2>1 DEF Disturbance
<1> QED
  BY <1>1, <1>2, SnapshotFacts DEF FullInv, Next, EditPod, DeletePod, PodEnds, Expire,
         HandleQueueEvent, HandleCacheEvent,
         NextPod, Schedule, Assume, AddNodeToCache, UpdateNodeInCache, DeleteNodeFromCache, Restart,
         FlushBackoff, FlushUnschedulable, Bind, BindReturns, BindArrivesLate, RetryGet, RetryAdd, timers, vars,
         local, nodeHandler

\* UpdateNodeInfoSnapshot stops at the first node of the list that has not changed, and
\* still leaves every node with an object as it is in the cache.
THEOREM SnapshotsAreExact == Spec => SnapshotExact
<1> DEFINE E == sched.pc = "schedule" /\ sched'.pc # "schedule" /\ sched.pod # {} /\ UNCHANGED disturbances =>
                \A n \in Nodes : nodes'.info[n].node =>
                    snapshot'[n] = [in |-> TRUE, pods |-> nodes'.info[n].pods]
<1>1. FullInv /\ [Next]_vars => [E]_vars
  BY SnapshotStep DEF Exact
<1>2. SnapshotExact <=> [][E]_vars
  BY PTL DEF SnapshotExact
<1> HIDE DEF E
<1> QED BY <1>1, <1>2, SchedulerFullInvariant, PTL DEF Spec
=============================================================================
