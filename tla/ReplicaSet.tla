----------------------------- MODULE ReplicaSet -----------------------------
(***************************************************************************)
(* The ReplicaSet controller (pkg/controller/replicaset) with the          *)
(* expectations of pkg/controller/controller_utils.go: one ReplicaSet, its *)
(* pods, the two informers and one worker.  The controller acts on caches  *)
(* that lag behind the API server; what it has asked for and not yet seen  *)
(* is kept as expectations, which expire.                                  *)
(*                                                                         *)
(* Abstractions.  The work queue is the flag queued (that one key is never *)
(* processed twice at a time is shown in WorkQueue), and a rate limited    *)
(* add is an add, since the worker may take its time anyway.  A pod is its *)
(* phase, whether its controllerRef names the ReplicaSet and whether its   *)
(* labels match the selector; readiness, and with it the order in which    *)
(* getPodsToDelete sorts and the MinReadySeconds timers, is left out: any  *)
(* pods may be the victims.  Of the status only that its write may fail is *)
(* kept.  Pod names are generated: a name that nobody remembers stands for *)
(* a new one.                                                              *)
(*                                                                         *)
(* The pod informer is that of Reflector, DeltaFIFO and SharedInformer: a  *)
(* watch, the deltas queued for each pod, the store and the notifications. *)
(* A list may be older than what the watch has delivered, and leaves the   *)
(* queued deltas alone.  The order in which keys are popped is left out,   *)
(* and the deltas that one Pop processes are processed one by one.  The    *)
(* informer of the ReplicaSet does not list again.                         *)
(*                                                                         *)
(* External to the code: the API server, the kubelet and users.            *)
(***************************************************************************)
EXTENDS Integers, Sequences, FiniteSets, SequencesExt

CONSTANTS
    Pods,           \* pod names
    MaxReplicas,    \* bound on spec.replicas
    burstReplicas,  \* how many creations or deletions one sync may start
    MaxOrphans,     \* bound on the orphans there are at the start
    MaxEdits,       \* bound on what users and other controllers do
    MaxFaults,      \* bound on failed calls, relists and restarts
    MaxLag,         \* how many changes a list may be behind what was received
    MaxBacklog      \* bound on the deltas of a pod, and on the notifications, that wait

ASSUME PodsAssumption == IsFiniteSet(Pods)
ASSUME BoundsAssumption == /\ MaxReplicas \in Nat /\ burstReplicas \in Nat \ {0}
                           /\ MaxOrphans \in Nat /\ MaxEdits \in Nat /\ MaxFaults \in Nat
                           /\ MaxLag \in Nat /\ MaxBacklog \in Nat \ {0}

VARIABLES
    rs,          \* the ReplicaSet on the API server: its phase and spec.replicas
    api,         \* the pods on the API server
    rsWatch,     \* versions of the ReplicaSet on their way to its informer
    rsCache,     \* the ReplicaSet in rsLister
    history,     \* the latest states of the pods on the API server, api is the last
    received,    \* the one that the reflector has got to
    fifo,        \* the deltas queued for each pod; the object of a Deleted is gone
    cache,       \* the pods in podLister
    notes,       \* notifications that the pod event handlers are still to get
    queued,      \* the key is in the work queue
    exp,         \* ControlleeExpectations of the key
    uids,        \* the UIDSet of the key: pods whose deletion is awaited
    pc,          \* where the worker is
    needsSync,   \* rsNeedsSync: what SatisfiedExpectations said
    read,        \* the ReplicaSet this sync got from rsLister
    view,        \* filteredPods: the pods this sync has listed and claimed
    todo,        \* calls this sync still has to make: <<"adopt" | "release" | "delete", pod>>
    canAdopt,    \* what CanAdopt has found: it is asked at most once in a sync
    batch,       \* slowStartBatch: calls of the batch and calls still to be made,
                 \* failed calls of it, and calls remaining from its start on
    failed,      \* this sync returns an error
    edits, faults,
    \* History, not program state: what the controller has done to a pod, and whether
    \* nothing happened that expectations cannot account for (they expired unfulfilled, a
    \* call failed after it took effect, a restart, a list older than what was received).
    done, sure

worker == <<pc, needsSync, read, view, todo, canAdopt, batch, failed>>
informer == <<received, fifo, cache, notes>>
vars == <<rs, api, rsWatch, rsCache, history, informer, queued, exp,
          uids, worker, edits, faults, done, sure>>

NoPod == [phase |-> "none", own |-> FALSE, match |-> FALSE]
Orphan == [phase |-> "active", own |-> FALSE, match |-> TRUE]
PodObject == [phase: {"none", "active", "terminating", "gone"}, own: BOOLEAN, match: BOOLEAN]
Delta == [sync: BOOLEAN, obj: PodObject]
RSObject == [phase: {"live", "deleting", "gone"}, replicas: 0..MaxReplicas]
NoRS == [phase |-> "gone", replicas |-> 0]
NoBatch == [size |-> 0, calls |-> 0, bad |-> 0, remaining |-> 0]
NoExpectations == [set |-> FALSE, add |-> 0, del |-> 0, expired |-> FALSE]

\* Pods without a controller that match the selector may be there already.
Init ==
    /\ \E n \in 0..MaxReplicas : rs = [phase |-> "live", replicas |-> n]
    /\ rsCache = rs /\ rsWatch = <<>>
    /\ \E orphans \in {O \in SUBSET Pods : Cardinality(O) <= MaxOrphans} :
         api = [p \in Pods |-> IF p \in orphans THEN Orphan ELSE NoPod]
    /\ cache = api
    /\ history = <<api>> /\ received = 1
    /\ fifo = [p \in Pods |-> <<>>] /\ notes = <<>>
    /\ queued = TRUE /\ exp = NoExpectations /\ uids = {}
    /\ pc = "idle" /\ needsSync = FALSE /\ read = NoRS /\ view = {} /\ todo = {}
    /\ canAdopt = "unasked" /\ batch = NoBatch /\ failed = FALSE
    /\ edits = 0 /\ faults = 0
    /\ done = [p \in Pods |-> "nothing"] /\ sure = TRUE

Edit == edits < MaxEdits /\ edits' = edits + 1
Fault == faults < MaxFaults /\ faults' = faults + 1

-----------------------------------------------------------------------------
(* The API server: objects, and the states that watches and lists show. *)

Stored(o) == IF o.phase = "gone" THEN NoPod ELSE o

WritePod(p, o) ==
    /\ api' = [api EXCEPT ![p] = Stored(o)]
    /\ history' = IF api' = api THEN history ELSE Append(history, api')

WriteRS(r) ==
    /\ rs' = r
    /\ rsWatch' = IF r = rs THEN rsWatch ELSE Append(rsWatch, r)

\* Everything about the pod has reached the store.
Arrived(p) == fifo[p] = <<>> /\ \A i \in received .. Len(history) : history[i][p] = api[p]

\* A generated name: nothing on the API server, in the informer or in the
\* controller's hands refers to it.  (A key that is still awaited under it stands
\* for an older pod's.)
Fresh(p) == /\ api[p] = NoPod /\ cache[p] = NoPod /\ Arrived(p)
            /\ \A i \in DOMAIN notes : notes[i].pod # p
            /\ p \notin view
            /\ \A c \in todo : c[2] # p

\* A pod with a new name: no list shows an older one under it.
WriteNewPod(p, o) ==
    /\ api' = [api EXCEPT ![p] = o]
    /\ history' = Append([i \in DOMAIN history |-> [history[i] EXCEPT ![p] = NoPod]], api')

Exists(p) == api[p].phase \in {"active", "terminating"}

-----------------------------------------------------------------------------
(* Users, other controllers and kubelets. *)

env == <<rsCache, informer, queued, exp, uids, worker, faults, sure>>

\* Somebody changes spec.replicas.
Scale(n) == /\ rs.phase = "live" /\ n # rs.replicas /\ Edit
            /\ WriteRS([rs EXCEPT !.replicas = n])
            /\ UNCHANGED <<env, api, history, done>>

\* The ReplicaSet is deleted, at once or with its DeletionTimestamp first.
DeleteRS(ph) == /\ <<rs.phase, ph>> \in {<<"live", "deleting">>, <<"live", "gone">>, <<"deleting", "gone">>}
                /\ Edit
                /\ WriteRS([rs EXCEPT !.phase = ph])
                /\ UNCHANGED <<env, api, history, done>>

\* A user changes a pod's labels so that it leaves or enters the selector.
Relabel(p) == /\ api[p].phase = "active" /\ Edit
              /\ WritePod(p, [api[p] EXCEPT !.match = ~@])
              /\ UNCHANGED <<env, rs, rsWatch, done>>

\* Somebody else deletes a pod, with or without a grace period.
DeletePodByOther(p, ph) ==
    /\ api[p].phase = "active" /\ Edit
    /\ WritePod(p, [api[p] EXCEPT !.phase = ph])
    /\ UNCHANGED <<env, rs, rsWatch, done>>

\* The kubelet ends a terminating pod.
PodEnds(p) == /\ api[p].phase = "terminating"
              /\ WritePod(p, [api[p] EXCEPT !.phase = "gone"])
              /\ UNCHANGED <<env, rs, rsWatch, done, edits>>

-----------------------------------------------------------------------------
(* The informers. *)

\* The ReplicaSet informer applies the next version it gets; its handlers, enqueueReplicaSet
\* and updateRS, queue the key for every add, update and deletion.  (A sync between the
\* two would only be one more.)
RSInformer == /\ rsWatch # <<>>
              /\ rsCache' = Head(rsWatch) /\ rsWatch' = Tail(rsWatch) /\ queued' = TRUE
              /\ UNCHANGED <<rs, api, history, informer, exp, uids, worker,
                             edits, faults, done, sure>>

\* willObjectBeDeletedLocked
WillBeDeleted(p) == fifo[p] # <<>> /\ Last(fifo[p]).obj.phase = "gone"

\* The pod is in knownObjects or in items.
Known(p) == cache[p] # NoPod \/ fifo[p] # <<>>

\* The deltas of p after an event with o: the deletion of a pod that is not known is
\* dropped, and of two in a row the later one stays (it has more information than a
\* tombstone, and no less than the same event seen before an older list).
WithEvent(p, o) ==
    LET d == [sync |-> FALSE, obj |-> o]
    IN CASE o.phase = "gone" /\ ~Known(p) -> <<>>
         [] o.phase = "gone" /\ WillBeDeleted(p) -> Append(Front(fifo[p]), d)
         [] OTHER -> Append(fifo[p], d)

\* The event with which a watch tells of a pod's change from old to new.
Event(old, new) == IF new = NoPod THEN [old EXCEPT !.phase = "gone"] ELSE new

\* The watch delivers the next change.
Receive ==
    /\ received < Len(history) /\ \A p \in Pods : Len(fifo[p]) < MaxBacklog
    /\ LET old == history[received]
           new == history[received + 1]
       IN fifo' = [p \in Pods |-> IF new[p] = old[p] THEN fifo[p] ELSE WithEvent(p, Event(old[p], new[p]))]
    /\ \/ received <= MaxLag /\ received' = received + 1 /\ UNCHANGED history
       \/ received > MaxLag /\ history' = Tail(history) /\ UNCHANGED received
    /\ UNCHANGED <<rs, api, rsWatch, rsCache, cache, notes, queued, exp, uids,
                   worker, edits, faults, done, sure>>

\* What the store's change from old to new is to the handlers.
Notification(p, old, new) ==
    [kind |-> CASE new.phase = "gone" -> "delete"
                [] new.phase # "gone" /\ old.phase = "none" -> "add"
                [] OTHER -> "update",
     pod |-> p, old |-> old, obj |-> new]

\* HandleDeltas processes the next delta of p: it updates the store and notifies.  A Sync
\* reaches only listeners that are due for a resync.
PodInformer(p) ==
    /\ fifo[p] # <<>> /\ Len(notes) < MaxBacklog
    /\ fifo' = [fifo EXCEPT ![p] = Tail(@)]
    /\ LET d == Head(fifo[p]) IN
         /\ cache' = [cache EXCEPT ![p] = Stored(d.obj)]
         /\ \/ notes' = Append(notes, Notification(p, cache[p], d.obj))
            \/ d.sync /\ UNCHANGED notes
    /\ UNCHANGED <<rs, api, rsWatch, rsCache, history, received, queued, exp, uids, worker,
                   edits, faults, done, sure>>

\* The object that the store has once the queued deltas are processed.
Latest(p) == IF fifo[p] = <<>> THEN cache[p] ELSE Last(fifo[p]).obj

\* The deltas of p after a list with o: what is listed comes as a Sync, unless its deletion
\* is queued; a pod of the store that is not listed comes as a tombstone with the object as
\* the store has it.  A pod that is only queued is not looked for.  (A Sync that changes
\* nothing is left out: updatePod returns at once.)
WithListed(p, o) ==
    CASE WillBeDeleted(p) \/ o = Latest(p) -> fifo[p]
      [] ~WillBeDeleted(p) /\ o # Latest(p) /\ o # NoPod ->
           Append(fifo[p], [sync |-> TRUE, obj |-> o])
      [] ~WillBeDeleted(p) /\ o = NoPod /\ cache[p] # NoPod ->
           Append(fifo[p], [sync |-> FALSE, obj |-> [cache[p] EXCEPT !.phase = "gone"]])
      [] OTHER -> fifo[p]

\* The watch breaks and the reflector lists again, at resource version "0": the list may be
\* older than what the watch has delivered, and then the cache goes back.
Relist ==
    /\ Fault
    /\ \E v \in DOMAIN history :
         /\ received' = v
         /\ fifo' = [p \in Pods |-> WithListed(p, history[v][p])]
         /\ sure' = (sure /\ v >= received)
    /\ UNCHANGED <<rs, api, rsWatch, rsCache, history, cache, notes, queued, exp, uids, worker,
                   edits, done>>

-----------------------------------------------------------------------------
(* Expectations (controller_utils.go). *)

Fulfilled(e) == e.add <= 0 /\ e.del <= 0

\* Mutant of SatisfiedExpectations: expectations never expire.
SatisfiedWhenFulfilled == exp.set => Fulfilled(exp)
SatisfiedExpectations == exp.set => Fulfilled(exp) \/ exp.expired

SetExpectations(a, d) == exp' = [set |-> TRUE, add |-> a, del |-> d, expired |-> FALSE]
LowerExpectations(a, d) ==
    exp' = IF exp.set THEN [exp EXCEPT !.add = @ - a, !.del = @ - d] ELSE exp

\* Mutant of DeletionObserved: any deletion lowers the expectations.
DeletionObservedAny(S) == uids' = uids \ S /\ LowerExpectations(0, Cardinality(S))

\* UIDTrackingControllerExpectations: a deletion counts once, and only if awaited.
DeletionObserved(S) ==
    /\ uids' = uids \ S
    /\ LowerExpectations(0, Cardinality(S \cap uids))

ExpectDeletions(S) == uids' = S /\ SetExpectations(0, Cardinality(S))

\* ExpectationsTimeout passes.  Nothing wakes the controller.  That it passes while calls
\* are made or events are still on their way counts as a fault; expectations that are fulfilled stay
\* so, and that they expire too is left out.
Expire == /\ exp.set /\ ~exp.expired /\ ~Fulfilled(exp)
          /\ Fault \/ (pc \notin {"create", "delete"} /\ notes = <<>>
                    /\ (\A p \in Pods : Arrived(p)) /\ UNCHANGED faults)
          /\ exp' = [exp EXCEPT !.expired = TRUE]
          /\ UNCHANGED <<rs, api, rsWatch, rsCache, history, informer, queued,
                         uids, worker, edits, done, sure>>

-----------------------------------------------------------------------------
(* The event handlers. *)

\* deletePod for the pods of S, whose last known objects have the controllerRef or not.
deletePod(own, S) ==
    IF own THEN DeletionObserved(S) /\ queued' = TRUE
           ELSE UNCHANGED <<exp, uids, queued>>

\* addPod: a pod seen for the first time when already terminating is no creation.
addPod(n) ==
    \/ n.obj.phase = "terminating" /\ deletePod(n.obj.own, {n.pod})
    \/ /\ n.obj.phase = "active" /\ n.obj.own
       /\ LowerExpectations(1, 0)
       /\ queued' = TRUE /\ UNCHANGED uids
    \/ /\ n.obj.phase = "active" /\ ~n.obj.own
       /\ queued' = (queued \/ n.obj.match)
       /\ UNCHANGED <<exp, uids>>

\* updatePod: the old object's controller is woken too when the reference changed, and an
\* orphan wakes the controllers that match it when its labels or reference changed.
updatePod(n) ==
    \/ /\ n.obj.phase = "terminating"
       /\ deletePod(n.obj.own \/ (n.old.own /\ n.old.match # n.obj.match), {n.pod})
    \/ /\ n.obj.phase = "active"
       /\ queued' = (queued \/ n.obj.own \/ n.old.own
                     \/ (n.obj.match /\ n.old # n.obj))
       /\ UNCHANGED <<exp, uids>>

\* The pod handlers get the next notification.  With the ReplicaSet gone from the lister
\* resolveControllerRef finds nothing.
HandlePod ==
    /\ notes # <<>>
    /\ LET n == Head(notes) IN
         \/ rsCache.phase = "gone" /\ UNCHANGED <<exp, uids, queued>>
         \/ /\ rsCache.phase # "gone"
            /\ \/ n.kind = "add" /\ addPod(n)
               \/ n.kind = "update" /\ updatePod(n)
               \/ n.kind = "delete" /\ deletePod(n.obj.own, {n.pod})
    /\ notes' = Tail(notes)
    /\ UNCHANGED <<rs, api, rsWatch, rsCache, history, received, fifo, cache, worker, edits,
                   faults, done, sure>>

\* The ReplicaSet informer's resync calls updateRS with the object it has.
Resync == /\ rsCache.phase # "gone" /\ ~queued /\ queued' = TRUE
          /\ UNCHANGED <<rs, api, rsWatch, rsCache, history, informer, exp,
                         uids, worker, edits, faults, done, sure>>

-----------------------------------------------------------------------------
(* The worker: processNextWorkItem and syncReplicaSet. *)

quiet == <<rs, api, rsWatch, rsCache, history, informer, edits, done>>

\* The locals of a sync end with it.
Return == /\ pc' = "idle" /\ needsSync' = FALSE /\ read' = NoRS /\ view' = {}
          /\ todo' = {} /\ canAdopt' = "unasked" /\ batch' = NoBatch /\ failed' = FALSE

\* Get the key, look the ReplicaSet up, and ask whether the expectations allow a sync,
\* before the pods are listed.  A sync that goes ahead because they have expired may act
\* on a cache that lacks its own writes.
StartSync ==
    /\ pc = "idle" /\ queued /\ queued' = FALSE
    /\ \/ /\ rsCache.phase = "gone"
          /\ exp' = NoExpectations /\ uids' = {}
          /\ UNCHANGED <<worker, sure>>
       \/ /\ rsCache.phase # "gone"
          /\ pc' = "list" /\ read' = rsCache
          /\ needsSync' = SatisfiedExpectations
          /\ sure' = (sure /\ (exp.expired => Fulfilled(exp)))
          /\ failed' = FALSE
          /\ UNCHANGED <<view, todo, canAdopt, batch, exp, uids>>
    /\ UNCHANGED <<quiet, faults>>

\* What becomes of an active pod: ours, to be released or to be adopted.  Nothing is
\* adopted or released for a ReplicaSet that is being deleted.
ClaimObject(o) ==
    CASE o.own /\ o.match -> "keep"
      [] o.own /\ ~o.match /\ read.phase = "live" -> "release"
      [] ~o.own /\ o.match /\ read.phase = "live" -> "adopt"
      [] OTHER -> "ignore"

\* List the active pods and sort them out.
ListPods ==
    /\ pc = "list" /\ pc' = "claim"
    /\ LET active == {p \in Pods : cache[p].phase = "active"}
           claims == {<<ClaimObject(cache[p]), p>> : p \in active}
       IN /\ view' = {p \in active : <<"keep", p>> \in claims}
          /\ todo' = {c \in claims : c[1] \in {"adopt", "release"}}
    /\ UNCHANGED <<quiet, queued, exp, uids, needsSync, read, canAdopt, batch, failed, faults, sure>>

claiming == <<rs, rsWatch, rsCache, informer, edits, done, queued, exp, uids,
              pc, needsSync, read, batch, sure>>

\* ReleasePod: a pod of ours that no longer matches loses its controllerRef; that it is
\* gone already is no error.  A patch may fail before or after it has taken effect.
ReleasePod(p) ==
    /\ pc = "claim" /\ <<"release", p>> \in todo /\ todo' = todo \ {<<"release", p>>}
    /\ \/ /\ WritePod(p, [api[p] EXCEPT !.own = FALSE])
          /\ \/ UNCHANGED <<failed, faults>>
             \/ Fault /\ failed' = TRUE
       \/ Fault /\ failed' = TRUE /\ UNCHANGED <<api, history>>
    /\ UNCHANGED <<claiming, view, canAdopt>>

\* CanAdopt: before the first adoption of a sync a live read tells whether the ReplicaSet
\* is being deleted; the answer stands for the whole sync.
CanAdopt ==
    /\ pc = "claim" /\ canAdopt = "unasked" /\ \E c \in todo : c[1] = "adopt"
    /\ \/ canAdopt' = (IF rs.phase = "live" THEN "yes" ELSE "no") /\ UNCHANGED faults
       \/ Fault /\ canAdopt' = "no"
    /\ UNCHANGED <<claiming, view, todo, failed, api, history>>

\* AdoptPod: an orphan gets the controllerRef; that it is gone already is no error.
AdoptPod(p) ==
    /\ pc = "claim" /\ <<"adopt", p>> \in todo /\ todo' = todo \ {<<"adopt", p>>}
    /\ \/ /\ canAdopt = "no" /\ failed' = TRUE
          /\ UNCHANGED <<api, history, view, faults>>
       \/ /\ canAdopt = "yes" /\ api[p] # NoPod
          /\ WritePod(p, [api[p] EXCEPT !.own = TRUE])
          /\ \/ view' = view \cup {p} /\ UNCHANGED <<failed, faults>>
             \/ Fault /\ failed' = TRUE /\ UNCHANGED view
       \/ /\ canAdopt = "yes" /\ api[p] = NoPod
          /\ UNCHANGED <<api, history, view, failed, faults>>
       \/ /\ canAdopt = "yes" /\ Fault /\ failed' = TRUE
          /\ UNCHANGED <<api, history, view>>
    /\ UNCHANGED <<claiming, canAdopt>>

diff == Cardinality(view) - read.replicas
AtMost(n) == IF n > burstReplicas THEN burstReplicas ELSE n

\* manageReplicas up to its first call: expectations are set before anything is asked for.
manageReplicas ==
    \/ /\ diff < 0
       /\ SetExpectations(AtMost(-diff), 0)
       /\ batch' = [size |-> 1, calls |-> 1, bad |-> 0, remaining |-> AtMost(-diff)]
       /\ pc' = "create" /\ UNCHANGED <<uids, todo>>
    \/ /\ diff > 0
       /\ \E S \in SUBSET view :
            /\ Cardinality(S) = AtMost(diff)
            /\ ExpectDeletions(S)
            /\ todo' = {"delete"} \X S
       /\ pc' = "delete" /\ UNCHANGED batch
    \/ diff = 0 /\ pc' = "status" /\ UNCHANGED <<exp, uids, batch, todo>>

\* claimPods returns.  An error ends the sync; replicas are managed only if the
\* expectations allowed it and the ReplicaSet is not being deleted.
Claimed ==
    /\ pc = "claim" /\ todo = {}
    /\ \/ /\ failed /\ Return /\ queued' = TRUE
          /\ UNCHANGED <<exp, uids>>
       \/ /\ ~failed /\ needsSync /\ read.phase = "live"
          /\ manageReplicas /\ UNCHANGED <<queued, needsSync, read, view, canAdopt, failed>>
       \/ /\ ~failed /\ ~(needsSync /\ read.phase = "live")
          /\ pc' = "status"
          /\ UNCHANGED <<queued, exp, uids, batch, todo, needsSync, read, view, canAdopt, failed>>
    /\ UNCHANGED <<quiet, faults, sure>>

calling == <<rs, rsWatch, rsCache, informer, edits, queued, pc, needsSync,
             read, view, canAdopt>>

\* One call of a batch creates a pod.  A call may fail; it may time out, which counts as
\* a success, with the pod created or not; and it may fail after the pod was created.
CreatePod(p) ==
    /\ pc = "create" /\ batch.calls > 0 /\ Fresh(p)
    /\ WriteNewPod(p, [phase |-> "active", own |-> TRUE, match |-> TRUE])
    /\ done' = [done EXCEPT ![p] = "created"]
    /\ uids' = uids \ {p}
    /\ \/ batch' = [batch EXCEPT !.calls = @ - 1] /\ UNCHANGED <<faults, sure>>
       \/ /\ Fault /\ sure' = FALSE
          /\ batch' = [batch EXCEPT !.calls = @ - 1, !.bad = @ + 1]
    /\ UNCHANGED <<calling, exp, todo, failed>>

\* A call that creates nothing: it fails, also because the quota (the names) is used up,
\* or it times out.
CreateFails ==
    /\ pc = "create" /\ batch.calls > 0
    /\ \/ /\ Fault \/ (faults' = faults /\ \A p \in Pods : ~Fresh(p))
          /\ batch' = [batch EXCEPT !.calls = @ - 1, !.bad = @ + 1]
       \/ Fault /\ batch' = [batch EXCEPT !.calls = @ - 1]
    /\ UNCHANGED <<calling, api, history, exp, uids, todo, failed, done, sure>>

\* Mutant of BatchEnds: the next batch is not capped by what remains.
BatchEndsUncapped ==
    /\ pc = "create" /\ batch.calls = 0
    /\ LET left == batch.remaining - batch.size
       IN \/ /\ left # 0
             /\ batch' = [size |-> 2 * batch.size, calls |-> 2 * batch.size,
                          bad |-> 0, remaining |-> left]
             /\ UNCHANGED pc
          \/ left = 0 /\ pc' = "status" /\ batch' = NoBatch
    /\ UNCHANGED <<quiet, queued, exp, uids, needsSync, read, view, todo, canAdopt, failed, faults, sure>>

\* All calls of a batch have returned: the next batch is twice as large, and after an
\* error the pods that failed or were never tried are no longer expected.
BatchEnds ==
    /\ pc = "create" /\ batch.calls = 0
    /\ LET left == batch.remaining - batch.size
           next == IF 2 * batch.size < left THEN 2 * batch.size ELSE left
       IN \/ /\ batch.bad > 0
             /\ LowerExpectations(left + batch.bad, 0)
             /\ pc' = "status" /\ failed' = TRUE /\ batch' = NoBatch
          \/ /\ batch.bad = 0 /\ next > 0
             /\ batch' = [size |-> next, calls |-> next, bad |-> 0, remaining |-> left]
             /\ UNCHANGED <<pc, exp, failed>>
          \/ /\ batch.bad = 0 /\ next = 0
             /\ pc' = "status" /\ batch' = NoBatch
             /\ UNCHANGED <<exp, failed>>
    /\ UNCHANGED <<quiet, queued, uids, needsSync, read, view, todo, canAdopt, faults, sure>>

\* DeletePod, one goroutine per pod: the pod terminates or goes at once, a pod that is
\* already gone is a success, and an error, also one after the deletion took effect,
\* takes the expectation back.
DeletePod(p) ==
    /\ pc = "delete" /\ <<"delete", p>> \in todo /\ todo' = todo \ {<<"delete", p>>}
    /\ \/ /\ \E ph \in {"terminating", "gone"} :
               api[p].phase = "active" /\ WritePod(p, [api[p] EXCEPT !.phase = ph])
          /\ done' = [done EXCEPT ![p] = "deleted"]
          /\ \/ UNCHANGED <<exp, uids, failed, faults, sure>>
             \/ Fault /\ sure' = FALSE /\ failed' = TRUE /\ DeletionObserved({p})
       \/ /\ api[p].phase # "active"
          /\ UNCHANGED <<api, history, done, exp, uids, failed, faults, sure>>
       \/ /\ Fault /\ failed' = TRUE /\ DeletionObserved({p})
          /\ UNCHANGED <<api, history, done, sure>>
    /\ UNCHANGED <<calling, batch>>

Deleted == /\ pc = "delete" /\ todo = {} /\ pc' = "status"
           /\ UNCHANGED <<quiet, queued, exp, uids, needsSync, read, view, todo,
                          canAdopt, batch, failed, faults, sure>>

\* updateReplicaSetStatus and the end of the sync: after an error, also one of the status
\* write, the key is queued again.
UpdateStatus ==
    /\ pc = "status" /\ Return
    /\ \/ queued' = (queued \/ failed) /\ UNCHANGED faults
       \/ Fault /\ queued' = TRUE
    /\ UNCHANGED <<quiet, exp, uids, sure>>

\* The controller manager restarts.  Its informers list, at any age again, and announce what
\* they list; the workers do not wait for these announcements, which lower expectations
\* like those of new pods.
Restart ==
    /\ Fault
    /\ exp' = NoExpectations /\ uids' = {} /\ queued' = TRUE
    /\ \E v \in DOMAIN history :
         LET listed == {p \in Pods : history[v][p] # NoPod} IN
         /\ received' = v /\ cache' = history[v] /\ fifo' = [p \in Pods |-> <<>>]
         /\ notes' = SetToSeq({Notification(p, NoPod, history[v][p]) : p \in listed})
         /\ sure' = (sure /\ listed = {} /\ v = Len(history))
    /\ Return
    /\ UNCHANGED <<rs, api, rsWatch, rsCache, history, edits, done>>

-----------------------------------------------------------------------------
Environment ==
    \/ \E n \in 0..MaxReplicas : Scale(n)
    \/ \E ph \in {"deleting", "gone"} : DeleteRS(ph)
    \/ \E p \in Pods : Relabel(p) \/ \E ph \in {"terminating", "gone"} : DeletePodByOther(p, ph)
    \/ Relist \/ Restart

Worker ==
    \/ StartSync \/ ListPods \/ CanAdopt \/ Claimed \/ BatchEnds \/ CreateFails \/ Deleted \/ UpdateStatus
    \/ \E p \in Pods : ReleasePod(p) \/ AdoptPod(p) \/ CreatePod(p) \/ DeletePod(p)

Next == \/ Environment \/ Worker
        \/ RSInformer \/ Receive \/ HandlePod \/ Resync \/ Expire
        \/ \E p \in Pods : PodInformer(p) \/ PodEnds(p)

Spec == Init /\ [][Next]_vars

\* The worker, the informers and the handlers run on; the resync timer fires, time passes
\* and kubelets end terminating pods.  Users need not do anything and calls need not fail.
Fairness == /\ WF_vars(Worker) /\ WF_vars(RSInformer)
            /\ WF_vars(Receive) /\ WF_vars(\E p \in Pods : PodInformer(p))
            /\ WF_vars(HandlePod) /\ WF_vars(Resync) /\ WF_vars(Expire)
            /\ \A p \in Pods : WF_vars(PodEnds(p))

FairSpec == Spec /\ Fairness

-----------------------------------------------------------------------------
Notes == [kind: {"add", "update", "delete"}, pod: Pods, old: PodObject, obj: PodObject]

\* The type of every variable.
TypeOK ==
    /\ rs \in RSObject /\ rsCache \in RSObject /\ read \in RSObject
    /\ rsWatch \in Seq(RSObject)
    /\ api \in [Pods -> PodObject] /\ cache \in [Pods -> PodObject]
    /\ history \in Seq([Pods -> PodObject]) /\ received \in 1 .. Len(history)
    /\ fifo \in [Pods -> Seq(Delta)]
    /\ notes \in Seq(Notes)
    /\ queued \in BOOLEAN
    /\ exp \in [set: BOOLEAN, add: Int, del: Int, expired: BOOLEAN]
    /\ uids \in SUBSET Pods
    /\ pc \in {"idle", "list", "claim", "create", "delete", "status"}
    /\ needsSync \in BOOLEAN /\ failed \in BOOLEAN /\ sure \in BOOLEAN
    /\ view \in SUBSET Pods /\ todo \in SUBSET ({"adopt", "release", "delete"} \X Pods)
    /\ canAdopt \in {"unasked", "yes", "no"}
    /\ batch \in [size: Nat, calls: Nat, bad: Nat, remaining: Nat]
    /\ edits \in 0..MaxEdits /\ faults \in 0..MaxFaults
    /\ done \in [Pods -> {"nothing", "created", "deleted"}]

\* What expectations are for: when they let a sync go ahead, the cache that it lists
\* next shows the controller's own writes.  Every pod that it created and that still
\* exists is known, and none that it deleted looks active (syncReplicaSet checks
\* SatisfiedExpectations before it lists).
ReadsOwnWrites ==
    pc = "list" /\ needsSync /\ sure =>
        \A p \in Pods : /\ done[p] = "created" /\ api[p] # NoPod => cache[p] # NoPod
                        /\ done[p] = "deleted" => cache[p].phase # "active"

\* The pods that count: active, ours and matching.
Replicas == {p \in Pods : api[p] = [phase |-> "active", own |-> TRUE, match |-> TRUE]}

\* The quota, which is the number of names, has room for what the ReplicaSet wants.
Room == rs.replicas + Cardinality({p \in Pods : Exists(p)} \ Replicas) <= Cardinality(Pods)

\* Pods that stay in the cache although they are gone: their deletion fell between two
\* watches while their addition was queued, so that Replace did not look for them.
Ghosts == {p \in Pods : cache[p] # NoPod /\ api[p] = NoPod /\ Arrived(p)}

\* However calls fail, watches break, lists lag and the controller restarts, once the rest
\* of the world is quiet a live ReplicaSet gets its number of replicas, quota permitting,
\* unless a ghost is left in the cache (manageReplicas, and what wakes syncReplicaSet up
\* again).
Converges == <>[](rs.phase = "live" /\ Room /\ Ghosts = {} => Cardinality(Replicas) = rs.replicas)
=============================================================================
