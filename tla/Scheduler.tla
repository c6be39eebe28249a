------------------------------ MODULE Scheduler ------------------------------
(***************************************************************************)
(* The scheduler (pkg/scheduler): scheduleOne takes a pod from the queue,  *)
(* finds a node for it in a snapshot of the cache, assumes it there and    *)
(* binds it in a goroutine of its own, while the informer's two pod        *)
(* handlers, the node handlers and the goroutines of failed attempts       *)
(* change the queue and the cache.                                         *)
(*                                                                         *)
(* Abstractions.  A pod fits on a node that has fewer than Capacity pods;  *)
(* priorities decide which node, so that it may be any.  Preemption is a   *)
(* deletion by somebody else.  Volumes and plugins only fail or do not.    *)
(* The informer brings each of the two pod handlers, at its own pace, from *)
(* what it was last told of a pod to what the API server has; it may skip  *)
(* states in between, as it does after a relist.  Where a handler updates  *)
(* the cache and then moves pods it is one action: who looks in between    *)
(* sees the newer cache.                                                   *)
(*                                                                         *)
(* External to the code: the API server, users, the kubelet, and the       *)
(* informer.  A pod name is not used again.                                *)
(***************************************************************************)
EXTENDS SchedulingQueue, SchedulerCache

CONSTANTS
    InitialNodes,     \* the sets of nodes that there may be at the start
    Capacity,         \* pods that fit on a node
    MaxDisturbances   \* bound on what users and node controllers do, on failed calls, late
                      \* confirmations and restarts

ASSUME SchedulerAssumption == /\ IsFiniteSet(Pods) /\ IsFiniteSet(Nodes)
                              /\ InitialNodes \subseteq SUBSET Nodes
                              /\ Capacity \in Nat \ {0} /\ MaxDisturbances \in Nat

VARIABLES
    api,           \* the pods on the API server
    toldQueue,     \* the pods as the handler of unassigned pods was told
    toldCache,     \* the pods as the handler of assigned pods was told
    sched,         \* scheduleOne: where it is, its pod and the suggested host
    bindings,      \* the binding goroutines
    disturbances,  \* their number so far
    sure           \* history: nothing happened that the cache cannot account for

world == <<api, toldQueue, toldCache>>
vars == <<queueVars, cacheVars, world, sched, bindings, disturbances, sure>>

\* rev stands for metadata and spec, cond for the PodScheduled condition.
NoPod == [phase |-> "none", node |-> NoNode, dying |-> FALSE, rev |-> FALSE, cond |-> FALSE]
PodObject == [phase: {"none", "pending", "bound"}, node: Nodes \cup {NoNode},
              dying: BOOLEAN, rev: BOOLEAN, cond: BOOLEAN]

Idle == [pc |-> "idle", pod |-> {}, node |-> NoNode, overtaken |-> FALSE]

Init ==
    /\ QueueInit
    /\ \E S \in InitialNodes :
         nodes = [info |-> [n \in Nodes |-> [node |-> n \in S, pods |-> {}]],
                  list |-> SetToSeq(S), changed |-> S]
    /\ podStates = [p \in Pods |-> NoState]
    /\ snapshot = [n \in Nodes |-> [in |-> FALSE, pods |-> {}]]
    /\ api = [p \in Pods |-> [NoPod EXCEPT !.phase = "pending"]]
    /\ toldQueue = [p \in Pods |-> NoPod] /\ toldCache = toldQueue
    /\ sched = Idle /\ bindings = {}
    /\ disturbances = 0 /\ sure = TRUE

Disturbance == disturbances < MaxDisturbances /\ disturbances' = disturbances + 1

-----------------------------------------------------------------------------
(* Users and the kubelet. *)

local == <<queueVars, cacheVars, sched, bindings, toldQueue, toldCache, sure>>

\* A user changes the metadata of a pending pod.
EditPod(p) == /\ api[p].phase = "pending" /\ Disturbance
              /\ api' = [api EXCEPT ![p].rev = ~@]
              /\ UNCHANGED local

\* A pod is deleted, at once or with its DeletionTimestamp first.
DeletePod(p) == /\ api[p].phase \in {"pending", "bound"} /\ ~api[p].dying /\ Disturbance
                /\ \E o \in {NoPod, [api[p] EXCEPT !.dying = TRUE]} : api' = [api EXCEPT ![p] = o]
                /\ UNCHANGED local

PodEnds(p) == /\ api[p].dying
              /\ api' = [api EXCEPT ![p] = NoPod]
              /\ UNCHANGED <<local, disturbances>>

\* isPodUpdated: more than the status has changed.
isPodUpdated(old, new) == <<old.rev, old.dying>> # <<new.rev, new.dying>>

-----------------------------------------------------------------------------
(* The event handlers. *)

\* History: a move request overtakes the attempts under way.
Overtaken == sched' = [sched EXCEPT !.overtaken = sched.pc # "idle"]

\* FilteringResourceEventHandler: a handler sees the pods that are assigned, or those that
\* are not, and the others as if they did not exist.
Unassigned(o) == IF o.phase = "pending" THEN o ELSE NoPod
Assigned(o) == IF o.phase = "bound" THEN o ELSE NoPod

\* addPodToSchedulingQueue, updatePodInSchedulingQueue and
\* deletePodFromSchedulingQueue.  An update of an assumed pod is skipped unless it differs
\* in more than the node, the version and the annotations from the object assumed.
HandleQueueEvent(p) ==
    LET old == toldQueue[p]
        new == Unassigned(api[p])
    IN /\ old # new /\ toldQueue' = [toldQueue EXCEPT ![p] = new]
       /\ \/ old = NoPod /\ Add(p, new.dying)
          \/ old # NoPod /\ new # NoPod /\ Update(p, isPodUpdated(old, new), new.dying)
          \/ old # NoPod /\ new # NoPod /\ Assumed(p) /\ UNCHANGED queueVars
          \/ new = NoPod /\ Delete(p)
       /\ UNCHANGED <<cacheVars, sched, bindings, api, toldCache, disturbances, sure>>

\* addPodToCache, updatePodInCache and deletePodFromCache.
HandleCacheEvent(p) ==
    LET old == toldCache[p]
        new == Assigned(api[p])
    IN /\ old # new /\ toldCache' = [toldCache EXCEPT ![p] = new]
       /\ \/ old = NoPod /\ AddPod(p, new.node) /\ AssignedPodAdded
          \/ old # NoPod /\ new # NoPod /\ UpdatePod(p, new.node) /\ AssignedPodAdded
          \/ new = NoPod /\ RemovePod(p) /\ MoveAllToActiveQueue
       /\ Overtaken
       /\ UNCHANGED <<snapshot, bindings, api, toldQueue, disturbances, sure>>

nodeHandler == <<podStates, snapshot, bindings, world, sure>>

\* addNodeToCache; the handlers for volumes, claims, services and storage classes move
\* pods in the same way.
AddNodeToCache(n) == /\ ~nodes.info[n].node /\ Disturbance
                     /\ AddNode(n) /\ MoveAllToActiveQueue /\ Overtaken
                     /\ UNCHANGED nodeHandler

\* updateNodeInCache moves pods if the node changed for the better, and if none is
\* unschedulable, for the sake of the attempt under way.
UpdateNodeInCache(n) == /\ nodes.info[n].node /\ Disturbance
                        /\ AddNode(n)
                        /\ \/ MoveAllToActiveQueue /\ Overtaken
                           \/ unschedulableQ # {} /\ UNCHANGED <<queueVars, sched>>
                        /\ UNCHANGED nodeHandler

DeleteNodeFromCache(n) == /\ nodes.info[n].node /\ Disturbance
                          /\ RemoveNode(n)
                          /\ UNCHANGED <<queueVars, sched, nodeHandler>>

-----------------------------------------------------------------------------
(* Timers. *)

timers == <<world, bindings, disturbances, sure>>

FlushBackoff(S) == /\ S # {} /\ flushBackoffQCompleted(S)
                   /\ UNCHANGED <<cacheVars, timers, sched>>

FlushUnschedulable(S) == /\ S # {} /\ flushUnschedulableQLeftover(S) /\ Overtaken
                         /\ UNCHANGED <<cacheVars, timers>>

\* The informer is still to confirm an assumption.
Confirmable(p) == api[p].phase = "bound" /\ toldCache[p] = NoPod

\* An assumption expires; before its confirmation only if that is very late.
Expire(p) == /\ ExpirePod(p)
             /\ IF Confirmable(p) THEN Disturbance /\ sure' = FALSE ELSE UNCHANGED <<disturbances, sure>>
             /\ UNCHANGED <<queueVars, snapshot, world, bindings, sched>>

-----------------------------------------------------------------------------
(* scheduleOne and the goroutines it starts. *)

\* recordSchedulingFailure: the error function notes the current cycle and starts a
\* goroutine that will put the pod back; then the pod's condition is set, unless the
\* object that was scheduled is out of date.
recordSchedulingFailure(p, overtaken) ==
    /\ retries' = retries \cup {[pod |-> p, moved |-> moved, overtaken |-> overtaken,
                                 got |-> FALSE, dying |-> FALSE]}
    /\ \/ api' = api
       \/ api[p].phase = "pending" /\ api' = [api EXCEPT ![p].cond = TRUE]

inQueue == <<activeQ, podBackoffQ, unschedulableQ, terminating, moved>>
informed == <<toldQueue, toldCache>>

\* NextPod.  A pod that is being deleted is dropped.
NextPod(p) ==
    /\ sched.pc = "idle" /\ Pop(p)
    /\ sched' = IF p \in terminating THEN sched
                ELSE [pc |-> "schedule", pod |-> {p}, node |-> NoNode, overtaken |-> FALSE]
    /\ UNCHANGED <<cacheVars, world, bindings, disturbances, sure>>

\* Mutant of Schedule: a pod that fits nowhere goes on without a host.
ScheduleNowhere(p) ==
    /\ sched.pc = "schedule" /\ p \in sched.pod
    /\ UpdateNodeInfoSnapshot
    /\ LET fit == {n \in Nodes : nodes.info[n].node /\ Cardinality(snapshot'[n].pods) < Capacity} IN
         \E n \in IF fit = {} THEN {NoNode} ELSE fit : sched' = [sched EXCEPT !.pc = "assume", !.node = n]
    /\ UNCHANGED <<queueVars, api, podStates, informed, bindings, disturbances, sure>>

\* Schedule takes a snapshot and looks for a node where the pod fits.
Schedule(p) ==
    /\ sched.pc = "schedule" /\ p \in sched.pod
    /\ UpdateNodeInfoSnapshot
    /\ LET fit == {n \in Nodes : nodes.info[n].node /\ Cardinality(snapshot'[n].pods) < Capacity} IN
         \/ /\ \E n \in fit : sched' = [sched EXCEPT !.pc = "assume", !.node = n]
            /\ UNCHANGED <<api, retries>>
         \/ fit = {} /\ recordSchedulingFailure(p, sched.overtaken) /\ sched' = Idle
    /\ UNCHANGED <<inQueue, podStates, informed, bindings, disturbances, sure>>

\* assume, unless volumes, a reserve plugin or the cache refuse, and start the binding.
Assume(p) ==
    /\ sched.pc = "assume" /\ p \in sched.pod /\ sched' = Idle
    /\ \/ /\ CanAssume(p) /\ AssumePod(p, sched.node)
          /\ bindings' = bindings \cup {[pod |-> p, node |-> sched.node, pc |-> "bind"]}
          /\ UNCHANGED <<api, retries, disturbances>>
       \/ /\ (~CanAssume(p) /\ UNCHANGED disturbances) \/ Disturbance
          /\ recordSchedulingFailure(p, sched.overtaken)
          /\ UNCHANGED <<podStates, nodes, bindings>>
    /\ UNCHANGED <<inQueue, snapshot, informed, sure>>

\* BindingREST.assignPod: a pod that is unassigned and not being deleted gets its node.
Bindable(b) == api[b.pod].phase = "pending" /\ ~api[b.pod].dying
assignPod(b) == /\ Bindable(b)
                /\ api' = [api EXCEPT ![b.pod] = [NoPod EXCEPT !.phase = "bound", !.node = b.node]]

\* The call to the API server.  It, or what comes before it, may fail, also after the
\* pod was bound.
Bind(b) ==
    LET Goto(pc) == bindings' = (bindings \ {b}) \cup {[b EXCEPT !.pc = pc]}
    IN /\ b.pc = "bind"
       /\ \/ assignPod(b) /\ Goto("done") /\ UNCHANGED <<disturbances, sure>>
          \/ ~Bindable(b) /\ Goto("failed") /\ UNCHANGED <<api, disturbances, sure>>
          \/ Disturbance /\ Goto("failed") /\ UNCHANGED <<api, sure>>
          \/ Disturbance /\ assignPod(b) /\ Goto("failed") /\ sure' = FALSE
       /\ UNCHANGED <<queueVars, cacheVars, sched, informed>>

\* A request that the scheduler sent before it was restarted arrives.
BindArrivesLate(b) ==
    /\ b.pc = "orphan" /\ assignPod(b) /\ bindings' = bindings \ {b}
    /\ UNCHANGED <<queueVars, cacheVars, sched, informed, disturbances, sure>>

\* bind returns: the assumption may expire from now on, or is forgotten after an error.
\* (Only an expiry could come between the calls that are made then.)
BindReturns(b) ==
    /\ bindings' = bindings \ {b}
    /\ \/ /\ b.pc = "done" /\ podStates' = Finished(podStates, b.pod)
          /\ UNCHANGED <<nodes, api, retries>>
       \/ /\ b.pc = "failed" /\ FinishAndForget(b.pod, b.node)
          /\ recordSchedulingFailure(b.pod, FALSE)
    /\ UNCHANGED <<inQueue, snapshot, informed, sched, disturbances, sure>>

\* Mutant of RetryGet: the goroutine ends if the API server fails.
RetryGetOnce(r) ==
    /\ ~r.got
    /\ retries' = (retries \ {r}) \cup
         {[r EXCEPT !.got = TRUE, !.dying = api[x].dying] : x \in {r.pod} \cap {p \in Pods : api[p].phase = "pending"}}
       \/ retries' = retries \ {r}
    /\ UNCHANGED <<inQueue, cacheVars, world, sched, bindings, disturbances, sure>>

\* The goroutine of a failed attempt gets the pod, as often as it takes, and puts it back
\* if it is still unassigned then.
RetryGet(r) ==
    /\ ~r.got
    /\ retries' = (retries \ {r}) \cup
         {[r EXCEPT !.got = TRUE, !.dying = api[x].dying] : x \in {r.pod} \cap {p \in Pods : api[p].phase = "pending"}}
    /\ UNCHANGED <<inQueue, cacheVars, world, sched, bindings, disturbances, sure>>

RetryAdd(r) ==
    /\ r.got /\ AddUnschedulableIfNotPresent(r) /\ retries' = retries \ {r}
    /\ UNCHANGED <<cacheVars, world, sched, bindings, disturbances, sure>>

\* The scheduler exits and is started again.  It waits until its informers have listed,
\* not until the handlers have been told.  Requests to bind may be on their way.
Restart ==
    /\ Disturbance /\ sure' = FALSE
    /\ activeQ' = {} /\ podBackoffQ' = {} /\ unschedulableQ' = {} /\ terminating' = {}
    /\ moved' = FALSE /\ retries' = {}
    /\ podStates' = [p \in Pods |-> NoState]
    /\ LET up == {n \in Nodes : nodes.info[n].node} IN
         nodes' = [info |-> [n \in Nodes |-> [node |-> n \in up, pods |-> {}]],
                   list |-> SetToSeq(up), changed |-> up]
    /\ snapshot' = [n \in Nodes |-> [in |-> FALSE, pods |-> {}]]
    /\ toldQueue' = [p \in Pods |-> NoPod] /\ toldCache' = toldQueue'
    /\ sched' = Idle
    /\ bindings' = {[b EXCEPT !.pc = "orphan"] : b \in {c \in bindings : c.pc = "bind"}}
    /\ UNCHANGED api

-----------------------------------------------------------------------------
Next ==
    \/ \E p \in Pods : \/ EditPod(p) \/ DeletePod(p) \/ PodEnds(p) \/ Expire(p)
                       \/ HandleQueueEvent(p) \/ HandleCacheEvent(p)
                       \/ NextPod(p) \/ Schedule(p) \/ Assume(p)
    \/ \E n \in Nodes : AddNodeToCache(n) \/ UpdateNodeInCache(n) \/ DeleteNodeFromCache(n)
    \/ Restart
    \/ \E S \in SUBSET Pods : FlushBackoff(S) \/ FlushUnschedulable(S)
    \/ \E b \in bindings : Bind(b) \/ BindReturns(b) \/ BindArrivesLate(b)
    \/ \E r \in retries : RetryGet(r) \/ RetryAdd(r)

Spec == Init /\ [][Next]_vars

\* The scheduler's goroutines, the informer and the timers run on, and a pod that is
\* active again and again is popped in the end: among pods of one priority activeQComp
\* puts first the one that has waited longest.
Fairness ==
    \A p \in Pods : /\ WF_vars(HandleQueueEvent(p)) /\ WF_vars(HandleCacheEvent(p))
                    /\ WF_vars(Expire(p)) /\ SF_vars(NextPod(p))
                    /\ WF_vars(Schedule(p)) /\ WF_vars(Assume(p))
                    /\ WF_vars(\E S \in SUBSET Pods : p \in S /\ FlushBackoff(S))
                    /\ WF_vars(\E S \in SUBSET Pods : p \in S /\ FlushUnschedulable(S))
                    /\ WF_vars(\E b \in bindings : b.pod = p /\ (Bind(b) \/ BindReturns(b)))
                    /\ WF_vars(\E r \in retries : r.pod = p /\ (RetryGet(r) \/ RetryAdd(r)))

FairSpec == Spec /\ Fairness

-----------------------------------------------------------------------------
\* The type of every variable; scheduleOne has one pod at a time, and assumes it on a node.
TypeOK ==
    /\ QueueTypeOK /\ CacheTypeOK
    /\ api \in [Pods -> PodObject] /\ toldQueue \in [Pods -> PodObject] /\ toldCache \in [Pods -> PodObject]
    /\ sched \in [pc: {"idle", "schedule", "assume"}, pod: SUBSET Pods,
                  node: Nodes \cup {NoNode}, overtaken: BOOLEAN]
    /\ \A p, q \in sched.pod : p = q
    /\ sched.pc = "idle" <=> sched.pod = {}
    /\ sched.pc = "assume" <=> sched.node \in Nodes
    /\ bindings \subseteq [pod: Pods, node: Nodes, pc: {"bind", "done", "failed", "orphan"}]
    /\ disturbances \in 0..MaxDisturbances /\ sure \in BOOLEAN

\* Where a pod can be in the scheduler's hands.
InHand(p) == \/ p \in activeQ \cup podBackoffQ \cup unschedulableQ
             \/ p \in sched.pod
             \/ \E b \in bindings : b.pod = p /\ b.pc # "orphan"
             \/ \E r \in retries : r.pod = p

\* No pod is lost: an unassigned pod that the scheduler has been told of is in a queue, in
\* scheduleOne, in a binding or in a retry, or a notification about it is still to come
\* (however updates, failures, stale reads and confirmations interleave).
NoPodLost ==
    \A p \in Pods : api[p].phase = "pending" /\ ~api[p].dying =>
        InHand(p) \/ toldQueue[p] # api[p]

\* A pod does not wait for a change of the cluster that came while it was tried: with a
\* move request since its attempt began it is not put into unschedulableQ
\* (moveRequestCycle).  Attempts that fail while binding are not covered: their cycle
\* is read when they fail.
MoveSeen == [][\A r \in retries : r.overtaken /\ r \notin retries' /\ r.got
                 => (r.pod \in unschedulableQ' => r.pod \in unschedulableQ)]_vars

\* The assertion in UpdatePod and RemovePod, "Schedulercache is corrupted": a confirmed pod
\* that is updated or removed is on the node where it was added.
NotCorrupted ==
    \A p \in Pods : toldCache[p] # NoPod /\ Cached(p) /\ ~Assumed(p)
                    => podStates[p].node = toldCache[p].node

\* Whatever changed since the last snapshot, after UpdateNodeInfoSnapshot every node
\* with an object is in it with the pods that count on it, although only a part of
\* the list was visited.
SnapshotExact ==
    [][sched.pc = "schedule" /\ sched'.pc # "schedule" /\ sched.pod # {} /\ UNCHANGED disturbances =>
         \A n \in Nodes : nodes'.info[n].node =>
             snapshot'[n] = [in |-> TRUE, pods |-> nodes'.info[n].pods]]_vars

\* Assumed pods keep their place: no more pods are bound to a node than fit, unless a
\* confirmation came very late, a binding took effect that was reported as failed, or
\* the scheduler was restarted.
NoOvercommit ==
    sure => \A n \in Nodes : Cardinality({p \in Pods : api[p].node = n}) <= Capacity

\* In the end the cache has exactly the pods that are bound, and an unassigned pod
\* is one that fits nowhere.
Settles ==
    <>[](/\ \A p \in Pods : podStates[p].node = api[p].node
         /\ \A p \in Pods, n \in Nodes :
              api[p].phase = "pending" /\ ~api[p].dying /\ nodes.info[n].node
              => Cardinality({q \in Pods : api[q].node = n}) >= Capacity)
=============================================================================
