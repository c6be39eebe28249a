# Kubernetes control loops in TLA+

This directory is a verification development for the control loops of Kubernetes:
the machinery that every controller stands on (the work queues, the informer cache
and leader election of `client-go`), two of the loops built on it (the ReplicaSet
controller and the scheduler), and the store they all write to (the etcd3 storage of
the API server). It contains TLA+
modules translated from the Go source, TLC configurations that check them on
small instances, and TLAPS proofs of the main safety properties for every value
of the constants. `PROJECT.json` maps every definition to the lines it models,
and lists the runs, the hazards, the findings and the theorems.

## 1. Inventory

Kubernetes is a set of independent processes around one store. Every controller
(and the scheduler, the kubelet, the proxy) keeps a cache of the objects it cares
about, is told of changes, puts the names of changed objects into a queue, and
compares, in worker goroutines, what is with what should be. Only one replica of
a controller works at a time.

| Component | State | Operations | Talks to |
|---|---|---|---|
| Work queue (`util/workqueue/queue.go`) | slice `queue`, sets `dirty`, `processing`, flag `shuttingDown`, a condition variable | `Add`, `Get`, `Done`, `ShutDown` | event handlers, workers, delaying queue |
| Rate limiters (`default_rate_limiters.go`) | failures per item, token bucket | `When`, `Forget`, `NumRequeues` | rate limiting queue |
| Delaying queue (`delaying_queue.go`, `rate_limiting_queue.go`) | channel, heap, timer, heartbeat, `stopCh`, clock | `AddAfter`, `AddRateLimited`, `ShutDown`, goroutine `waitingLoop` | work queue, workers |
| DeltaFIFO (`tools/cache/delta_fifo.go`) | `items` (deltas per key), `queue`, `populated`, `initialPopulationCount`, `closed` | `Add`, `Update`, `Delete`, `Replace`, `Resync`, `Pop`, `Close`, `HasSynced` | reflector, controller, indexer |
| Reflector and controller (`reflector.go`, `controller.go`) | resource version, where it is in list/watch | `ListAndWatch`, `watchHandler`, resync goroutine, `processLoop`, stop | API server, DeltaFIFO |
| Shared informer (`shared_informer.go`) | indexer, listeners, syncing listeners, a buffer per listener | `HandleDeltas`, `AddEventHandler`, `distribute`, `shouldResync` | DeltaFIFO, event handlers |
| Leader election (`tools/leaderelection`) | lock object in the API server; observed record and time, deadline per process | `acquire`, `renew`, `release`, `tryAcquireOrRenew` | API server, clock |
| etcd3 storage (`apiserver/pkg/storage/etcd3/store.go`) | an object and its ModRevision per key; `origState` and `mustCheckData` per call | `Create`, `GuaranteedUpdate`, `Delete` | etcd, watch cache (suggestions), registry (`tryUpdate`) |
| Expectations and ReplicaSet controller (`pkg/controller/controller_utils.go`, `replicaset`) | expected creations and deletions, two caches, a queue | pod and ReplicaSet handlers, `syncReplicaSet`, claiming, `manageReplicas`, expiry | informers, queue, API server |
| Scheduler (`pkg/scheduler`) | three pod queues and their cycle counters; pod states, node infos in an ordered list, a snapshot | `scheduleOne`, assume, bind, forget, expire; pop, add-if-unschedulable, move; two pod handlers, node handlers | informers, API server |
| Watch cache, registry, admission (`apiserver/pkg/storage/cacher`, `registry`) | cyclic buffer, watchers | `Watch`, dispatch | storage, reflectors |
| Other controllers (`pkg/controller/...`) | dependency graph, ... | `sync` per key | informers, queues, API server |
| Kubelet, kube-proxy | pod workers, status versions; rules | sync loops | container runtime, kernel |
| kubectl, kubeadm, cloud providers, generated clients, vendored code | - | - | - |

What is hard in the modelled parts:

* **Interleaving.** Workers, handlers and loops meet at condition variables and
  channels; wakeups can get lost, and checks can be outdated when they are used.
* **Order and staleness.** Deltas pile up before they are popped; the indexer lags
  behind the queue, the queue behind the watch, the watch behind the store, and a
  list may be older than what a watch has delivered.
* **Failure.** Watches break; requests get lost, are answered late, or are served after
  their sender has given up (leader election, bindings, creations of pods, etcd
  transactions); processes crash and start again with empty memories.
* **Time.** Delays, timers read against a clock that moves on, leases whose two
  sides count from different moments.
* **Stopping.** `ShutDown`, `Close` and `stopCh` arrive between any two steps.
* **Numbers.** Exponential delays reach the width of a duration.

What makes each part correct: an item that was added is processed, by one worker
at a time, and not before its delay has passed; the cache converges to the
authoritative state and its handlers are told; there is one leader; a controller acts
only on a cache that shows its own writes, and reaches the number of replicas; no pod is
lost between the scheduler's queues or counted twice in its cache; a write to the store is
one atomic step.

## 2. Modules

| Module | Models | Notes |
|---|---|---|
| `AbstractWorkQueue` | the promises of `util/workqueue/doc.go` | abstract specification |
| `WorkQueue` | `queue.go` and the workers | refines `AbstractWorkQueue` |
| `RateLimiter` | `default_rate_limiters.go` | durations of `Width` bits, several callers |
| `AbstractDelayingQueue` | the promise of `DelayingInterface` | extends the abstract queue |
| `DelayingQueue` | `delaying_queue.go`, `AddRateLimited`, `processNextWorkItem` | extends `WorkQueue`, refines `AbstractDelayingQueue` |
| `DeltaFIFO` | `delta_fifo.go` | operations only, no specification of its own |
| `Reflector` | `reflector.go`, `controller.go`, the API server's history | extends `DeltaFIFO`; the cache as a whole |
| `SharedInformer` | `shared_informer.go` | extends `Reflector` with listeners |
| `LeaderElection` | `leaderelection.go`, `resourcelock/leaselock.go`, the API server's writes | |
| `ReplicaSet` | `replica_set.go`, the expectations of `controller_utils.go`, `controller_ref_manager.go`; the pod informer as in `Reflector`, `DeltaFIFO` and `SharedInformer` | one ReplicaSet, its informers and worker |
| `SchedulerObjects`, `SchedulingQueue`, `SchedulerCache` | `internal/queue/scheduling_queue.go`, `internal/cache/cache.go` | operations only |
| `Scheduler` | `scheduler.go`, `eventhandlers.go`, `factory.go` (the error function), the binding REST handler | composes the two with the goroutines that call them |
| `StoreObjects`, `AtomicStore` | the promise of `storage/interfaces.go` for one key | abstract specification |
| `Etcd3Store` | `etcd3/store.go`, the version check of `Store.Update`, the suggestion of `Cacher.GuaranteedUpdate` | refines `AtomicStore` |
| `*Proofs` | theorems about the module of that name; `InformerProofs` about `Reflector` and `SharedInformer` | checked by `tlapm` |
| `MC*` | instances for TLC | constants are given in the `.cfg` files |

Definitions called "Mutant of ..." next to an operation are wrong versions of it
(a dropped guard, a missing reset); they are not part of any specification and
serve to show that a property would notice the mistake.

### How the state corresponds to the code

*WorkQueue.* The variables are the fields of `Type`. Every method holds the mutex
of the condition variable, and so is one action; `Get` gives it up in
`cond.Wait()`, so a call of `Get` is a sequence of attempts (`GetWait`,
`GetShutdown`, `GetItem`), a new one after each wakeup. `pc` says where each worker
is, `held` what it holds between `Get` and `Done`. `Signal` wakes one parked worker
of TLC's choice. Anybody may call `Add` at any time.

*RateLimiter.* A delay is a signed integer of `Width` bits. `Exponential` follows
the code's order: multiply as a float, compare with `float64(math.MaxInt64)`, which
is one more than the largest integer, convert, compare with `maxDelay`. A float
that does not fit is converted as the machine likes (`ToDuration`). The token
bucket is a library and may answer any delay of a set. `MaxOfRateLimiter` has no lock, so
that a call of `When` is a loop with one step per limiter (`StartWhen`, `Ask`,
`WhenReturns`), with its variable `ret`, and so is `Forget`; calls of several goroutines
interleave between the limiters. `answer` and `inRow` are auxiliary: the last answer of each
limiter, and how many failures of an item were reported one after the other.

*DelayingQueue.* `AddAfter` takes two steps, because it blocks in its select while
the channel is full. `waitingLoop` is a program counter `loop` (top, adding ready
entries, select, draining), its local clock value `loopNow`, the heap `waiting` and
the `timer` of `nextReadyAt`. Ties in the heap are broken in any way. The workers
run `processNextWorkItem`: a failed sync calls `AddRateLimited` with any delay of
`Delays`, the rest of `RateLimiter`'s state being of no interest here.

*DeltaFIFO, Reflector.* An object is its resource version. The API server is the
sequence of its collections, so that a list at version `r` is `history[r]` and a
watch delivers the differences in order. A list may be of any version, because the
reflector asks for resource version "0". Watches that end without an error go on
from where they were and are not a step of the model. Operations hold `f.lock` and
are one action each; `Pop` has a step of its own between its last look at `IsClosed()`
and `cond.Wait()` (`popper = "parking"`), because `Close` does not take the lock.
`missed` and `unpopped` are auxiliary: they only record, for the properties, for
which keys `Replace` left the queue in disagreement with the list, and which keys of
the first list have not been popped.

*SharedInformer.* `HandleDeltas` runs while `Pop` holds the lock and is one action
with it. A listener's channel, buffer and two goroutines are one queue `pending`, and
`seen` is what a handler believes after the notifications it got. `ShouldResync`
sets the syncing listeners to any set of listeners with a resync period, and
`Resync` follows as a step of its own.

*LeaderElection.* An attempt (`tryAcquireOrRenew`) sends a Get and then a Create or
an Update; requests are served, refused or lost, before or after the client stops
waiting, and answered within the client's `RequestTimeout` or not at all. `lock` is the
object in `LeaseLock.lease`, which the answer to any write replaces, that of `release`
included: an attempt that is still under way beside it takes it for what it has read.
`renew`'s loop, `release` and the return from `Run` are the roles `leader`,
`releasing` and `gone`. An attempt that was under way when the loop ended goes on by
itself, as the goroutine in `renew` does. `Nobody` is the empty holder identity of a
released lease. A process acquires once; a restarted binary has a new identity and
is another process that takes its first step late. `writtenAt`, `storedAt` and `timely` are
auxiliary: when the lease was stored, when the write that a process waits for was, and
whether every answer that made or kept a process the leader came less than LeaseDuration -
RenewDeadline - RetryPeriod after its write was stored.

*ReplicaSet.* The worker is a program counter: it asks the expectations (`StartSync`), lists
its cache (`ListPods`), releases and, if one live read (`CanAdopt`) allows it, adopts, then creates in batches or deletes, then
writes the status. `exp`, `uids` are the expectations and the deletions awaited. The pod informer has the
stages of the real one: `history` are the states of the API server that a watch or a list can still
show, `received` the one that the reflector has got to, `fifo` the deltas queued for each
pod, `cache` the store, and `notes` the notifications on their way to the handlers. `Receive` is a
watch event, `PodInformer` one delta of `HandleDeltas`. `Relist` lists at resource version "0": the
list may be older than what was received, queued deltas stay, what is listed comes as `Sync`
deltas (which may not be distributed to this controller's handlers), and tombstones are
queued for pods of the store only. Failed calls come in the kinds the code tells apart: refused,
timed out with or without effect, not found. `done` and `sure` are auxiliary: what the
controller has written itself, and whether anything has happened after which expectations
promise nothing: a sync that goes ahead because they expired unfulfilled, a restart with events
or announcements outstanding, a call that failed after it had taken effect, a list that is older than
what was received before it and so takes things back that were observed.

*Scheduler.* The three queues are sets, since which pod of a heap comes first depends on
priorities; `retries` are the goroutines of `MakeDefaultErrorFunc`, `bindings` those of
`scheduleOne`. `overtaken` stands for the comparison of `moveRequestCycle` with the pod's
cycle. The cache's linked list is the sequence `list`, and `changed` are the nodes whose
generation is newer than the last snapshot. `toldQueue` and `toldCache` are what the two filtered pod handlers were last told;
each moves to the API server's state at its own pace. `disturbances` counts what users,
node controllers and faults do; `sure` records whether anything has happened that the cache
cannot know of (a confirmation after the expiry, a failed binding that took effect, a
restart).

*Etcd3Store.* An action is one request to etcd together with what the code does with the
answer up to the next request; `Loop` is the body of `GuaranteedUpdate`'s loop. `history` is
what a watch cache may hold: any version the object ever had. An operation is a function
from objects to objects or an error, with the objects that meet its precondition.
`flying` are transactions whose sender has stopped waiting. `stale` data was encrypted with
an old key and must be written again. A no-op with a suggestion checks the value in etcd but
not the version that the caller expected; `AtomicStore.Accepts` says so.

## 3. Runs

The runs finish in less than five minutes each. Deadlock is not checked where the system
may stop: the queues after `ShutDown`, an informer after its `stopCh` is closed, a
controller or scheduler with nothing left to do, and anything whose bound on time, calls or
writes is used up. `ratelimiter` never stops.

| Run | Instance | What it shows |
|---|---|---|
| `workqueue` | 4 items, 3 workers, unbounded `Add`s | consistency of the two sets and the slice, one worker per item, no lost wakeup, draining at shutdown, every item is handed out, refinement of `AbstractWorkQueue` |
| `ratelimiter` | 6-bit durations, base 3, three limiters, 3 goroutines, 1 item, up to 7 failures | exact backoff past the width; `MaxOfRateLimiter.When` returns the worst case for the failures reported before it, however calls interleave |
| `delaying` | 2 items, 1 worker, 1 handler, delays 0-1, channel of 1, time 0-2 | refinement of `AbstractDelayingQueue`, the timer covers the heap, callers come back, delayed items are handed out, without the heartbeat |
| `cache` | 2 objects, 5 versions, 2 lists | queue consistency, no lost wakeup of `Pop`, `CacheExact`, `HasSynced`, convergence |
| `cache_not_exact` | 1 object, 2 lists | **violated**: finding 1 |
| `informer` | 1 object, 2 handlers, 1 of them resyncing, 3 versions, 2 lists, 2 resyncs | handlers are brought to the state of the cache, `OnAdd` first, deletions always reach them |
| `informer_unnotified` | as before, 2 versions, 1 resync | **violated**: finding 2 |
| `election` | 2 processes, lease 4, deadline 2, retry 1, timeout 2, time 0-6, with release | one leader unless an answer came too late, takeover only after a full `LeaseDuration` in any case, the inductive invariant |
| `replicaset` | 2 pod names, up to 2 replicas, up to 1 orphan at the start, 1 edit, 1 fault, lists up to 1 change older than the watch, 1 delta per pod and 1 notification waiting | a sync goes ahead only on a cache that shows the controller's own writes; the number of replicas is reached unless a relist left a ghost in the cache |
| `scheduler` | 2 pods, 0 to 2 nodes with room for 1, 1 disturbance | a pod is in one queue and on one node, none is lost, no overcommitment, no missed move request, exact snapshots, everything settles |
| `storage` | 2 callers, 3 calls, 1 fault, 3 objects, 5 operations | refinement of `AtomicStore`, no needless write, every call returns |
| `storage_precondition` | the same | **violated**: finding 3 |

### Bounds

* `workqueue` has more items than workers, so that signals outnumber parked workers,
  and more than one worker to wake. Nothing else is bounded.
* `delaying`: a channel of one entry is full as soon as one caller has sent; two callers
  suffice for every order of request, wait and merge. The last moment of the clock stands
  for all later ones: the timer still runs down. With delays of 1 the entries in the heap
  are due at the same time while the loop sleeps; that the timer covers entries with different
  times (`TimerArmed`) is proved, and was also checked with delays 1 and 2 (521,034
  states, without the liveness properties, which take longer).
* `cache`: with two lists there is a relist, which may be older than the watch; five
  versions allow an object to be created, updated, deleted and created again, around
  the relist, or two objects to change in turn. More lists repeat the second.
* `informer`: one object is enough, since handlers keep objects apart; a handler that
  resyncs and one that does not see every combination `distribute` tells apart.
* `ratelimiter`: with 6 bits and base 3, the largest duration is 31: the third doubling (24)
  fits and is cut off at `maxDelay` (20), the fourth (48) exceeds the float limit of 32. Three
  callers are two that report failures and one that forgets, or three that meet each limiter
  in a different order.
* `election`: the timings are the smallest that `NewLeaderElector` accepts (a deadline of 2 for
  a retry period of 1, a lease above it) for which an answer can be in time at all, and the
  client's timeout is the deadline, as kube-controller-manager sets it, so that answers that are too
  late for `timely` happen. Time runs to 6, two more than the lease, so that a takeover by expiry
  happens as well as one after a release. Without `timely`, `AtMostOneLeader` fails.
  `Symmetry` is sound because no property names a process
  and no liveness is checked; `View` (module `MCLeaderElection`) leaves out what no
  later step can depend on, and the comment there says why for each part. The proofs
  do not depend on either.
* `replicaset`: two names allow one pod to be created or deleted while another is in
  doubt, a surplus and a deficit. One edit and one fault each, in any order and at any
  point: users scale, relabel, delete; calls fail, watches break, the controller restarts.
  A list one change behind and one queued delta are enough to take back what was observed and
  to make a ghost: without `v >= received` in `sure` TLC refutes `ReadsOwnWrites`, and
  without `Ghosts = {}` it refutes `Converges`, within these bounds.
  One orphan at the start makes adoption happen within these bounds; two orphans take
  TLC past five minutes.
* `scheduler`: with two pods and two nodes for one pod each, a pod can be bound where
  another was to go; without nodes, and with one, pods wait for a move request. One
  disturbance of any kind at any point. A single pod on two nodes with three disturbances
  (950,000 states) shows no violation either, nor did two pods with two disturbances, an
  edit and a fault, without liveness (7.2 million states).
* `storage`: three calls are what it takes to delete and create an object again behind
  the back of a third; a transaction may land late in any of them.

### Fairness

Liveness is claimed only where the code's scheduling justifies it.

* Goroutines that can run do run (weak fairness of their steps), and sync handlers and
  event handlers return. Nobody has to call `Add`, `ShutDown` or close `stopCh`, a
  watch does not have to fail, and no heartbeat is relied upon; a resync only by
  `replicaset`, where nothing else wakes the controller after expectations expire.
* `delaying`: Go's select picks at random among ready cases, and a channel
  serves blocked senders in order; hence strong fairness for receiving from and
  sending to the channel.
* `cache`, `informer_unnotified`: Go's mutex does not starve who waits for it, hence
  strong fairness for lists, watch events and resyncs, which wait for `f.lock` while `Pop`
  takes and releases it. The API server answers and a watch delivers what was written,
  which is the doc's own proviso ("unless ... communication problems ... persistently
  thwart").
* `scheduler`: among pods of one priority the one that has waited longest is popped
  first, hence strong fairness for popping each pod. `replicaset`, `storage`: weak fairness of
  the worker, the informers, the expiry, and of etcd's answers.

### Findings

1. *A cache that is not an exact copy* (`cache_not_exact`). `Replace` looks for deletions in
   the indexer only. An object whose `Added` or `Sync` delta is queued but not popped, and which the relist
   does not have, is added to the cache afterwards and never removed. The same property fails
   in a second way: a relist uses `Sync` deltas, which are ignored while a deletion of the
   key is queued, so that an object that was deleted and created again around a broken
   watch is lost.
2. *Handlers that are not told* (`informer_unnotified`). Changes found by a relist are
   distributed to the listeners of the latest resync only.
3. *A precondition of an object that is gone* (`storage_precondition`). `GuaranteedUpdate`
   returns to etcd when `tryUpdate` fails on a suggestion, but not when the precondition does:
   after an object was deleted and created again, an update of the new one is refused on
   the strength of the old one. `AtomicStore.Mistake` is this case, and the refinement shows
   that it is the only one in which a suggestion changes the answer.

`CacheExact` says precisely how far 1 reaches: nothing but `Replace` loses a change,
it does so only in these two situations, and the next event about the object repairs it.
`NoGhostObjects` and `HandlersInformed` do the same for 2.

Two more disagreements are stated as definitions that TLC refutes, without a run of their
own. `NeverOverflows` (`RateLimiter`): "the backoff is capped such that 'calculated' value
never overflows" (`default_rate_limiters.go:96`), but `float64(math.MaxInt64)` is 2^63, and a
backoff of exactly 2^63 passes; it happens only for base delays that are powers of two
nanoseconds. `PopReturns` (`Reflector`): `Close` sets the flag and broadcasts without
`f.lock`, possibly between `Pop`'s check and its wait, and `Pop` does not return.

What finding 1 means for a controller shows in `ReplicaSet`: a replica whose addition is queued
when the watch breaks, and which is deleted before the list, stays in the cache as a ghost,
counts as a replica, and is not replaced (`Ghosts`; `Converges` excuses exactly this). And a list that
is older than what was received takes back creations that were already observed, so that
a sync with fulfilled expectations does not see its own pods.

Two things about leader election, for which the package comment promises no fencing. The
configuration does not bound how late an answer may come: with lease 15, deadline 10, retry 2 and a
timeout of 10 seconds, a leader counts its deadline from when it gets the answer, which may lie
past the end of the lease, and there are two leaders (`timely` is false then). And `release` updates
whatever object `LeaseLock` has read last, which an attempt still under way may have replaced by one
that names another holder: after a late answer it can clear the lease of the next leader.

Two more behaviours that no document speaks about, met while modelling: `DeletePod`
(`controller_utils.go:601`) treats "not found" as success, so that the expectation of that deletion
is not lowered if the notification came first and the set is not synced before it expires; and a
scheduler that restarts does not wait for its handlers, so that it may overcommit a node at first.

## 4. Proofs

The proofs hold for any sets of items, workers, keys and processes, any bounds, and any
timings that satisfy the named assumptions of the modules.

* **`WorkQueueProofs`**: `TypeCorrect`; `SingleProcessing` from `IInv`, which adds to
  `Stingy` that queue and dirty set agree (`SetsAgree`) and that `processing` is exactly what the workers
  hold (without it, a `Done` could take an item out of `processing` that somebody else
  processes); `NoLostWakeup` from `WakeInv`, which counts the workers that are awake
  against the items queued, for a finite set of workers, and with it `QueueDrained`; `ImplementsPromise`, the
  refinement of `AbstractWorkQueue`, step by step under `IInv`.
* **`DelayingQueueProofs`**: `DelayingIsWorkQueue` shows that every step of the delaying
  queue is a step of the work queue or leaves it alone, so that `DelayingSingleProcessing`
  follows from the theorems above; `DelayTypeCorrect`, with the channel's bound;
  `TimerAlwaysArmed`; `DelayingKeepsPromise`, the refinement of `AbstractDelayingQueue`. The
  mapping collects the requests from callers, channel and heap, so that the proof is about
  entries that move, of which there may be equal ones in several places: a step serves,
  merges or cancels a request only when its last copy goes. It needs `SendersKnown`: a worker
  that waits in `AddAfter` is past its sync handler (otherwise its next request would overwrite
  the one it is sending), and `stopCh` is closed only after the queue.
* **`RateLimiterProofs`**: `WorstCaseAnswered`, for any list of limiters and any number of
  goroutines. Its invariant follows each call through the loop: `ret` is at least what every
  limiter already asked requires after the failures reported before the call began, and
  no limiter yet to be asked has counted fewer. `BackoffIsExact`. Both are under the hypothesis
  `NeverJustTooLong` that no doubling of the base delay is 2^(Width-1), the one value that
  passes the code's comparison with `float64(math.MaxInt64)` and does not fit. It holds for every
  base delay that is not a power of two, such as the 5 ms of `DefaultControllerRateLimiter`
  (5,000,000 ns) and the base of the run; for the others finding `NeverOverflows` applies.
* **`InformerProofs`**, about `Reflector` and `SharedInformer`: `CacheTypeCorrect`;
  `CacheNeverLoses`, `CacheExact` from `CacheInv`, which adds that a write changes one object
  only, because the reflector's version moves past a whole write at a time; `NoLostPop`, that
  the queue holds exactly the keys with deltas, each once, and that `Pop` never waits while there
  is one (`PopNotAsleep`); `SyncedIsListed` from `SyncInv`, that the keys of the first list that are
  still to be popped are among the first `initialPopulationCount` of the queue.
  `InformerTypeCorrect`, `HandlersAreInformed`, `NoGhosts` and `AddsComeFirst` follow from
  `InformerInv`. It adds two things to the cache's invariant. `DeltasInv`: a `Deleted` delta
  follows a version that exists, which is due to `dedupDeltas` and `willObjectBeDeletedLocked`.
  `ListenersInv`: what is buffered for a listener leads, object by object, from what it has seen to
  the indexer, and every notification in the buffer, not only the first, is an addition exactly if
  its object is unknown by then; so that taking one from the front and distributing more at
  the end both keep it. After a resync it keeps only that lost objects are lost.
* **`Etcd3StoreProofs`**: `StoreIsAtomic`, the refinement of `AtomicStore`; `StoreTypeCorrect`;
  `NeverWritesNeedlessly`; all from `StoreInvariant`. The invariant says that a revision stands
  for one value only (`HistoryOK`), that what a call started from is such a version
  (`Version`), and that every transaction that is prepared or still flying may be carried out on
  that version and changes something (`Prepared`). Then a transaction that finds its revision
  finds the value it was decided for, however much later, and has the effect of its request on
  the current object (`TransactionEffect`); one lemma per action shows how its step looks
  to the caller. Without `Prepared` for flying transactions the invariant would not be
  inductive: they land after their call is over.
* **`SchedulerProofs`**: `QueuesDisjoint`, `PodsAreNotLost`, `CacheNotCorrupted` and
  `MovesAreSeen`, all from one inductive invariant (`SchedulerInvariant`) that leaves out what
  the nodes count. `NoPodLost` is not inductive, since an edit that is undone before the
  handler hears of it takes the excuse away; `Held` drops the excuse: a pending pod that
  the queue was ever told of is in hand. It rests on `Doomed` (a pod is dropped as being
  deleted only if it is), and `Bound` (a binding that returns without error was made).
  `Told` and `Confirmed` follow a pod's node from the API server through the
  handler to the cache; `Remembered` ties each attempt to the move requests since it began.
  `SchedulerFullInvariant` adds the accounts of the cache, and with it `SchedulerTypes`,
  `PodsCountOnce`, `NodesNotOvercommitted` and `SnapshotsAreExact`. For the snapshot, the
  nodes that changed are a prefix of the list (`moveNodeInfoToHead` is called whenever a
  generation changes), which is why the loop may stop at the first one that did not, and every
  other node is in the snapshot as it is in the cache. `NoOvercommit` is not inductive:
  a binding on its way will take room that the API server does not show. The invariant (`NInv`)
  says that a binding under way has its pod assumed where it binds it and, as long as `sure` holds,
  that every bound pod counts in the cache where it is bound, that no binding that was given up can still take effect,
  and that no more pods count on a node than fit, with the one about to be assumed.
* **`LeaderElectionProofs`**: `ElectionInvariant`, and from it `ElectionTypeCorrect`, `OneLeader` and
  `LeaseRespected`, for every configuration that `NewLeaderElector` accepts
  (`ConfigAssumption`) and every request timeout. The
  invariant is the conjunction of what each party may rely on: times lie in the past,
  versions identify what was stored, stamps are never reused, a record on its way was not
  seen by anybody, who sees the current record saw it after it was stored, a write that
  would be accepted was sent by the holder or after expiry; and, as long as answers are timely, a release
  that would be accepted was sent by the holder, an answer on its way finds the
  lease as it was written or is late (`AcksCurrent`), and a leader's deadline lies
  within the lease. There is one lemma per action.
* **`ReplicaSetProofs`**: `ReplicaSetTypes`; `SyncsReadOwnWrites` from `ExpectationsCover`, the
  account that expectations keep. `StructInv` follows every pod through the API server's states, the queued
  deltas, the store and the notifications: a pod goes once and its end comes last in each of them, it is
  announced once, and once its deltas are processed the store has it as the reflector last saw it
  (`Arrives`). Of a pod that is gone `Arrives` says nothing, because of the ghosts; the account does not need
  it. A relist that is not older keeps all this; one that is older does not, and clears `sure`. `Accounted` says
  that everything that the controller wrote and its cache does not show is expected:
  created pods that are on their way or about to be created do not outnumber the expected
  creations, and every deletion under way is awaited by uid; that without
  expectations nothing is outstanding; and that a list the worker holds was clean
  when it was made. It has to count calls not yet made, because `ExpectCreations` comes before
  the calls and a failed batch lowers what it skipped. A sync that is let through finds the counters at zero,
  and so a cache that shows every write. The inductive invariant `SureInv` is
  the types, always, and the rest as long as `sure` holds, which never comes back (`SureBefore`). A ReplicaSet that is gone
  stays gone, which is what makes the deletion of expectations harmless.

`timely` is not enforced by the code: `NewLeaderElector` asks for LeaseDuration >
RenewDeadline, and kube-controller-manager sets the client's timeout to RenewDeadline. With the default
15, 10 and 2 seconds it says that a write is answered within 3 seconds after it was stored. It is a
condition on what happened in a run, not on the configuration. `TakeoverWaits` needs it only for the
lease that `release` clears.

Only model-checked: liveness under fairness, which is out of the prover's reach
(`EventuallyProcessed`, `CallersReleased`, `DelayedHandedOut`, `Converges` of the cache and of the
ReplicaSet controller, `Settles`, `Returns`). Every safety property of a passing run is stated
by a theorem. `BackoffIsExact` without its hypothesis would be false, and that the hypothesis
holds for every base delay that is not a power of two is elementary but not proved here: it is an
induction over exponents.

## 5. What is not modelled

Within the modelled files: metrics, logging, errors of key functions, `AddIfNotPresent` and
the requeue of `Pop` (no informer sets `RetryOnError`), `Replace` without `knownObjects`,
paging, backoff between lists, resync periods as numbers, the end of the listeners,
`maybeReportTransition` and the health check of leader election, the locks kept in
annotations. `float64(baseDelay.Nanoseconds())` is exact: base delays above 2^53
nanoseconds, which would be rounded, are left out. `AddAfter` looks at `ShuttingDown` and enters its select in one
step. The resync goroutine of a reflector acts only while there is a listener with a resync period and a
watch is open. Processes of leader election share one clock: they are not paused, and their
clocks do not run at different rates.
The ReplicaSet controller runs with one ReplicaSet and one worker, without
status contents, readiness and `MinReadySeconds`, and pods do not fail or succeed (the other phases that
`IsPodActive` tells apart, `controller_utils.go:818`); a ReplicaSet does not come back under its name, and its
informer does not list again. In its pod informer the keys are popped in any order, the deltas of one
`Pop` are processed one by one, and a `Sync` that changes nothing is left out. The
scheduler runs without preemption, nominated pods, volumes, priorities and affinity; what
its predicates compute is a count of pods. Its handlers are told the newest state of a pod, never one in between; a
binding that failed took effect before the error or not at all, except after a restart, when it may still
arrive; the error function and the `PodConditionUpdater` are one step, and the error function does not remove
a node that the API server does not find (`factory.go:653`). The store has one key, no `List`, no `Watch` and no
leases, and of the preconditions the UID, not the resource version (`interfaces.go:143`).

Not modelled at all, with reasons per component in `PROJECT.json`: the watch cache, registry and
admission, the other controllers, the kubelet and the proxy, the command-line tools, cloud
providers, generated and vendored code.

## 6. Plan

Done so far: the queues, the cache, leader election, the ReplicaSet controller with its
expectations, the scheduler's queue and cache, and the atomicity of the store, with a theorem
for every safety property that the passing runs check. Next, in this
order:

1. `WatchCache`: the cyclic buffer and dispatch, refining the history that `Reflector` takes
   for granted and the suggestions that `Etcd3Store` takes from it.
2. `GarbageCollector`: the graph under events in any order, absent owners, foreground
   deletion.
3. `Store.Delete` of the registry with finalizers and graceful deletion, on top of
   `AtomicStore`.
