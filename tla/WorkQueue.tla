----------------------------- MODULE WorkQueue -----------------------------
(***************************************************************************)
(* The work queue of client-go (util/workqueue/queue.go, type Type) and    *)
(* the worker goroutines that drain it.                                    *)
(*                                                                         *)
(* Every method of the queue runs under q.cond.L, so a method is one       *)
(* action.  The one exception is Get, which gives the lock up in           *)
(* cond.Wait(): a call of Get is a sequence of attempts, each of them one  *)
(* action, that starts anew after every wakeup.                            *)
(*                                                                         *)
(* Add may be called by anybody at any time: by an event handler, by the   *)
(* delaying queue, or by a worker for the item it is processing.  Metrics  *)
(* are left out.                                                           *)
(***************************************************************************)
EXTENDS Naturals, Sequences, FiniteSets

CONSTANTS Items,    \* the keys that may be queued
          Workers,  \* the goroutines that call Get and Done in a loop
          NoItem    \* what a worker holds between Done and the next Get

ASSUME WorkQueueAssumption == /\ NoItem \notin Items
                              /\ IsFiniteSet(Workers)

VARIABLES queue,        \* q.queue: the order in which items are handed out
          dirty,        \* q.dirty: the items that need processing
          processing,   \* q.processing: the items handed out and not done
          shuttingDown, \* q.shuttingDown
          pc,           \* where each worker is
          held          \* the item each worker is processing

queueVars == <<queue, dirty, processing, shuttingDown>>
vars == <<queue, dirty, processing, shuttingDown, pc, held>>

\* A worker is about to attempt a Get (for the first time, or after a wakeup),
\* parked in cond.Wait(), processing an item, or gone.
PC == {"get", "wait", "work", "exit"}

TypeOK == /\ queue \in Seq(Items)
          /\ dirty \in SUBSET Items
          /\ processing \in SUBSET Items
          /\ shuttingDown \in BOOLEAN
          /\ pc \in [Workers -> PC]
          /\ held \in [Workers -> Items \cup {NoItem}]

Elements(s) == {s[k] : k \in DOMAIN s}
Distinct(s) == \A j, k \in DOMAIN s : s[j] = s[k] => j = k
At(l)       == {w \in Workers : pc[w] = l}

-----------------------------------------------------------------------------
\* Mutant of Signal: nobody is woken.
SignalNobody(p) == pc' = p

\* cond.Signal(), when the workers are at p: one of the parked goroutines, if
\* there is any, becomes runnable and will attempt its Get again.
Signal(p) ==
  LET parked == {w \in Workers : p[w] = "wait"}
  IN IF parked = {} THEN pc' = p
     ELSE \E w \in parked : pc' = [p EXCEPT ![w] = "get"]

\* cond.Broadcast(): every parked goroutine becomes runnable.
Broadcast == pc' = [w \in Workers |-> IF pc[w] = "wait" THEN "get" ELSE pc[w]]

\* Mutant of MarkDirty: q.processing is not consulted.
MarkDirtyAlwaysQueued(i) ==
  /\ dirty' = dirty \cup {i}
  /\ queue' = Append(queue, i)
  /\ Signal(pc)
  /\ UNCHANGED <<processing, shuttingDown, held>>

\* Mutant of MarkDirty: the newest item is handed out first.
MarkDirtyAtFront(i) ==
  /\ dirty' = dirty \cup {i}
  /\ IF i \in processing
     THEN UNCHANGED <<queue, pc>>
     ELSE queue' = <<i>> \o queue /\ Signal(pc)
  /\ UNCHANGED <<processing, shuttingDown, held>>

\* An Add that is not ignored: the item is marked dirty, and it is queued
\* unless a worker is processing it, in which case Done will queue it.
MarkDirty(i) ==
  /\ dirty' = dirty \cup {i}
  /\ IF i \in processing
     THEN UNCHANGED <<queue, pc>>
     ELSE queue' = Append(queue, i) /\ Signal(pc)
  /\ UNCHANGED <<processing, shuttingDown, held>>

Add(i) ==
  IF shuttingDown \/ i \in dirty THEN UNCHANGED vars ELSE MarkDirty(i)

\* One attempt of Get: it parks, tells the worker to exit, or takes the head.
GetWait(w) ==
  /\ pc[w] = "get"
  /\ queue = <<>> /\ ~shuttingDown
  /\ pc' = [pc EXCEPT ![w] = "wait"]
  /\ UNCHANGED <<queueVars, held>>

\* Mutant of GetShutdown: the queue is not drained first.
GetShutdownAtOnce(w) ==
  /\ pc[w] = "get" /\ shuttingDown
  /\ pc' = [pc EXCEPT ![w] = "exit"]
  /\ UNCHANGED <<queueVars, held>>

GetShutdown(w) ==
  /\ pc[w] = "get"
  /\ queue = <<>> /\ shuttingDown
  /\ pc' = [pc EXCEPT ![w] = "exit"]
  /\ UNCHANGED <<queueVars, held>>

\* Mutant of GetItem: the item stays dirty while it is processed.
GetItemStillDirty(w) ==
  /\ pc[w] = "get"
  /\ queue # <<>>
  /\ queue' = Tail(queue)
  /\ processing' = processing \cup {Head(queue)}
  /\ held' = [held EXCEPT ![w] = Head(queue)]
  /\ pc' = [pc EXCEPT ![w] = "work"]
  /\ UNCHANGED <<dirty, shuttingDown>>

GetItem(w) ==
  /\ pc[w] = "get"
  /\ queue # <<>>
  /\ queue' = Tail(queue)
  /\ processing' = processing \cup {Head(queue)}
  /\ dirty' = dirty \ {Head(queue)}
  /\ held' = [held EXCEPT ![w] = Head(queue)]
  /\ pc' = [pc EXCEPT ![w] = "work"]
  /\ UNCHANGED shuttingDown

Get(w) == GetWait(w) \/ GetShutdown(w) \/ GetItem(w)

\* Mutant of Done: what became dirty while it was processed is dropped.
DoneNoRequeue(w) ==
  /\ pc[w] = "work"
  /\ processing' = processing \ {held[w]}
  /\ held' = [held EXCEPT ![w] = NoItem]
  /\ pc' = [pc EXCEPT ![w] = "get"]
  /\ UNCHANGED <<queue, dirty, shuttingDown>>

\* The worker finishes its item and goes back to Get.  An item that became
\* dirty in the meantime is queued again, and a parked worker is woken for it.
Done(w) ==
  /\ pc[w] = "work"
  /\ processing' = processing \ {held[w]}
  /\ held' = [held EXCEPT ![w] = NoItem]
  /\ LET p == [pc EXCEPT ![w] = "get"]
     IN IF held[w] \in dirty
        THEN queue' = Append(queue, held[w]) /\ Signal(p)
        ELSE pc' = p /\ UNCHANGED queue
  /\ UNCHANGED <<dirty, shuttingDown>>

ShutDown ==
  /\ shuttingDown' = TRUE
  /\ Broadcast
  /\ UNCHANGED <<queue, dirty, processing, held>>

Init ==
  /\ queue = <<>>
  /\ dirty = {}
  /\ processing = {}
  /\ shuttingDown = FALSE
  /\ pc = [w \in Workers |-> "get"]
  /\ held = [w \in Workers |-> NoItem]

Next ==
  \/ \E i \in Items : Add(i)
  \/ \E w \in Workers : GetWait(w)
  \/ \E w \in Workers : GetShutdown(w)
  \/ \E w \in Workers : GetItem(w)
  \/ \E w \in Workers : Done(w)
  \/ ShutDown

Spec == Init /\ [][Next]_vars

\* A runnable goroutine is eventually scheduled, and a sync handler returns.
\* Nobody has to call Add or ShutDown.
Fairness == \A w \in Workers : WF_vars(Get(w)) /\ WF_vars(Done(w))

FairSpec == Spec /\ Fairness

-----------------------------------------------------------------------------
(* Properties *)

\* The comments on Type.queue and Type.dirty: every queued item is dirty and
\* not being processed and is queued once, and every dirty item is queued or
\* will be queued by the Done of the worker that is processing it.
QueueConsistent ==
  /\ Elements(queue) \subseteq dirty \ processing
  /\ dirty \subseteq Elements(queue) \cup processing
  /\ Distinct(queue)

\* doc.go, "Stingy": no two workers ever process the same item, however often
\* it is added, finished and added again.
Stingy ==
  \A v, w \in Workers : v # w /\ held[v] \in Items => held[v] # held[w]

\* q.processing is what the workers hold: exactly the workers between Get and
\* Done hold an item, and these items are the ones being processed.
HeldConsistent ==
  /\ \A w \in Workers : pc[w] = "work" <=> held[w] \in Items
  /\ \A i \in Items : i \in processing <=> \E w \in Workers : held[w] = i

\* The inductive invariant behind Stingy.
IInv == TypeOK /\ QueueConsistent /\ HeldConsistent /\ Stingy

\* No wakeup is lost: while some worker is parked in cond.Wait(), or has been
\* told to exit, every queued item has a worker of its own that is awake and
\* will look at the queue.  (Signal is called once per queued item.)
EnoughAwake ==
  At("wait") \cup At("exit") # {} => Len(queue) <= Cardinality(At("get"))

\* Workers exit only after ShutDown, and then none is parked any more.
ParkedConsistent ==
  /\ At("exit") # {} => shuttingDown
  /\ shuttingDown => At("wait") = {}

\* The inductive invariant behind EnoughAwake and DrainedAtExit.
WakeInv == IInv /\ ParkedConsistent /\ EnoughAwake

\* ShutDown: the workers are "instructed to exit" only once the queue is
\* drained, also of what is made dirty and queued again after ShutDown.
DrainedAtExit ==
  (Workers # {} /\ At("exit") = Workers) => dirty = {} /\ processing = {}

\* doc.go, "Fair": every item that is added is eventually handed out, even if
\* other items are added over and over, and also after ShutDown.
EventuallyProcessed == \A i \in Items : (i \in dirty) ~> (i \notin dirty)

\* The queue keeps the promises of the package comment.
Promise == INSTANCE AbstractWorkQueue
             WITH pending <- dirty, active <- held, closed <- shuttingDown

KeepsPromise == Promise!Spec

=============================================================================
