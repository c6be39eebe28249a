--------------------------- MODULE SchedulingQueue ---------------------------
(***************************************************************************)
(* The scheduler's PriorityQueue (pkg/scheduler/internal/queue): pods to   *)
(* be scheduled, pods that wait for their backoff, and pods that did not   *)
(* fit anywhere, which a move request brings back.                         *)
(*                                                                         *)
(* Abstractions.  The heaps are sets: which pod is first depends on its    *)
(* priority and age.  How long a backoff lasts and since when a pod is     *)
(* unschedulable is not kept: at any time any pod may still be backing     *)
(* off, or be there for long.  The numbers of scheduling cycles are only   *)
(* compared with moveRequestCycle, so that a flag replaces them: moved     *)
(* says that moveRequestCycle equals schedulingCycle, and a failed attempt *)
(* has its own flag for moveRequestCycle >= podSchedulingCycle.  Every     *)
(* addition to activeQ broadcasts under the queue's lock, so that Pop is   *)
(* an action that waits for a pod.  Nominated pods, and the end of the     *)
(* queue with the process, are left out.                                   *)
(***************************************************************************)
EXTENDS SchedulerObjects

VARIABLES
    activeQ, podBackoffQ, unschedulableQ,
    terminating,   \* pods whose object in the queue has a DeletionTimestamp
    moved,         \* a move request came in this scheduling cycle
    retries        \* failed attempts on their way back into the queue

queueVars == <<activeQ, podBackoffQ, unschedulableQ, terminating, moved, retries>>

QueueInit == /\ activeQ = {} /\ podBackoffQ = {} /\ unschedulableQ = {} /\ terminating = {}
             /\ moved = FALSE /\ retries = {}

\* The object of p that the queue holds is replaced by one that is being deleted or not.
StoreObject(p, dying) ==
    terminating' = IF dying THEN terminating \cup {p} ELSE terminating \ {p}

\* Add is for new pods; a pod that is in another queue is taken out of it.
Add(p, dying) ==
    /\ activeQ' = activeQ \cup {p}
    /\ unschedulableQ' = unschedulableQ \ {p} /\ podBackoffQ' = podBackoffQ \ {p}
    /\ StoreObject(p, dying)
    /\ UNCHANGED <<moved, retries>>

\* Mutant of AddUnschedulableIfNotPresent: only the unschedulable queue is looked at.
AddUnschedulableBlindly(r) ==
    /\ \/ r.pod \in unschedulableQ /\ UNCHANGED <<podBackoffQ, unschedulableQ, terminating>>
       \/ /\ r.pod \notin unschedulableQ
          /\ StoreObject(r.pod, r.dying)
          /\ podBackoffQ' = podBackoffQ \cup (IF r.moved THEN {r.pod} ELSE {})
          /\ unschedulableQ' = unschedulableQ \cup (IF r.moved THEN {} ELSE {r.pod})
    /\ UNCHANGED <<activeQ, moved>>

\* Mutant of AddUnschedulableIfNotPresent: move requests are not remembered.
AddUnschedulableForgetful(r) ==
    /\ \/ /\ r.pod \in unschedulableQ \cup activeQ \cup podBackoffQ
          /\ UNCHANGED <<unschedulableQ, terminating>>
       \/ /\ r.pod \notin unschedulableQ \cup activeQ \cup podBackoffQ
          /\ StoreObject(r.pod, r.dying)
          /\ unschedulableQ' = unschedulableQ \cup {r.pod}
    /\ UNCHANGED <<activeQ, podBackoffQ, moved>>

\* An attempt has failed: the pod waits for a change of the cluster, or, if a move
\* request came since the attempt's cycle, only for its backoff.  A pod that is in a
\* queue stays there.
AddUnschedulableIfNotPresent(r) ==
    /\ \/ /\ r.pod \in unschedulableQ \cup activeQ \cup podBackoffQ
          /\ UNCHANGED <<podBackoffQ, unschedulableQ, terminating>>
       \/ /\ r.pod \notin unschedulableQ \cup activeQ \cup podBackoffQ
          /\ StoreObject(r.pod, r.dying)
          /\ \/ /\ r.moved /\ podBackoffQ' = podBackoffQ \cup {r.pod}
                /\ UNCHANGED unschedulableQ
             \/ /\ ~r.moved /\ unschedulableQ' = unschedulableQ \cup {r.pod}
                /\ UNCHANGED podBackoffQ
    /\ UNCHANGED <<activeQ, moved>>

\* flushBackoffQCompleted: the pods of S have completed their backoff.
flushBackoffQCompleted(S) ==
    /\ S \subseteq podBackoffQ
    /\ podBackoffQ' = podBackoffQ \ S /\ activeQ' = activeQ \cup S
    /\ UNCHANGED <<unschedulableQ, terminating, moved, retries>>

\* Pop starts a new scheduling cycle.
Pop(p) == /\ p \in activeQ
          /\ activeQ' = activeQ \ {p} /\ moved' = FALSE
          /\ UNCHANGED <<podBackoffQ, unschedulableQ, terminating, retries>>

\* Update: a pod that backs off, that became different while unschedulable, or that is in
\* no queue becomes active.
Update(p, updated, dying) ==
    /\ \/ /\ p \in activeQ
          /\ UNCHANGED <<activeQ, podBackoffQ, unschedulableQ>>
       \/ /\ p \in podBackoffQ \ activeQ
          /\ podBackoffQ' = podBackoffQ \ {p} /\ activeQ' = activeQ \cup {p}
          /\ UNCHANGED unschedulableQ
       \/ /\ p \in unschedulableQ \ (activeQ \cup podBackoffQ) /\ updated
          /\ unschedulableQ' = unschedulableQ \ {p} /\ activeQ' = activeQ \cup {p}
          /\ UNCHANGED podBackoffQ
       \/ /\ p \in unschedulableQ \ (activeQ \cup podBackoffQ) /\ ~updated
          /\ UNCHANGED <<activeQ, podBackoffQ, unschedulableQ>>
       \/ /\ p \notin unschedulableQ \cup activeQ \cup podBackoffQ
          /\ activeQ' = activeQ \cup {p}
          /\ UNCHANGED <<podBackoffQ, unschedulableQ>>
    /\ StoreObject(p, dying)
    /\ UNCHANGED <<moved, retries>>

\* Delete looks into the other queues only if the pod is not active.
Delete(p) ==
    /\ \/ /\ p \in activeQ /\ activeQ' = activeQ \ {p}
          /\ UNCHANGED <<podBackoffQ, unschedulableQ>>
       \/ /\ p \notin activeQ
          /\ podBackoffQ' = podBackoffQ \ {p} /\ unschedulableQ' = unschedulableQ \ {p}
          /\ UNCHANGED activeQ
    /\ UNCHANGED <<terminating, moved, retries>>

\* movePodsToActiveQueue, for the pods of S: those still backing off go to podBackoffQ.
\* The request concerns the attempts under way too.
movePodsToActiveQueue(S) ==
    /\ \E backingOff \in SUBSET S :
         /\ podBackoffQ' = podBackoffQ \cup backingOff
         /\ activeQ' = activeQ \cup (S \ backingOff)
    /\ unschedulableQ' = unschedulableQ \ S
    /\ moved' = TRUE /\ retries' = {[r EXCEPT !.moved = TRUE] : r \in retries}
    /\ UNCHANGED terminating

MoveAllToActiveQueue == movePodsToActiveQueue(unschedulableQ)

\* AssignedPodAdded and AssignedPodUpdated move the pods whose affinity terms match.
AssignedPodAdded == \E S \in SUBSET unschedulableQ : movePodsToActiveQueue(S)

\* flushUnschedulableQLeftover: the pods of S have been unschedulable for a minute.
flushUnschedulableQLeftover(S) == S \subseteq unschedulableQ /\ movePodsToActiveQueue(S)

Retry == [pod: Pods, moved: BOOLEAN, overtaken: BOOLEAN, got: BOOLEAN, dying: BOOLEAN]

QueueTypeOK == /\ activeQ \subseteq Pods /\ podBackoffQ \subseteq Pods
               /\ unschedulableQ \subseteq Pods /\ terminating \subseteq Pods
               /\ moved \in BOOLEAN /\ retries \subseteq Retry

\* What Delete and the comment on Add rely on: a pod is in one of the three queues at most.
InOneQueue == /\ activeQ \cap podBackoffQ = {}
              /\ activeQ \cap unschedulableQ = {}
              /\ podBackoffQ \cap unschedulableQ = {}
=============================================================================
