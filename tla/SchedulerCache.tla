--------------------------- MODULE SchedulerCache ---------------------------
(***************************************************************************)
(* The scheduler's cache (pkg/scheduler/internal/cache): the pods on each  *)
(* node, those that the informer has confirmed and those that are only     *)
(* assumed, and the snapshot the algorithm works on, which is brought up   *)
(* to date from a list of nodes kept in the order of their last changes.   *)
(*                                                                         *)
(* Abstractions.  A pod is its UID, and a NodeInfo is whether the node     *)
(* object is known and which pods count on it.  Generations are compared   *)
(* with the snapshot's only, and a change gives a node the highest one, so *)
(* that the set changed of the nodes above the snapshot replaces them.     *)
(* The deadline of an assumed pod is any time after FinishBinding.  Image  *)
(* states are left out, and the node tree is the nodes that have an object.*)
(***************************************************************************)
EXTENDS SchedulerObjects, SequencesExt

VARIABLES
    podStates,   \* for each pod its node or NoNode, and whether it is assumed and
                 \* its binding finished
    nodes,       \* info: the NodeInfo of each node; list: headNode and its successors;
                 \* changed: nodes with a generation above the snapshot's
    snapshot     \* NodeInfoSnapshot: for each node, whether it is there and its pods

cacheVars == <<podStates, nodes, snapshot>>

NoState == [node |-> NoNode, assumed |-> FALSE, finished |-> FALSE]
Assumed(p) == podStates[p].assumed
Cached(p) == podStates[p].node # NoNode

\* The names in cache.nodes.
Listed(c) == ToSet(c.list)

\* A node is unlinked from the list; it is in it once at most.
Unlinked(list, n) ==
    IF n \in ToSet(list) THEN RemoveAt(list, CHOOSE i \in DOMAIN list : list[i] = n) ELSE list

\* Mutant of MoveToHead: the place in the list stays.
MoveNowhere(list, n) ==
    IF \E i \in DOMAIN list : list[i] = n THEN list ELSE Append(list, n)

\* moveNodeInfoToHead, for a node in the list or a new one.
MoveToHead(list, n) == <<n>> \o Unlinked(list, n)

\* What is done to a NodeInfo gives it a new generation.
Touched(c, n, i) == [info |-> [c.info EXCEPT ![n] = i], list |-> MoveToHead(c.list, n),
                     changed |-> c.changed \cup {n}]
Dropped(c, n, i) == [info |-> [c.info EXCEPT ![n] = i], list |-> Unlinked(c.list, n),
                     changed |-> c.changed \ {n}]

\* A NodeInfo without object and pods is removed from the cache.
Kept(c, n, i) == IF i.node \/ i.pods # {} THEN Touched(c, n, i) ELSE Dropped(c, n, i)

addPod(c, p, n) == Touched(c, n, [c.info[n] EXCEPT !.pods = @ \cup {p}])
removePod(c, p, n) == Kept(c, n, [c.info[n] EXCEPT !.pods = @ \ {p}])

\* removePod fails if the pod is not where it is said to be.
Removable(c, p, n) == n \in Listed(c) /\ p \in c.info[n].pods

\* AssumePod refuses a pod that is in the cache.
CanAssume(p) == ~Cached(p)
AssumePod(p, n) ==
    /\ nodes' = addPod(nodes, p, n)
    /\ podStates' = [podStates EXCEPT ![p] = [node |-> n, assumed |-> TRUE, finished |-> FALSE]]

\* Mutant of Finished: the deadline is not set.
FinishedForever(ps, p) == ps

\* FinishBinding: from now on the assumption may expire.
Finished(ps, p) == IF ps[p].assumed THEN [ps EXCEPT ![p].finished = TRUE] ELSE ps

\* ForgetPod, right after FinishBinding: only an assumed pod on the same node is forgotten.
FinishAndForget(p, n) ==
    LET ps == Finished(podStates, p) IN
    \/ /\ ps[p].assumed /\ ps[p].node = n /\ Removable(nodes, p, n)
       /\ nodes' = removePod(nodes, p, n)
       /\ podStates' = [ps EXCEPT ![p] = NoState]
    \/ /\ ~(ps[p].assumed /\ ps[p].node = n /\ Removable(nodes, p, n))
       /\ podStates' = ps /\ UNCHANGED nodes

\* Mutant of AddPod: a pod assumed on another node is not moved.
AddPodWhereAssumed(p, n) ==
    \/ /\ Assumed(p)
       /\ podStates' = [podStates EXCEPT ![p] = [NoState EXCEPT !.node = podStates[p].node]]
       /\ UNCHANGED nodes
    \/ /\ ~Assumed(p) /\ ~Cached(p)
       /\ nodes' = addPod(nodes, p, n)
       /\ podStates' = [podStates EXCEPT ![p] = [NoState EXCEPT !.node = n]]
    \/ ~Assumed(p) /\ Cached(p) /\ UNCHANGED <<podStates, nodes>>

\* Mutant of AddPod: a pod assumed on another node counts there too.
AddPodTwice(p, n) ==
    \/ /\ Assumed(p) \/ ~Cached(p)
       /\ nodes' = addPod(nodes, p, n)
       /\ podStates' = [podStates EXCEPT ![p] = [NoState EXCEPT !.node = n]]
    \/ ~Assumed(p) /\ Cached(p) /\ UNCHANGED <<podStates, nodes>>

\* AddPod: an assumption is confirmed, on another node than it was made for if need be; an
\* expired one is added back.
AddPod(p, n) ==
    \/ /\ Assumed(p) /\ podStates[p].node = n
       /\ podStates' = [podStates EXCEPT ![p] = [NoState EXCEPT !.node = n]]
       /\ UNCHANGED nodes
    \/ /\ Assumed(p) /\ podStates[p].node # n
       /\ nodes' = addPod(removePod(nodes, p, podStates[p].node), p, n)
       /\ podStates' = [podStates EXCEPT ![p] = [NoState EXCEPT !.node = n]]
    \/ /\ ~Assumed(p) /\ ~Cached(p)
       /\ nodes' = addPod(nodes, p, n)
       /\ podStates' = [podStates EXCEPT ![p] = [NoState EXCEPT !.node = n]]
    \/ /\ ~Assumed(p) /\ Cached(p) /\ UNCHANGED <<podStates, nodes>>

\* UpdatePod: the NodeInfo loses the old object and gets the new one.  (A pod that is found
\* on another node ends the process: see NotCorrupted.)
UpdatePod(p, n) ==
    /\ podStates' = podStates
    /\ nodes' = IF Cached(p) /\ ~Assumed(p) /\ Removable(nodes, p, n)
                THEN addPod(removePod(nodes, p, n), p, n) ELSE nodes

\* RemovePod ignores a pod that was never confirmed.
RemovePod(p) ==
    LET n == podStates[p].node IN
    \/ /\ Cached(p) /\ ~Assumed(p) /\ Removable(nodes, p, n)
       /\ nodes' = removePod(nodes, p, n)
       /\ podStates' = [podStates EXCEPT ![p] = NoState]
    \/ /\ ~(Cached(p) /\ ~Assumed(p) /\ Removable(nodes, p, n))
       /\ UNCHANGED <<podStates, nodes>>

\* Mutant of ExpirePod: the binding need not have finished.
ExpirePodEarly(p) ==
    /\ Assumed(p)
    /\ nodes' = removePod(nodes, p, podStates[p].node)
    /\ podStates' = [podStates EXCEPT ![p] = NoState]

\* cleanupAssumedPods: the binding of p has finished long ago and nobody confirmed it.
ExpirePod(p) ==
    /\ Assumed(p) /\ podStates[p].finished /\ Removable(nodes, p, podStates[p].node)
    /\ nodes' = removePod(nodes, p, podStates[p].node)
    /\ podStates' = [podStates EXCEPT ![p] = NoState]

\* AddNode and UpdateNode.
AddNode(n) == nodes' = Touched(nodes, n, [nodes.info[n] EXCEPT !.node = TRUE])

\* RemoveNode keeps the NodeInfo while pods count on it.
RemoveNode(n) == nodes' = IF n \in Listed(nodes)
                          THEN Kept(nodes, n, [nodes.info[n] EXCEPT !.node = FALSE]) ELSE nodes

\* UpdateNodeInfoSnapshot: from the head on, the nodes above the snapshot's generation are
\* copied, if they have an object, up to the first that is not; superfluous entries
\* are removed if there are more of them than nodes.
UpdateNodeInfoSnapshot ==
    LET fresh == {i \in DOMAIN nodes.list : \A j \in 1..i : nodes.list[j] \in nodes.changed}
        copied == {nodes.list[i] : i \in fresh} \cap {n \in Nodes : nodes.info[n].node}
        copy == [n \in Nodes |-> IF n \in copied THEN [in |-> TRUE, pods |-> nodes.info[n].pods]
                                 ELSE snapshot[n]]
        tooMany == Cardinality({n \in Nodes : copy[n].in}) > Len(nodes.list)
    IN /\ snapshot' = [n \in Nodes |-> IF tooMany /\ n \notin Listed(nodes)
                                       THEN [in |-> FALSE, pods |-> {}] ELSE copy[n]]
       /\ nodes' = [nodes EXCEPT !.changed = {}]

PodState == [node: Nodes \cup {NoNode}, assumed: BOOLEAN, finished: BOOLEAN]

CacheTypeOK ==
    /\ podStates \in [Pods -> PodState]
    /\ nodes.info \in [Nodes -> [node: BOOLEAN, pods: SUBSET Pods]]
    /\ nodes.list \in Seq(Nodes) /\ nodes.changed \subseteq Nodes
    /\ snapshot \in [Nodes -> [in: BOOLEAN, pods: SUBSET Pods]]

\* The two ways in which the cache counts agree: every pod counts on the node of its
\* podState and on no other, so that no room is lost or given twice however assumptions
\* are confirmed elsewhere, forgotten or expire, and a node is in the list, once, if it
\* has an object or pods (addPod, removePod, RemoveNode).
CountedOnce ==
    /\ \A n \in Nodes : nodes.info[n].pods = {p \in Pods : podStates[p].node = n}
    /\ Listed(nodes) = {n \in Nodes : nodes.info[n].node \/ nodes.info[n].pods # {}}
    /\ Cardinality(Listed(nodes)) = Len(nodes.list)
=============================================================================
