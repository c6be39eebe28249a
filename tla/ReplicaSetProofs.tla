------------------------- MODULE ReplicaSetProofs -------------------------
(***************************************************************************)
(* The ReplicaSet controller reads its own writes: for any finite set of   *)
(* pod names and any bounds, expectations that are fulfilled mean that the *)
(* cache shows every pod the controller has created and no pod it has      *)
(* deleted.                                                                *)
(***************************************************************************)
EXTENDS ReplicaSet, FiniteSetTheorems, TLAPS

-----------------------------------------------------------------------------
(* Types *)

States == [Pods -> PodObject]
Expectations == [set : BOOLEAN, add : Int, del : Int, expired : BOOLEAN]

\* The batch of slowStartBatch never is larger than what remains.
BatchOK == IF pc = "create"
           THEN batch.calls <= batch.size /\ batch.size <= batch.remaining /\ batch.size > 0
           ELSE batch = NoBatch

\* What a sync has to do depends on how far it is.
TodoOK == todo \subseteq (IF pc = "delete" THEN {"delete"} ELSE {"adopt", "release"}) \X Pods

TypeInv == TypeOK /\ BatchOK /\ TodoOK

LEMMA Objects ==
  /\ NoPod \in PodObject /\ NoRS \in RSObject
  /\ NoExpectations \in Expectations
  /\ NoBatch \in [size: Nat, calls: Nat, bad: Nat, remaining: Nat]
BY BoundsAssumption DEF NoPod, PodObject, NoRS, RSObject, NoExpectations, Expectations, NoBatch

LEMMA PodObjects ==
  ASSUME NEW o \in PodObject
  PROVE  /\ [o EXCEPT !.match = ~@] \in PodObject
         /\ \A b \in BOOLEAN : [o EXCEPT !.own = b] \in PodObject
         /\ \A ph \in {"terminating", "gone"} : [o EXCEPT !.phase = ph] \in PodObject
         /\ Stored(o) \in PodObject
<1>1. (~o.match) \in BOOLEAN
  OBVIOUS
<1>2. QED
  BY <1>1, Objects DEF PodObject, Stored

LEMMA WritePodType ==
  ASSUME TypeOK, NEW p \in Pods, NEW o \in PodObject, WritePod(p, o)
  PROVE  api' \in States /\ history' \in Seq(States) /\ received \in 1 .. Len(history')
<1>1. api \in States /\ history \in Seq(States) /\ received \in 1 .. Len(history)
  BY DEF TypeOK, States
<1>2. api' \in States
  BY <1>1, PodObjects DEF WritePod, States
<1>3. history' = history \/ history' = Append(history, api')
  BY DEF WritePod
<1>4. QED
  BY <1>1, <1>2, <1>3

\* A sequence with a state added, in which older states may have been changed.
LEMMA WriteNewPodType ==
  ASSUME TypeOK, NEW p \in Pods, NEW o \in PodObject, WriteNewPod(p, o)
  PROVE  /\ api' \in States /\ history' \in Seq(States) /\ received \in 1 .. Len(history')
         /\ Len(history) \in Nat /\ Len(history') = Len(history) + 1
         /\ history'[Len(history) + 1] = api' /\ api' = [api EXCEPT ![p] = o]
         /\ \A i \in 1 .. Len(history) : history'[i] = [history[i] EXCEPT ![p] = NoPod]
<1> DEFINE n == Len(history)
           older == [i \in 1 .. n |-> [history[i] EXCEPT ![p] = NoPod]]
<1>1. api \in States /\ history \in Seq(States) /\ received \in 1 .. n /\ n \in Nat
  BY DEF TypeOK, States
<1>2. api' \in States /\ api' = [api EXCEPT ![p] = o]
  BY <1>1 DEF WriteNewPod, States
<1>3. history' = Append(older, api')
  <2>1. DOMAIN history = 1 .. n
    BY <1>1
  <2>2. history' = Append([i \in DOMAIN history |-> [history[i] EXCEPT ![p] = NoPod]], api')
    BY DEF WriteNewPod
  <2>3. QED
    BY <2>1, <2>2, Zenon
<1>4. \A i \in 1 .. n : [history[i] EXCEPT ![p] = NoPod] \in States
  BY <1>1, Objects DEF States
<1>5. older \in Seq(States) /\ Len(older) = n
  BY <1>1, <1>4
<1>6. \A i \in 1 .. n : older[i] = [history[i] EXCEPT ![p] = NoPod]
  OBVIOUS
<1> HIDE DEF older
<1>7. history' \in Seq(States) /\ Len(history') = n + 1 /\ history'[n + 1] = api'
  BY <1>1, <1>2, <1>3, <1>5
<1>8. \A i \in 1 .. n : history'[i] = older[i]
  BY <1>1, <1>2, <1>3, <1>5
<1>9. QED
  BY <1>1, <1>2, <1>6, <1>7, <1>8

LEMMA WriteRSType ==
  ASSUME TypeOK, NEW r \in RSObject, WriteRS(r)
  PROVE  rs' \in RSObject /\ rsWatch' \in Seq(RSObject)
BY DEF TypeOK, WriteRS

LEMMA EditFault ==
  ASSUME TypeOK
  PROVE  (Edit => edits' \in 0 .. MaxEdits) /\ (Fault => faults' \in 0 .. MaxFaults)
BY BoundsAssumption DEF TypeOK, Edit, Fault

LEMMA NotificationType ==
  ASSUME NEW p \in Pods, NEW old \in PodObject, NEW new \in PodObject
  PROVE  /\ Notification(p, old, new) \in Notes
         /\ Notification(p, old, new).pod = p /\ Notification(p, old, new).obj = new
         /\ Notification(p, old, new).kind = "add" => old.phase = "none"
         /\ Notification(p, old, new).kind = "delete" => new.phase = "gone"
<1> DEFINE kind == CASE new.phase = "gone" -> "delete"
                     [] new.phase # "gone" /\ old.phase = "none" -> "add"
                     [] OTHER -> "update"
<1>1. /\ kind \in {"add", "update", "delete"}
      /\ kind = "add" => old.phase = "none"
      /\ kind = "delete" => new.phase = "gone"
  OBVIOUS
<1> HIDE DEF kind
<1>2. Notification(p, old, new) = [kind |-> kind, pod |-> p, old |-> old, obj |-> new]
  BY DEF Notification, kind
<1>3. QED
  BY <1>1, <1>2 DEF Notes

LEMMA LowerType ==
  ASSUME TypeOK, NEW a \in Int, NEW d \in Int, LowerExpectations(a, d)
  PROVE  /\ exp' \in Expectations
         /\ exp'.set = exp.set
         /\ exp.set => exp'.add = exp.add - a /\ exp'.del = exp.del - d
         /\ ~exp.set => exp' = exp
<1>1. exp \in Expectations
  BY DEF TypeOK, Expectations
<1>2. exp' = IF exp.set THEN [exp EXCEPT !.add = exp.add - a, !.del = exp.del - d] ELSE exp
  BY <1>1 DEF LowerExpectations, Expectations
<1>3. exp.add - a \in Int /\ exp.del - d \in Int
  BY <1>1 DEF Expectations
<1>4. QED
  BY <1>1, <1>2, <1>3 DEF Expectations

LEMMA FinitePods == ASSUME NEW S \in SUBSET Pods PROVE IsFiniteSet(S) /\ Cardinality(S) \in Nat
BY PodsAssumption, FS_Subset, FS_CardinalityType

LEMMA DeletionObservedType ==
  ASSUME TypeOK, NEW p \in Pods, DeletionObserved({p})
  PROVE  /\ exp' \in Expectations /\ uids' = uids \ {p}
         /\ exp'.set = exp.set /\ (~exp.set => exp' = exp)
         /\ exp.set => /\ exp'.add = exp.add
                       /\ exp'.del = exp.del - (IF p \in uids THEN 1 ELSE 0)
<1>1. Cardinality({p} \cap uids) = IF p \in uids THEN 1 ELSE 0
  <2>1. CASE p \in uids
    <3>1. {p} \cap uids = {p}
      BY <2>1
    <3>2. QED
      BY <2>1, <3>1, FS_Singleton
  <2>2. CASE p \notin uids
    <3>1. {p} \cap uids = {}
      BY <2>2
    <3>2. QED
      BY <2>2, <3>1, FS_EmptySet
  <2>3. QED
    BY <2>1, <2>2
<1>2. LowerExpectations(0, Cardinality({p} \cap uids)) /\ uids' = uids \ {p}
  BY DEF DeletionObserved
<1>3. exp.set => exp.add \in Int
  BY DEF TypeOK
<1>4. QED
  BY <1>1, <1>2, <1>3, LowerType

\* The notifications of some pods, one each, in some order.
LEMMA SetToSeqFacts ==
  ASSUME NEW S, IsFiniteSet(S)
  PROVE  /\ SetToSeq(S) \in Seq(S)
         /\ \A x \in S : \E i \in 1 .. Len(SetToSeq(S)) : SetToSeq(S)[i] = x
         /\ \A i, j \in 1 .. Len(SetToSeq(S)) : SetToSeq(S)[i] = SetToSeq(S)[j] => i = j
<1> DEFINE n == Cardinality(S)
           s == SetToSeq(S)
<1>1. n \in Nat /\ ExistsBijection(1 .. n, S)
  BY FS_CardinalityType
<1>2. PICK f \in Bijection(1 .. n, S) : TRUE
  BY <1>1 DEF ExistsBijection
<1>3. f \in [1 .. n -> S] /\ IsInjective(f)
  BY <1>2 DEF Bijection, Injection
<1>4. s \in [1 .. n -> S] /\ IsInjective(s)
  BY <1>3 DEF SetToSeq
<1> HIDE DEF s
<1>5. s \in Injection(1 .. n, S) /\ Cardinality(1 .. n) = n
  BY <1>1, <1>4, FS_Interval DEF Injection
<1>6. s \in Surjection(1 .. n, S)
  BY <1>5, FS_Injection
<1> HIDE DEF n
<1>7. s \in Seq(S) /\ Len(s) = n /\ DOMAIN s = 1 .. n
  BY <1>1, <1>4
<1>8. \A x \in S : \E i \in 1 .. n : s[i] = x
  BY <1>6 DEF Surjection
<1>9. \A i, j \in 1 .. n : s[i] = s[j] => i = j
  BY <1>4, <1>7 DEF IsInjective
<1>10. QED
  BY <1>7, <1>8, <1>9 DEF s

\* A set with an element for each pod of S, that has it as its pod.
LEMMA FiniteImage ==
  ASSUME NEW S \in SUBSET Pods, NEW T, NEW f \in [S -> T],
         \A x \in T : \E p \in S : f[p] = x
  PROVE  IsFiniteSet(T)
<1>1. f \in Surjection(S, T)
  BY DEF Surjection
<1>2. QED
  BY <1>1, FinitePods, FS_Surjection

LEMMA EnvironmentType ==
  ASSUME TypeInv,
         \/ \E n \in 0..MaxReplicas : Scale(n)
         \/ \E ph \in {"deleting", "gone"} : DeleteRS(ph)
         \/ \E p \in Pods : Relabel(p) \/ PodEnds(p) \/ \E ph \in {"terminating", "gone"} : DeletePodByOther(p, ph)
  PROVE  TypeInv'
<1>1. TypeOK /\ rs \in RSObject /\ api \in [Pods -> PodObject]
  BY DEF TypeInv, TypeOK
<1>2. /\ UNCHANGED <<rsCache, informer, queued, exp, uids, worker, faults, sure, done>>
      /\ edits' \in 0 .. MaxEdits
  BY <1>1, EditFault DEF Scale, DeleteRS, Relabel, DeletePodByOther, PodEnds, env, TypeOK
<1>3. \/ rs' \in RSObject /\ rsWatch' \in Seq(RSObject) /\ UNCHANGED <<api, history>>
      \/ api' \in States /\ history' \in Seq(States) /\ received \in 1 .. Len(history') /\ UNCHANGED <<rs, rsWatch>>
  <2>1. ASSUME NEW n \in 0 .. MaxReplicas, Scale(n) PROVE <1>3
    <3>1. [rs EXCEPT !.replicas = n] \in RSObject
      BY <1>1 DEF RSObject
    <3>2. QED
      BY <1>1, <2>1, <3>1, WriteRSType DEF Scale
  <2>2. ASSUME NEW ph \in {"deleting", "gone"}, DeleteRS(ph) PROVE <1>3
    <3>1. [rs EXCEPT !.phase = ph] \in RSObject
      BY <1>1 DEF RSObject
    <3>2. QED
      BY <1>1, <2>2, <3>1, WriteRSType DEF DeleteRS
  <2>3. ASSUME NEW p \in Pods, Relabel(p) PROVE <1>3
    BY <1>1, <2>3, PodObjects, WritePodType DEF Relabel
  <2>4. ASSUME NEW p \in Pods, PodEnds(p) PROVE <1>3
    BY <1>1, <2>4, PodObjects, WritePodType DEF PodEnds
  <2>5. ASSUME NEW p \in Pods, NEW ph \in {"terminating", "gone"}, DeletePodByOther(p, ph) PROVE <1>3
    BY <1>1, <2>5, PodObjects, WritePodType DEF DeletePodByOther
  <2>6. QED
    BY <2>1, <2>2, <2>3, <2>4, <2>5
<1>4. /\ rs' \in RSObject /\ rsWatch' \in Seq(RSObject) /\ api' \in States
      /\ history' \in Seq(States) /\ received' \in 1 .. Len(history')
  BY <1>1, <1>2, <1>3 DEF TypeOK, informer, States
<1>5. TypeOK'
  BY <1>1, <1>2, <1>4 DEF TypeOK, worker, informer, States
<1>6. QED
  BY <1>2, <1>5 DEF TypeInv, BatchOK, TodoOK, worker

\* The notifications of a restart that lists the state h.
Listed(h) == {Notification(p, NoPod, h[p]) : p \in {q \in Pods : h[q] # NoPod}}

LEMMA ListedFacts ==
  ASSUME NEW h \in States
  PROVE  SetToSeq(Listed(h)) \in Seq(Notes)
<1> DEFINE A == {q \in Pods : h[q] # NoPod}
           f == [p \in A |-> Notification(p, NoPod, h[p])]
<1>1. \A p \in Pods : Notification(p, NoPod, h[p]) \in Notes
  BY NotificationType, Objects DEF States
<1>2. f \in [A -> Listed(h)] /\ (\A x \in Listed(h) : \E p \in A : f[p] = x) /\ A \in SUBSET Pods
  BY DEF Listed
<1>3. Listed(h) \in SUBSET Notes
  BY <1>1 DEF Listed
<1>4. IsFiniteSet(Listed(h))
  BY <1>2, FiniteImage
<1>5. SetToSeq(Listed(h)) \in Seq(Listed(h))
  BY <1>4, SetToSeqFacts
<1>6. QED
  BY <1>3, <1>5

\* Deltas put at the end of a pod's, and the ones that its last one leaves.
LEMMA DeltasType ==
  ASSUME NEW s \in Seq(Delta), NEW b \in BOOLEAN, NEW o \in PodObject
  PROVE  /\ Append(s, [sync |-> b, obj |-> o]) \in Seq(Delta)
         /\ s # <<>> => Append(Front(s), [sync |-> b, obj |-> o]) \in Seq(Delta)
<1>1. [sync |-> b, obj |-> o] \in Delta
  BY DEF Delta
<1>2. s # <<>> => Front(s) \in Seq(Delta)
  BY DEF Front
<1>3. QED
  BY <1>1, <1>2

LEMMA EventType ==
  ASSUME NEW old \in PodObject, NEW new \in PodObject
  PROVE  Event(old, new) \in PodObject
BY PodObjects DEF Event

LEMMA WithEventType ==
  ASSUME TypeOK, NEW p \in Pods, NEW o \in PodObject
  PROVE  WithEvent(p, o) \in Seq(Delta)
<1>1. fifo[p] \in Seq(Delta)
  BY DEF TypeOK
<1>2. \/ WithEvent(p, o) = <<>>
      \/ WithEvent(p, o) = Append(fifo[p], [sync |-> FALSE, obj |-> o])
      \/ fifo[p] # <<>> /\ WithEvent(p, o) = Append(Front(fifo[p]), [sync |-> FALSE, obj |-> o])
  BY DEF WithEvent, WillBeDeleted
<1>3. <<>> \in Seq(Delta)
  OBVIOUS
<1>4. QED
  BY <1>1, <1>2, <1>3, DeltasType

LEMMA WithListedType ==
  ASSUME TypeOK, NEW p \in Pods, NEW o \in PodObject
  PROVE  WithListed(p, o) \in Seq(Delta)
<1>1. fifo[p] \in Seq(Delta) /\ cache[p] \in PodObject
  BY DEF TypeOK
<1>2. [cache[p] EXCEPT !.phase = "gone"] \in PodObject
  BY <1>1, PodObjects
<1>3. \/ WithListed(p, o) = fifo[p]
      \/ WithListed(p, o) = Append(fifo[p], [sync |-> TRUE, obj |-> o])
      \/ WithListed(p, o) = Append(fifo[p], [sync |-> FALSE, obj |-> [cache[p] EXCEPT !.phase = "gone"]])
  BY DEF WithListed
<1>4. QED
  BY <1>1, <1>2, <1>3, DeltasType

LEMMA InformersType ==
  ASSUME TypeInv, RSInformer \/ Receive \/ (\E p \in Pods : PodInformer(p)) \/ Relist \/ Resync \/ Restart
  PROVE  TypeInv'
<1>1. /\ TypeOK /\ history \in Seq(States) /\ received \in 1 .. Len(history)
      /\ fifo \in [Pods -> Seq(Delta)]
  BY DEF TypeInv, TypeOK, States
<1>2. CASE RSInformer
  <2>1. rsCache' \in RSObject /\ rsWatch' \in Seq(RSObject) /\ queued' \in BOOLEAN
    BY <1>1, <1>2 DEF TypeOK, RSInformer
  <2>2. TypeOK'
    BY <1>1, <1>2, <2>1 DEF TypeOK, RSInformer, worker, informer
  <2>3. QED
    BY <1>2, <2>2 DEF TypeInv, BatchOK, TodoOK, RSInformer, worker
<1>3. CASE Receive
  <2>1. received + 1 \in 1 .. Len(history)
    BY <1>1, <1>3 DEF Receive
  <2>2. \A p \in Pods : WithEvent(p, Event(history[received][p], history[received + 1][p])) \in Seq(Delta)
    <3>1. history[received] \in States /\ history[received + 1] \in States
      BY <1>1, <2>1
    <3>2. QED
      BY <1>1, <3>1, EventType, WithEventType DEF States
  <2>3. fifo' \in [Pods -> Seq(Delta)]
    BY <1>1, <1>3, <2>2 DEF Receive
  <2>4. history' \in Seq(States) /\ received' \in 1 .. Len(history')
    <3>1. CASE received' = received + 1 /\ UNCHANGED history
      BY <1>1, <2>1, <3>1
    <3>2. CASE received' = received /\ history' = Tail(history)
      BY <1>1, <2>1, <3>2
    <3>3. QED
      BY <1>3, <3>1, <3>2 DEF Receive
  <2>5. TypeOK'
    BY <1>1, <1>3, <2>3, <2>4 DEF TypeOK, Receive, worker, States
  <2>6. QED
    BY <1>3, <2>5 DEF TypeInv, BatchOK, TodoOK, Receive, worker
<1>4. ASSUME NEW p \in Pods, PodInformer(p) PROVE TypeInv'
  <2>1. fifo[p] \in Seq(Delta) /\ fifo[p] # <<>> /\ cache \in [Pods -> PodObject] /\ notes \in Seq(Notes)
    BY <1>1, <1>4 DEF TypeOK, PodInformer
  <2>2. Head(fifo[p]).obj \in PodObject /\ fifo' \in [Pods -> Seq(Delta)]
    <3>1. Head(fifo[p]) \in Delta /\ Tail(fifo[p]) \in Seq(Delta)
      BY <2>1
    <3>2. QED
      BY <1>1, <1>4, <3>1 DEF Delta, PodInformer
  <2>3. cache' \in [Pods -> PodObject]
    BY <1>4, <2>1, <2>2, PodObjects DEF PodInformer
  <2>4. notes' \in Seq(Notes)
    <3>1. Notification(p, cache[p], Head(fifo[p]).obj) \in Notes
      BY <2>1, <2>2, NotificationType
    <3>2. QED
      BY <1>4, <2>1, <3>1 DEF PodInformer
  <2>5. TypeOK'
    BY <1>1, <1>4, <2>2, <2>3, <2>4, SMTT(30) DEF TypeOK, PodInformer, worker
  <2>6. QED
    BY <1>4, <2>5 DEF TypeInv, BatchOK, TodoOK, PodInformer, worker
<1>5. CASE Relist
  <2>1. PICK v \in DOMAIN history : /\ received' = v /\ sure' = (sure /\ v >= received)
                                    /\ fifo' = [p \in Pods |-> WithListed(p, history[v][p])]
    BY <1>5 DEF Relist
  <2>2. v \in 1 .. Len(history) /\ history[v] \in States
    BY <1>1
  <2>3. fifo' \in [Pods -> Seq(Delta)]
    <3>1. \A p \in Pods : WithListed(p, history[v][p]) \in Seq(Delta)
      BY <1>1, <2>2, WithListedType DEF States
    <3>2. QED
      BY <2>1, <3>1
  <2>4. faults' \in 0 .. MaxFaults
    BY <1>1, <1>5, EditFault DEF Relist
  <2>5. sure' \in BOOLEAN
    BY <1>1, <2>1, Zenon DEF TypeOK
  <2>6. TypeOK'
    BY <1>1, <1>5, <2>1, <2>2, <2>3, <2>4, <2>5 DEF TypeOK, Relist, worker
  <2>7. QED
    BY <1>5, <2>6 DEF TypeInv, BatchOK, TodoOK, Relist, worker
<1>6. CASE Resync
  <2>1. TypeOK'
    BY <1>1, <1>6 DEF TypeOK, Resync, worker, informer
  <2>2. QED
    BY <1>6, <2>1 DEF TypeInv, BatchOK, TodoOK, Resync, worker
<1>7. CASE Restart
  <2>1. PICK v \in DOMAIN history :
          /\ received' = v /\ cache' = history[v] /\ fifo' = [p \in Pods |-> <<>>]
          /\ notes' = SetToSeq(Listed(history[v]))
          /\ sure' = (sure /\ {p \in Pods : history[v][p] # NoPod} = {} /\ v = Len(history))
    BY <1>7 DEF Restart, Listed
  <2>2. v \in 1 .. Len(history) /\ history[v] \in States
    BY <1>1
  <2>3. notes' \in Seq(Notes) /\ fifo' \in [Pods -> Seq(Delta)]
    BY <2>1, <2>2, ListedFacts
  <2>4. faults' \in 0 .. MaxFaults
    BY <1>1, <1>7, EditFault DEF Restart
  <2>5. sure' \in BOOLEAN
    BY <1>1, <2>1, Zenon DEF TypeOK
  <2>6. exp' \in Expectations /\ uids' = {} /\ queued' = TRUE /\ Return
    BY <1>7, Objects DEF Restart
  <2>7. /\ pc' = "idle" /\ needsSync' = FALSE /\ read' \in RSObject /\ view' = {} /\ todo' = {}
        /\ canAdopt' = "unasked" /\ batch' = NoBatch /\ failed' = FALSE
        /\ NoBatch \in [size: Nat, calls: Nat, bad: Nat, remaining: Nat]
    BY <2>6, Objects DEF Return
  <2>8. TypeOK'
    BY <1>1, <1>7, <2>1, <2>2, <2>3, <2>4, <2>5, <2>6, <2>7 DEF TypeOK, Restart, Expectations, States
  <2>9. QED
    BY <2>7, <2>8 DEF TypeInv, BatchOK, TodoOK
<1>8. QED
  BY <1>2, <1>3, <1>4, <1>5, <1>6, <1>7

\* What a handler may do with a notification n: nothing, count a creation or count
\* a deletion.
CountsAdd(n) == n.kind = "add" /\ n.obj.phase = "active" /\ n.obj.own /\ LowerExpectations(1, 0) /\ uids' = uids
CountsDelete(n) == n.obj.phase \in {"terminating", "gone"} /\ DeletionObserved({n.pod})

LEMMA HandlePodEffect ==
  ASSUME TypeOK, HandlePod
  PROVE  /\ notes # <<>> /\ notes' = Tail(notes) /\ Head(notes) \in Notes
         /\ queued' \in BOOLEAN
         /\ \/ UNCHANGED <<exp, uids>>
            \/ CountsAdd(Head(notes))
            \/ CountsDelete(Head(notes))
            \/ Head(notes).kind = "delete" /\ DeletionObserved({Head(notes).pod})
<1> DEFINE n == Head(notes)
<1>1. notes # <<>> /\ notes \in Seq(Notes) /\ notes' = Tail(notes) /\ queued \in BOOLEAN
  BY DEF TypeOK, HandlePod
<1>2. n \in Notes
  BY <1>1
<1>3. n.obj.own \in BOOLEAN /\ n.obj.match \in BOOLEAN /\ n.old.own \in BOOLEAN
  BY <1>2 DEF Notes, PodObject
<1> HIDE DEF n
<1>4. ASSUME NEW own, deletePod(own, {n.pod}) 
      PROVE  queued' \in BOOLEAN /\ (UNCHANGED <<exp, uids>> \/ DeletionObserved({n.pod}))
  BY <1>1, <1>4, Zenon DEF deletePod
<1>5. ASSUME addPod(n), n.kind = "add"
      PROVE  queued' \in BOOLEAN /\ (UNCHANGED <<exp, uids>> \/ CountsAdd(n) \/ CountsDelete(n))
  BY <1>1, <1>3, <1>4, <1>5 DEF addPod, CountsAdd, CountsDelete
<1>6. ASSUME updatePod(n)
      PROVE  queued' \in BOOLEAN /\ (UNCHANGED <<exp, uids>> \/ CountsDelete(n))
  BY <1>1, <1>3, <1>4, <1>6 DEF updatePod, CountsDelete
<1>7. \/ UNCHANGED <<exp, uids, queued>>
      \/ n.kind = "add" /\ addPod(n)
      \/ n.kind = "update" /\ updatePod(n)
      \/ n.kind = "delete" /\ deletePod(n.obj.own, {n.pod})
  BY DEF HandlePod, n
<1>8. /\ queued' \in BOOLEAN
      /\ \/ UNCHANGED <<exp, uids>>
         \/ CountsAdd(n)
         \/ CountsDelete(n)
         \/ n.kind = "delete" /\ DeletionObserved({n.pod})
  BY <1>1, <1>4, <1>5, <1>6, <1>7
<1>9. QED
  BY <1>1, <1>2, <1>8 DEF n

LEMMA HandlersType ==
  ASSUME TypeInv, HandlePod \/ Expire
  PROVE  TypeInv'
<1>1. TypeOK /\ exp \in Expectations /\ uids \in SUBSET Pods
  BY DEF TypeInv, TypeOK, Expectations
<1>2. CASE HandlePod
  <2> DEFINE n == Head(notes)
  <2>1. /\ notes # <<>> /\ notes' = Tail(notes) /\ n \in Notes /\ queued' \in BOOLEAN
        /\ \/ UNCHANGED <<exp, uids>>
           \/ CountsAdd(n)
           \/ CountsDelete(n)
           \/ n.kind = "delete" /\ DeletionObserved({n.pod})
    BY <1>1, <1>2, HandlePodEffect
  <2>2. n.pod \in Pods
    BY <2>1 DEF Notes
  <2> HIDE DEF n
  <2>3. exp' \in Expectations /\ uids' \in SUBSET Pods
    <3>1. CASE UNCHANGED <<exp, uids>>
      BY <1>1, <3>1
    <3>2. CASE CountsAdd(n)
      BY <1>1, <3>2, LowerType DEF CountsAdd
    <3>3. CASE DeletionObserved({n.pod})
      BY <1>1, <2>2, <3>3, DeletionObservedType
    <3>4. QED
      BY <2>1, <3>1, <3>2, <3>3 DEF CountsDelete
  <2>4. notes' \in Seq(Notes)
    BY <1>1, <2>1 DEF TypeOK
  <2>5. TypeOK'
    BY <1>1, <1>2, <2>1, <2>3, <2>4 DEF TypeOK, HandlePod, worker, Expectations
  <2>6. QED
    BY <1>2, <2>5 DEF TypeInv, BatchOK, TodoOK, HandlePod, worker
<1>3. CASE Expire
  <2>1. exp' \in Expectations
    BY <1>1, <1>3 DEF Expire, Expectations
  <2>2. faults' \in 0 .. MaxFaults
    <3>1. Fault \/ faults' = faults
      BY <1>3 DEF Expire
    <3>2. QED
      BY <1>1, <3>1, EditFault DEF TypeOK
  <2>3. TypeOK'
    BY <1>1, <1>3, <2>1, <2>2 DEF TypeOK, Expire, worker, informer, Expectations
  <2>4. QED
    BY <1>3, <2>3 DEF TypeInv, BatchOK, TodoOK, Expire, worker
<1>4. QED
  BY <1>2, <1>3

LEMMA ReturnType ==
  ASSUME Return
  PROVE  /\ pc' = "idle" /\ needsSync' = FALSE /\ read' \in RSObject /\ view' = {} /\ todo' = {}
         /\ canAdopt' = "unasked" /\ batch' = NoBatch /\ failed' = FALSE
         /\ NoBatch \in [size: Nat, calls: Nat, bad: Nat, remaining: Nat]
BY Objects DEF Return

LEMMA SyncStepsType ==
  ASSUME TypeInv, StartSync \/ ListPods \/ CanAdopt \/ Deleted \/ UpdateStatus
  PROVE  TypeInv'
<1>1. TypeOK
  BY DEF TypeInv
<1>2. CASE StartSync
  <2>1. /\ exp' \in Expectations /\ uids' \in SUBSET Pods /\ queued' = FALSE /\ read' \in RSObject
        /\ pc' \in {"idle", "list"}
    BY <1>1, <1>2, Objects DEF StartSync, TypeOK, Expectations, worker
  <2>2. needsSync' \in BOOLEAN /\ sure' \in BOOLEAN /\ failed' \in BOOLEAN
    BY <1>1, <1>2 DEF StartSync, TypeOK, SatisfiedExpectations, worker
  <2>3. UNCHANGED <<quiet, faults, view, todo, canAdopt, batch>> /\ pc = "idle"
    BY <1>2 DEF StartSync, worker
  <2>4. TypeOK'
    BY <1>1, <2>1, <2>2, <2>3 DEF TypeOK, quiet, informer, Expectations
  <2>5. QED
    BY <2>1, <2>3, <2>4 DEF TypeInv, BatchOK, TodoOK
<1>3. CASE ListPods
  <2> DEFINE active == {p \in Pods : cache[p].phase = "active"}
             claims == {<<ClaimObject(cache[p]), p>> : p \in active}
  <2>1. /\ view' = {p \in active : <<"keep", p>> \in claims}
        /\ todo' = {c \in claims : c[1] \in {"adopt", "release"}}
        /\ pc = "list" /\ pc' = "claim"
    BY <1>3 DEF ListPods
  <2>2. view' \in SUBSET Pods /\ todo' \subseteq {"adopt", "release"} \X Pods
    BY <2>1
  <2>3. UNCHANGED <<quiet, queued, exp, uids, needsSync, read, canAdopt, batch, failed, faults, sure>>
    BY <1>3 DEF ListPods
  <2>4. TypeOK'
    BY <1>1, <2>1, <2>2, <2>3 DEF TypeOK, quiet, informer
  <2>5. QED
    BY <2>1, <2>2, <2>3, <2>4 DEF TypeInv, BatchOK, TodoOK
<1>4. CASE CanAdopt
  <2>1. canAdopt' \in {"unasked", "yes", "no"} /\ faults' \in 0 .. MaxFaults
    BY <1>1, <1>4, EditFault DEF CanAdopt, TypeOK
  <2>2. TypeOK'
    BY <1>1, <1>4, <2>1 DEF TypeOK, CanAdopt, claiming, informer
  <2>3. QED
    BY <1>4, <2>2 DEF TypeInv, BatchOK, TodoOK, CanAdopt, claiming
<1>5. CASE Deleted
  <2>1. TypeOK'
    BY <1>1, <1>5 DEF TypeOK, Deleted, quiet, informer
  <2>2. QED
    BY <1>5, <2>1 DEF TypeInv, BatchOK, TodoOK, Deleted
<1>6. CASE UpdateStatus
  <2>1. faults' \in 0 .. MaxFaults /\ queued' \in BOOLEAN
    BY <1>1, <1>6, EditFault DEF UpdateStatus, TypeOK
  <2>2. Return /\ UNCHANGED <<quiet, exp, uids, sure>>
    BY <1>6 DEF UpdateStatus
  <2>3. TypeOK'
    BY <1>1, <2>1, <2>2, ReturnType DEF TypeOK, quiet, informer
  <2>4. QED
    BY <2>2, <2>3, ReturnType DEF TypeInv, BatchOK, TodoOK
<1>7. QED
  BY <1>2, <1>3, <1>4, <1>5, <1>6

Batch == [size: Nat, calls: Nat, bad: Nat, remaining: Nat]

\* manageReplicas asks for at least one pod and at most burstReplicas.
LEMMA ManageReplicasEffect ==
  ASSUME TypeOK, manageReplicas
  PROVE  \/ \E n \in Nat \ {0} :
              /\ exp' = [set |-> TRUE, add |-> n, del |-> 0, expired |-> FALSE]
              /\ batch' = [size |-> 1, calls |-> 1, bad |-> 0, remaining |-> n]
              /\ pc' = "create" /\ UNCHANGED <<uids, todo>>
         \/ \E S \in SUBSET view :
              /\ exp' = [set |-> TRUE, add |-> 0, del |-> Cardinality(S), expired |-> FALSE]
              /\ uids' = S /\ todo' = {"delete"} \X S
              /\ pc' = "delete" /\ batch' = batch
         \/ pc' = "status" /\ UNCHANGED <<exp, uids, batch, todo>>
<1>1. diff \in Int
  <2>1. Cardinality(view) \in Nat /\ read.replicas \in Nat
    BY FinitePods, BoundsAssumption DEF TypeOK, RSObject
  <2>2. QED
    BY <2>1 DEF diff
<1>2. diff < 0 => AtMost(-diff) \in Nat \ {0}
  BY <1>1, BoundsAssumption DEF AtMost
<1>3. CASE diff < 0
  BY <1>1, <1>2, <1>3 DEF manageReplicas, SetExpectations
<1>4. CASE diff > 0
  BY <1>1, <1>4 DEF manageReplicas, ExpectDeletions, SetExpectations
<1>5. CASE diff = 0
  BY <1>1, <1>5 DEF manageReplicas
<1>6. QED
  BY <1>1, <1>3, <1>4, <1>5

LEMMA ClaimStepsType ==
  ASSUME TypeInv, Claimed \/ \E p \in Pods : ReleasePod(p) \/ AdoptPod(p)
  PROVE  TypeInv'
<1>1. TypeOK /\ TodoOK /\ BatchOK /\ api \in [Pods -> PodObject]
  BY DEF TypeInv, TypeOK
<1>2. ASSUME NEW p \in Pods, ReleasePod(p) \/ AdoptPod(p) PROVE TypeInv'
  <2>1. /\ todo' \subseteq todo /\ view' \in SUBSET Pods /\ failed' \in BOOLEAN
        /\ UNCHANGED claiming /\ UNCHANGED canAdopt
    BY <1>1, <1>2 DEF ReleasePod, AdoptPod, TypeOK
  <2>2. faults' \in 0 .. MaxFaults
    <3>1. Fault \/ faults' = faults
      BY <1>2 DEF ReleasePod, AdoptPod
    <3>2. QED
      BY <1>1, <3>1, EditFault DEF TypeOK
  <2>3. api' \in States /\ history' \in Seq(States) /\ received \in 1 .. Len(history')
    <3>1. \/ UNCHANGED <<api, history>>
          \/ WritePod(p, [api[p] EXCEPT !.own = FALSE])
          \/ WritePod(p, [api[p] EXCEPT !.own = TRUE])
      BY <1>2 DEF ReleasePod, AdoptPod
    <3>2. QED
      BY <1>1, <3>1, PodObjects, WritePodType DEF TypeOK, States
  <2>4. TypeOK'
    BY <1>1, <2>1, <2>2, <2>3 DEF TypeOK, claiming, informer, States
  <2>5. QED
    BY <1>1, <2>1, <2>4 DEF TypeInv, BatchOK, TodoOK, claiming
<1>3. CASE Claimed
  <2>1. /\ pc = "claim" /\ todo = {} /\ batch = NoBatch
        /\ UNCHANGED <<quiet, faults, sure>>
    BY <1>1, <1>3 DEF Claimed, BatchOK
  <2>2. CASE failed /\ Return /\ queued' = TRUE /\ UNCHANGED <<exp, uids>>
    <3>1. TypeOK'
      BY <1>1, <2>1, <2>2, ReturnType DEF TypeOK, quiet, informer
    <3>2. QED
      BY <2>2, <3>1, ReturnType DEF TypeInv, BatchOK, TodoOK
  <2>3. CASE manageReplicas /\ UNCHANGED <<queued, needsSync, read, view, canAdopt, failed>>
    <3>1. ASSUME NEW n \in Nat \ {0},
              exp' = [set |-> TRUE, add |-> n, del |-> 0, expired |-> FALSE],
              batch' = [size |-> 1, calls |-> 1, bad |-> 0, remaining |-> n],
              pc' = "create", UNCHANGED <<uids, todo>>
          PROVE  TypeInv'
      <4>1. exp' \in Expectations /\ batch' \in Batch
        BY <3>1 DEF Expectations, Batch
      <4>2. BatchOK'
        BY <3>1 DEF BatchOK
      <4>3. TypeOK'
        BY <1>1, <2>1, <2>3, <3>1, <4>1 DEF TypeOK, quiet, informer, Expectations, Batch
      <4>4. QED
        BY <1>1, <2>1, <3>1, <4>2, <4>3 DEF TypeInv, TodoOK
    <3>2. ASSUME NEW S \in SUBSET view,
              exp' = [set |-> TRUE, add |-> 0, del |-> Cardinality(S), expired |-> FALSE],
              uids' = S, todo' = {"delete"} \X S, pc' = "delete", batch' = batch
          PROVE  TypeInv'
      <4>1. S \in SUBSET Pods
        BY <1>1 DEF TypeOK
      <4>2. exp' \in Expectations
        BY <3>2, <4>1, FinitePods DEF Expectations
      <4>3. todo' \subseteq {"delete"} \X Pods
        BY <3>2, <4>1
      <4>4. TypeOK'
        BY <1>1, <2>1, <2>3, <3>2, <4>1, <4>2, <4>3 DEF TypeOK, quiet, informer, Expectations
      <4>5. QED
        BY <2>1, <3>2, <4>3, <4>4 DEF TypeInv, TodoOK, BatchOK
    <3>3. ASSUME pc' = "status", UNCHANGED <<exp, uids, batch, todo>> PROVE TypeInv'
      <4>1. TypeOK'
        BY <1>1, <2>1, <2>3, <3>3 DEF TypeOK, quiet, informer
      <4>2. QED
        BY <2>1, <3>3, <4>1 DEF TypeInv, TodoOK, BatchOK
    <3>4. QED
      BY <1>1, <2>3, <3>1, <3>2, <3>3, ManageReplicasEffect
  <2>4. CASE /\ pc' = "status"
             /\ UNCHANGED <<queued, exp, uids, batch, todo, needsSync, read, view, canAdopt, failed>>
    <3>1. TypeOK'
      BY <1>1, <2>1, <2>4 DEF TypeOK, quiet, informer
    <3>2. QED
      BY <2>1, <2>4, <3>1 DEF TypeInv, TodoOK, BatchOK
  <2>5. QED
    BY <1>3, <2>2, <2>3, <2>4 DEF Claimed
<1>4. QED
  BY <1>2, <1>3

\* What is left to create when a batch has ended, and the size of the next one.
Left == batch.remaining - batch.size
NextSize == IF 2 * batch.size < Left THEN 2 * batch.size ELSE Left

LEMMA BatchEndsEffect ==
  ASSUME TypeInv, BatchEnds
  PROVE  /\ pc = "create" /\ batch.calls = 0 /\ Left \in Nat /\ batch.bad \in Nat
         /\ \/ /\ LowerExpectations(Left + batch.bad, 0)
               /\ pc' = "status" /\ failed' = TRUE /\ batch' = NoBatch
            \/ /\ NextSize \in Nat \ {0} /\ NextSize <= Left /\ batch.bad = 0
               /\ batch' = [size |-> NextSize, calls |-> NextSize, bad |-> 0, remaining |-> Left]
               /\ UNCHANGED <<pc, exp, failed>>
            \/ Left = 0 /\ batch.bad = 0 /\ pc' = "status" /\ batch' = NoBatch /\ UNCHANGED <<exp, failed>>
<1>1. /\ batch.size \in Nat \ {0} /\ batch.remaining \in Nat /\ batch.bad \in Nat
      /\ batch.size <= batch.remaining /\ pc = "create" /\ batch.calls = 0
  BY DEF TypeInv, TypeOK, BatchOK, BatchEnds
<1>2. /\ Left \in Nat /\ NextSize \in Nat /\ NextSize <= Left
      /\ NextSize = 0 => Left = 0
  BY <1>1 DEF Left, NextSize
<1>3. \/ /\ batch.bad > 0
         /\ LowerExpectations(Left + batch.bad, 0)
         /\ pc' = "status" /\ failed' = TRUE /\ batch' = NoBatch
      \/ /\ batch.bad = 0 /\ NextSize > 0
         /\ batch' = [size |-> NextSize, calls |-> NextSize, bad |-> 0, remaining |-> Left]
         /\ UNCHANGED <<pc, exp, failed>>
      \/ /\ batch.bad = 0 /\ NextSize = 0
         /\ pc' = "status" /\ batch' = NoBatch
         /\ UNCHANGED <<exp, failed>>
  BY DEF BatchEnds, Left, NextSize
<1>4. QED
  BY <1>1, <1>2, <1>3

LEMMA CallStepsType ==
  ASSUME TypeInv, BatchEnds \/ CreateFails \/ \E p \in Pods : CreatePod(p) \/ DeletePod(p)
  PROVE  TypeInv'
<1>1. TypeOK /\ TodoOK /\ BatchOK /\ api \in [Pods -> PodObject] /\ batch \in Batch /\ exp \in Expectations
  BY DEF TypeInv, TypeOK, Batch, Expectations
<1>2. ASSUME batch.calls > 0,
             \/ batch' = [batch EXCEPT !.calls = @ - 1]
             \/ batch' = [batch EXCEPT !.calls = @ - 1, !.bad = @ + 1]
      PROVE  /\ batch' \in Batch /\ batch'.calls = batch.calls - 1
             /\ batch'.size = batch.size /\ batch'.remaining = batch.remaining
             /\ batch'.bad >= batch.bad
  <2>1. /\ batch.calls \in Nat /\ batch.bad \in Nat /\ batch.size \in Nat /\ batch.remaining \in Nat
        /\ batch.calls - 1 \in Nat /\ batch.bad + 1 \in Nat
    BY <1>1, <1>2 DEF Batch
  <2>2. CASE batch' = [batch EXCEPT !.calls = @ - 1]
    BY <1>1, <2>1, <2>2 DEF Batch
  <2>3. CASE batch' = [batch EXCEPT !.calls = @ - 1, !.bad = @ + 1]
    <3>1. batch' = [size |-> batch.size, calls |-> batch.calls - 1, bad |-> batch.bad + 1,
                    remaining |-> batch.remaining]
      BY <1>1, <2>3 DEF Batch
    <3>2. QED
      BY <2>1, <3>1 DEF Batch
  <2>4. QED
    BY <1>2, <2>2, <2>3
<1>3. ASSUME NEW p \in Pods, CreatePod(p) PROVE TypeInv'
  <2>1. /\ pc = "create" /\ batch.calls > 0
        /\ \/ batch' = [batch EXCEPT !.calls = @ - 1]
           \/ batch' = [batch EXCEPT !.calls = @ - 1, !.bad = @ + 1]
        /\ done' = [done EXCEPT ![p] = "created"] /\ uids' = uids \ {p}
        /\ sure' \in BOOLEAN
    BY <1>1, <1>3 DEF CreatePod, TypeOK
  <2>2. faults' \in 0 .. MaxFaults
    <3>1. Fault \/ faults' = faults
      BY <1>3 DEF CreatePod
    <3>2. QED
      BY <1>1, <3>1, EditFault DEF TypeOK
  <2>3. [phase |-> "active", own |-> TRUE, match |-> TRUE] \in PodObject
    BY DEF PodObject
  <2>4. api' \in States /\ history' \in Seq(States) /\ received \in 1 .. Len(history')
    BY <1>1, <1>3, <2>3, WriteNewPodType DEF CreatePod
  <2>5. UNCHANGED <<calling, exp, todo, failed>>
    BY <1>3 DEF CreatePod
  <2>6. TypeOK'
    BY <1>1, <1>2, <2>1, <2>2, <2>4, <2>5 DEF TypeOK, calling, informer, Batch, States
  <2>7. BatchOK'
    BY <1>1, <1>2, <2>1, <2>5 DEF BatchOK, calling, Batch
  <2>8. QED
    BY <1>1, <2>5, <2>6, <2>7 DEF TypeInv, TodoOK, calling
<1>4. CASE CreateFails
  <2>1. /\ pc = "create" /\ batch.calls > 0
        /\ \/ batch' = [batch EXCEPT !.calls = @ - 1]
           \/ batch' = [batch EXCEPT !.calls = @ - 1, !.bad = @ + 1]
        /\ UNCHANGED <<calling, api, history, exp, uids, todo, failed, done, sure>>
    BY <1>4 DEF CreateFails
  <2>2. faults' \in 0 .. MaxFaults
    <3>1. Fault \/ faults' = faults
      BY <1>4 DEF CreateFails
    <3>2. QED
      BY <1>1, <3>1, EditFault DEF TypeOK
  <2>3. TypeOK'
    BY <1>1, <1>2, <2>1, <2>2 DEF TypeOK, calling, informer, Batch
  <2>4. BatchOK'
    BY <1>1, <1>2, <2>1 DEF BatchOK, calling, Batch
  <2>5. QED
    BY <1>1, <2>1, <2>3, <2>4 DEF TypeInv, TodoOK, calling
<1>5. CASE BatchEnds
  <2>1. UNCHANGED <<quiet, queued, uids, needsSync, read, view, todo, canAdopt, faults, sure>>
    BY <1>5 DEF BatchEnds
  <2>2. /\ pc = "create" /\ pc' \in {"create", "status"} /\ exp' \in Expectations /\ failed' \in BOOLEAN
        /\ batch' \in Batch /\ BatchOK'
    <3>1. /\ pc = "create" /\ batch.calls = 0 /\ Left \in Nat /\ batch.bad \in Nat
          /\ \/ /\ LowerExpectations(Left + batch.bad, 0)
                /\ pc' = "status" /\ failed' = TRUE /\ batch' = NoBatch
             \/ /\ NextSize \in Nat \ {0} /\ NextSize <= Left /\ batch.bad = 0
                /\ batch' = [size |-> NextSize, calls |-> NextSize, bad |-> 0, remaining |-> Left]
                /\ UNCHANGED <<pc, exp, failed>>
             \/ Left = 0 /\ batch.bad = 0 /\ pc' = "status" /\ batch' = NoBatch /\ UNCHANGED <<exp, failed>>
      BY <1>5, BatchEndsEffect
    <3>2. Left + batch.bad \in Int /\ NoBatch \in Batch /\ failed \in BOOLEAN
      BY <1>1, <3>1, Objects DEF Batch, TypeOK
    <3>3. LowerExpectations(Left + batch.bad, 0) => exp' \in Expectations
      BY <1>1, <3>2, LowerType
    <3>4. CASE /\ LowerExpectations(Left + batch.bad, 0)
               /\ pc' = "status" /\ failed' = TRUE /\ batch' = NoBatch
      BY <3>1, <3>2, <3>3, <3>4 DEF BatchOK
    <3>5. CASE /\ NextSize \in Nat \ {0} /\ NextSize <= Left
               /\ batch' = [size |-> NextSize, calls |-> NextSize, bad |-> 0, remaining |-> Left]
               /\ UNCHANGED <<pc, exp, failed>>
      <4>1. batch' \in Batch
        BY <3>1, <3>5 DEF Batch
      <4>2. BatchOK'
        BY <3>1, <3>5 DEF BatchOK
      <4>3. QED
        BY <1>1, <3>1, <3>2, <3>5, <4>1, <4>2
    <3>6. CASE pc' = "status" /\ batch' = NoBatch /\ UNCHANGED <<exp, failed>>
      BY <1>1, <3>1, <3>2, <3>6 DEF BatchOK
    <3>7. QED
      BY <3>1, <3>4, <3>5, <3>6
  <2>3. TypeOK'
    BY <1>1, <2>1, <2>2 DEF TypeOK, quiet, informer, Batch, Expectations
  <2>4. QED
    BY <1>1, <2>1, <2>2, <2>3 DEF TypeInv, TodoOK
<1>6. ASSUME NEW p \in Pods, DeletePod(p) PROVE TypeInv'
  <2>1. /\ todo' \subseteq todo /\ done' \in [Pods -> {"nothing", "created", "deleted"}]
        /\ failed' \in BOOLEAN /\ sure' \in BOOLEAN
        /\ UNCHANGED <<calling, batch>>
    BY <1>1, <1>6 DEF DeletePod, TypeOK
  <2>2. faults' \in 0 .. MaxFaults
    <3>1. Fault \/ faults' = faults
      BY <1>6 DEF DeletePod
    <3>2. QED
      BY <1>1, <3>1, EditFault DEF TypeOK
  <2>3. exp' \in Expectations /\ uids' \in SUBSET Pods
    <3>1. UNCHANGED <<exp, uids>> \/ DeletionObserved({p})
      BY <1>6 DEF DeletePod
    <3>2. uids \in SUBSET Pods
      BY <1>1 DEF TypeOK
    <3>3. CASE DeletionObserved({p})
      BY <1>1, <3>2, <3>3, DeletionObservedType
    <3>4. QED
      BY <1>1, <3>1, <3>2, <3>3
  <2>4. api' \in States /\ history' \in Seq(States) /\ received \in 1 .. Len(history')
    <3>1. UNCHANGED <<api, history>> \/ \E ph \in {"terminating", "gone"} : WritePod(p, [api[p] EXCEPT !.phase = ph])
      BY <1>6 DEF DeletePod
    <3>2. QED
      BY <1>1, <3>1, PodObjects, WritePodType DEF TypeOK, States
  <2>5. TypeOK'
    BY <1>1, <2>1, <2>2, <2>3, <2>4 DEF TypeOK, calling, informer, States, Expectations
  <2>6. QED
    BY <1>1, <2>1, <2>5 DEF TypeInv, TodoOK, BatchOK, calling
<1>7. QED
  BY <1>3, <1>4, <1>5, <1>6

LEMMA TypeNextInv == TypeInv /\ [Next]_vars => TypeInv'
<1> SUFFICES ASSUME TypeInv, [Next]_vars PROVE TypeInv'
  OBVIOUS
<1>1. CASE UNCHANGED vars
  BY <1>1 DEF vars, informer, worker, TypeInv, TypeOK, BatchOK, TodoOK
<1>2. QED
  BY <1>1, EnvironmentType, InformersType, HandlersType, SyncStepsType, ClaimStepsType,
     CallStepsType DEF Next, Environment, Worker

LEMMA TypeInitInv == Init => TypeInv
<1> SUFFICES ASSUME Init PROVE TypeInv
  OBVIOUS
<1>1. rs \in RSObject
  BY DEF Init, RSObject
<1>2. api \in [Pods -> PodObject]
  BY Objects DEF Init, Orphan, PodObject
<1>3. TypeOK
  <2>1. /\ rsCache = rs /\ rsWatch = <<>> /\ cache = api /\ notes = <<>>
        /\ history = <<api>> /\ received = 1 /\ fifo = [p \in Pods |-> <<>>]
        /\ queued = TRUE /\ exp = NoExpectations /\ uids = {}
        /\ pc = "idle" /\ needsSync = FALSE /\ read = NoRS /\ view = {} /\ todo = {}
        /\ canAdopt = "unasked" /\ batch = NoBatch /\ failed = FALSE
        /\ edits = 0 /\ faults = 0 /\ sure = TRUE
    BY DEF Init
  <2>2. done \in [Pods -> {"nothing", "created", "deleted"}]
    BY DEF Init
  <2>3. 0 \in 0 .. MaxEdits /\ 0 \in 0 .. MaxFaults
    BY BoundsAssumption
  <2>4. /\ rsWatch \in Seq(RSObject) /\ notes \in Seq(Notes) /\ fifo \in [Pods -> Seq(Delta)]
        /\ history \in Seq([Pods -> PodObject]) /\ received \in 1 .. Len(history)
    BY <1>2, <2>1
  <2>5. /\ exp \in [set: BOOLEAN, add: Int, del: Int, expired: BOOLEAN] /\ read \in RSObject
        /\ batch \in [size: Nat, calls: Nat, bad: Nat, remaining: Nat]
    BY <2>1, Objects DEF Expectations
  <2>6. QED
    BY <1>1, <1>2, <2>1, <2>2, <2>3, <2>4, <2>5 DEF TypeOK
<1>4. QED
  BY <1>3 DEF TypeInv, BatchOK, TodoOK, Init

\* The controller's state is well formed: in particular no batch of slowStartBatch
\* has more calls to make than its size, whatever fails.
THEOREM ReplicaSetTypes == Spec => []TypeOK
<1>1. TypeInv => TypeOK
  BY DEF TypeInv
<1>2. QED
  BY <1>1, TypeInitInv, TypeNextInv, PTL DEF Spec

-----------------------------------------------------------------------------
-----------------------------------------------------------------------------
(* What the API server has, what is on its way and what the informer has seen. *)

\* The states that the reflector is still to show.
Ahead == received .. Len(history)

\* Something about p, or an active p, is on its way to the store.
Coming(p) == fifo[p] # <<>> \/ \E i \in Ahead : history[i][p] # NoPod
ActiveComing(p) == \/ \E i \in 1 .. Len(fifo[p]) : fifo[p][i].obj.phase = "active"
                   \/ \E i \in Ahead : history[i][p].phase = "active"

\* The pods that the informer has not seen, the ones that the handlers are still to
\* be told of, and the pods that a sync has to do with.
Unseen == {p \in Pods : cache[p] = NoPod /\ Coming(p)}
Announced == {p \in Pods : \E i \in 1 .. Len(notes) : notes[i].pod = p /\ notes[i].kind = "add"}
Unhandled == Unseen \cup Announced
Held == {p \in Pods : p \in view \/ \E c \in todo : c[2] = p}

\* Pods that the controller has deleted and that look active to it.
Stale == {p \in Pods : done[p] = "deleted" /\ cache[p].phase = "active"}

\* A pod goes once, and does not become active again: in what the API server shows, in the
\* deltas and in the store.  A pod that was there when the reflector looked has arrived.
WellFormed(o) == o.phase # "gone" /\ (o.phase = "none" => o = NoPod)
Phases(p) == /\ WellFormed(api[p]) /\ WellFormed(cache[p])
             /\ \A i \in Ahead : WellFormed(history[i][p])
             /\ \A i \in 1 .. Len(fifo[p]) : fifo[p][i].obj.phase # "none"
OnceGone(p) == \A i, j, k \in Ahead :
    i <= j /\ j <= k /\ history[i][p] # NoPod /\ history[j][p] = NoPod => history[k][p] = NoPod
NoRevival(p) == \A i, j \in Ahead :
    i <= j /\ history[i][p].phase = "terminating" => history[j][p].phase # "active"
KnownGone(p) == Known(p) => \A i, j \in Ahead : i <= j /\ history[i][p] = NoPod => history[j][p] = NoPod
GoneLast(p) == \A i \in 1 .. Len(fifo[p]) : fifo[p][i].obj.phase = "gone" =>
    i = Len(fifo[p]) /\ \A k \in Ahead : history[k][p] = NoPod
EndsLast(p) == \A i \in 1 .. Len(fifo[p]) : fifo[p][i].obj.phase = "terminating" =>
    /\ \A j \in 1 .. Len(fifo[p]) : j > i => fifo[p][j].obj.phase # "active"
    /\ \A k \in Ahead : history[k][p].phase # "active"
NoCacheRevival(p) == cache[p].phase = "terminating" => ~ActiveComing(p)
Arrives(p) == history[received][p] # NoPod => Latest(p) = history[received][p]
PodStore(p) == /\ Phases(p) /\ OnceGone(p) /\ NoRevival(p) /\ KnownGone(p) /\ GoneLast(p)
               /\ EndsLast(p) /\ NoCacheRevival(p) /\ Arrives(p)
Newest == history[Len(history)] = api
StoreInv == Newest /\ \A p \in Pods : PodStore(p)

\* Notifications of an end come after everything else about the pod, and a pod is
\* announced once.
Over(p) == api[p].phase # "active" /\ cache[p].phase # "active" /\ ~ActiveComing(p)
EndsAreTrue == \A i \in 1 .. Len(notes) :
                 /\ notes[i].kind = "delete" => notes[i].obj.phase = "gone"
                 /\ \A p \in Pods : notes[i].pod = p /\ notes[i].obj.phase \in {"terminating", "gone"} => Over(p)
AnnouncedOnce == \A i, j \in 1 .. Len(notes) :
                   notes[i].kind = "add" /\ notes[j].kind = "add" /\ notes[i].pod = notes[j].pod => i = j
NotesInv == EndsAreTrue /\ AnnouncedOnce /\ Announced \cap Unseen = {}

HeldInv == Held \cap Unseen = {}
DoneInv == \A p \in Pods : done[p] = "deleted" =>
             api[p].phase # "active" /\ (cache[p].phase # "active" => ~ActiveComing(p))
StructInv == StoreInv /\ NotesInv /\ HeldInv /\ DoneInv

-----------------------------------------------------------------------------
LEMMA AheadFacts ==
  ASSUME TypeOK
  PROVE  /\ Len(history) \in Nat /\ received \in Nat \ {0} /\ received <= Len(history)
         /\ received \in Ahead /\ Len(history) \in Ahead
         /\ \A i \in Ahead : i \in Nat /\ i \in 1 .. Len(history) /\ received <= i /\ i <= Len(history)
         /\ \A i \in Nat : received <= i /\ i <= Len(history) => i \in Ahead
         /\ \A i \in 1 .. Len(history) : history[i] \in States /\ \A p \in Pods : history[i][p] \in PodObject
<1>1. history \in Seq(States) /\ received \in 1 .. Len(history) /\ Len(history) \in Nat
  BY DEF TypeOK, States
<1>2. \A i \in 1 .. Len(history) : history[i] \in States
  BY <1>1
<1>3. \A i \in 1 .. Len(history) : \A p \in Pods : history[i][p] \in PodObject
  BY <1>2 DEF States
<1>4. QED
  BY <1>1, <1>2, <1>3 DEF Ahead

LEMMA FifoFacts ==
  ASSUME TypeOK, NEW p \in Pods
  PROVE  /\ fifo[p] \in Seq(Delta) /\ Len(fifo[p]) \in Nat
         /\ \A i \in 1 .. Len(fifo[p]) : fifo[p][i].obj \in PodObject
         /\ fifo[p] # <<>> <=> Len(fifo[p]) > 0
         /\ fifo[p] # <<>> => Latest(p) = fifo[p][Len(fifo[p])].obj /\ Len(fifo[p]) \in 1 .. Len(fifo[p])
         /\ fifo[p] = <<>> => Latest(p) = cache[p]
         /\ WillBeDeleted(p) <=> fifo[p] # <<>> /\ fifo[p][Len(fifo[p])].obj.phase = "gone"
<1>1. fifo[p] \in Seq(Delta) /\ Len(fifo[p]) \in Nat
  BY DEF TypeOK
<1>2. \A i \in 1 .. Len(fifo[p]) : fifo[p][i].obj \in PodObject
  <2>1. \A i \in 1 .. Len(fifo[p]) : fifo[p][i] \in Delta
    BY <1>1
  <2>2. QED
    BY <2>1 DEF Delta
<1>3. fifo[p] # <<>> <=> Len(fifo[p]) > 0
  BY <1>1
<1>4. QED
  BY <1>1, <1>2, <1>3 DEF Latest, WillBeDeleted, Last

LEMMA FreshFacts ==
  ASSUME TypeOK, NEW p \in Pods, Fresh(p)
  PROVE  /\ api[p] = NoPod /\ cache[p] = NoPod /\ fifo[p] = <<>> /\ ~Known(p)
         /\ \A i \in Ahead : history[i][p] = NoPod
         /\ ~Coming(p) /\ ~ActiveComing(p) /\ p \notin Unhandled /\ p \notin Held
         /\ \A i \in 1 .. Len(notes) : notes[i].pod # p
<1>1. notes \in Seq(Notes)
  BY DEF TypeOK
<1>2. /\ api[p] = NoPod /\ cache[p] = NoPod /\ fifo[p] = <<>>
      /\ \A i \in Ahead : history[i][p] = NoPod
      /\ \A i \in 1 .. Len(notes) : notes[i].pod # p
  BY <1>1 DEF Fresh, Arrived, Ahead
<1>3. NoPod.phase = "none" /\ Len(fifo[p]) = 0
  BY <1>2 DEF NoPod
<1>4. ~Coming(p) /\ ~ActiveComing(p)
  BY <1>2, <1>3 DEF Coming, ActiveComing
<1>5. p \notin Unhandled /\ p \notin Held
  BY <1>2, <1>4 DEF Fresh, Unhandled, Unseen, Announced, Held
<1>6. QED
  BY <1>2, <1>4, <1>5 DEF Known

\* A step that brings no pod but those of F: for the others nothing active appears.
LEMMA CalmStep ==
  ASSUME TypeOK, StructInv, UNCHANGED <<cache, notes>>, NEW F \in SUBSET Pods,
         \A q \in Pods \ F : /\ api'[q].phase = "active" => api[q].phase = "active"
                             /\ ActiveComing(q)' => ActiveComing(q),
         \A q \in F : q \notin Held' /\ done'[q] # "deleted" /\ \A i \in 1 .. Len(notes) : notes[i].pod # q,
         Unseen' \subseteq Unseen \cup F,
         \A q \in Pods : q \in Held' => q \in Held \/ cache[q] # NoPod,
         \A q \in Pods : done'[q] = "deleted" =>
           \/ done[q] = "deleted"
           \/ api'[q].phase # "active" /\ (cache[q].phase # "active" => ~ActiveComing(q))
  PROVE  NotesInv' /\ HeldInv' /\ DoneInv' /\ Announced' = Announced
<1>1. Announced' = Announced /\ Announced \subseteq Pods /\ Held' \subseteq Pods
  BY DEF Announced, Held
<1>2. EndsAreTrue'
  <2>1. ASSUME NEW i \in 1 .. Len(notes), NEW q \in Pods, notes[i].pod = q,
               notes[i].obj.phase \in {"terminating", "gone"}
        PROVE  Over(q)'
    <3>1. Over(q) /\ q \notin F
      BY <2>1 DEF StructInv, NotesInv, EndsAreTrue
    <3>2. QED
      BY <3>1 DEF Over
  <2>2. QED
    BY <2>1 DEF StructInv, NotesInv, EndsAreTrue
<1>3. AnnouncedOnce'
  BY DEF StructInv, NotesInv, AnnouncedOnce
<1>4. F \cap Announced = {}
  BY DEF Announced
<1>5. NotesInv'
  BY <1>1, <1>2, <1>3, <1>4 DEF StructInv, NotesInv
<1>6. HeldInv'
  BY <1>1 DEF StructInv, HeldInv, Unseen
<1>7. DoneInv'
  <2> SUFFICES ASSUME NEW q \in Pods, done'[q] = "deleted"
               PROVE  api'[q].phase # "active" /\ (cache[q].phase # "active" => ~ActiveComing(q)')
    BY DEF DoneInv
  <2>1. q \notin F
    OBVIOUS
  <2>2. done[q] = "deleted" => api[q].phase # "active" /\ (cache[q].phase # "active" => ~ActiveComing(q))
    BY DEF StructInv, DoneInv
  <2>3. QED
    BY <2>1, <2>2
<1>8. QED
  BY <1>1, <1>5, <1>6, <1>7

\* A state is added, in which p is o.
Written(p, o) ==
  /\ Len(history') = Len(history) + 1 /\ history'[Len(history) + 1] = api'
  /\ \A i \in Ahead : history'[i] = history[i]
  /\ \A q \in Pods : api'[q] = IF q = p THEN o ELSE api[q]

\* A write that does not bring a pod back, or creates one with a new name.
WriteOK(p, o) ==
  /\ WellFormed(o)
  /\ \/ Fresh(p)
     \/ api[p] # NoPod /\ (o.phase = "active" => api[p].phase = "active")

LEMMA WriteComing ==
  ASSUME TypeOK, StoreInv, NEW p \in Pods, NEW o \in PodObject, WriteOK(p, o),
         Written(p, o), UNCHANGED <<received, fifo, cache>>
  PROVE  /\ \A q \in Pods : ~(q = p /\ Fresh(p)) =>
              (Coming(q)' <=> Coming(q)) /\ (ActiveComing(q)' => ActiveComing(q))
         /\ Fresh(p) /\ o # NoPod => Coming(p)'
<1> DEFINE n == Len(history)
<1>1. /\ n \in Nat /\ received \in Nat \ {0} /\ received <= n /\ n \in Ahead
      /\ \A i \in Ahead : i \in Nat /\ received <= i /\ i <= n
  BY AheadFacts
<1>2. /\ n + 1 \in Ahead' /\ Ahead \subseteq Ahead' /\ \A i \in Ahead' : i \in Ahead \/ i = n + 1
  BY <1>1 DEF Ahead, Written
<1>3. \A q \in Pods : history[n][q] = api[q]
  BY DEF StoreInv, Newest
<1>4. /\ history'[n + 1] = api' /\ \A i \in Ahead : history'[i] = history[i]
      /\ \A q \in Pods : api'[q] = IF q = p THEN o ELSE api[q]
  BY DEF Written
<1> HIDE DEF n
<1>5. ASSUME NEW q \in Pods, ~(q = p /\ Fresh(p)), Coming(q)' PROVE Coming(q)
  BY <1>1, <1>2, <1>3, <1>4, <1>5 DEF Coming, WriteOK
<1>6. ASSUME NEW q \in Pods, Coming(q) PROVE Coming(q)'
  BY <1>2, <1>4, <1>6 DEF Coming
<1>7. ASSUME NEW q \in Pods, ~(q = p /\ Fresh(p)), ActiveComing(q)' PROVE ActiveComing(q)
  BY <1>1, <1>2, <1>3, <1>4, <1>7 DEF ActiveComing, WriteOK
<1>8. o # NoPod => Coming(p)'
  BY <1>2, <1>4 DEF Coming
<1>9. QED
  BY <1>5, <1>6, <1>7, <1>8

LEMMA WriteStore ==
  ASSUME TypeOK, StoreInv, NEW p \in Pods, NEW o \in PodObject, WriteOK(p, o),
         Written(p, o), UNCHANGED <<received, fifo, cache>>
  PROVE  StoreInv'
<1> DEFINE n == Len(history)
<1>1. /\ n \in Nat /\ received \in Nat \ {0} /\ received <= n /\ n \in Ahead /\ received \in Ahead
      /\ \A i \in Ahead : i \in Nat /\ received <= i /\ i <= n
  BY AheadFacts
<1>2. /\ Len(history') = n + 1
      /\ n + 1 \in Ahead' /\ Ahead \subseteq Ahead' /\ \A i \in Ahead' : i \in Ahead \/ i = n + 1
  BY <1>1 DEF Ahead, Written
<1>3. \A q \in Pods : history[n][q] = api[q]
  BY DEF StoreInv, Newest
<1>4. /\ history'[n + 1] = api' /\ \A i \in Ahead : history'[i] = history[i]
      /\ \A q \in Pods : api'[q] = IF q = p THEN o ELSE api[q]
  BY DEF Written
<1> HIDE DEF n
<1>5. ASSUME NEW q \in Pods PROVE PodStore(q)'
  <2>0. PodStore(q)
    BY DEF StoreInv
  <2>1. \A i \in Ahead' : i \in Nat /\ received <= i /\ ((i \in Ahead /\ i <= n) \/ i = n + 1)
    BY <1>1, <1>2
  <2>2. q = p /\ ~Fresh(p) => api[q] # NoPod /\ (o.phase = "active" => api[q].phase = "active")
    BY DEF WriteOK
  <2>3. q = p /\ Fresh(p) => ~Known(q) /\ cache[q] = NoPod /\ Len(fifo[q]) = 0 /\ \A i \in Ahead : history[i][q] = NoPod
    BY FreshFacts, FifoFacts
  <2>4. Phases(q)'
    BY <1>2, <1>4, <2>0, <2>1 DEF PodStore, Phases, WriteOK, WellFormed
  <2>5. OnceGone(q)'
    <3> SUFFICES ASSUME NEW i \in Ahead', NEW j \in Ahead', NEW k \in Ahead', i <= j, j <= k,
                        history'[i][q] # NoPod, history'[j][q] = NoPod
                 PROVE  history'[k][q] = NoPod
      BY DEF OnceGone
    <3>1. CASE k \in Ahead
      BY <1>1, <1>4, <2>0, <2>1, <3>1 DEF PodStore, OnceGone
    <3>2. CASE k = n + 1 /\ j \in Ahead
      <4>1. i \in Ahead /\ history[i][q] # NoPod /\ history[j][q] = NoPod /\ j <= n
        BY <1>1, <1>4, <2>1, <3>2
      <4>2. api[q] = NoPod
        BY <1>1, <1>3, <2>0, <3>2, <4>1 DEF PodStore, OnceGone
      <4>3. q # p
        BY <2>2, <2>3, <4>1, <4>2
      <4>4. QED
        BY <1>4, <3>2, <4>2, <4>3
    <3>3. CASE k = n + 1 /\ j = n + 1
      BY <3>3
    <3>4. QED
      BY <1>2, <3>1, <3>2, <3>3
  <2>6. NoRevival(q)'
    <3> SUFFICES ASSUME NEW i \in Ahead', NEW j \in Ahead', i <= j, history'[i][q].phase = "terminating"
                 PROVE  history'[j][q].phase # "active"
      BY DEF NoRevival
    <3>1. CASE j \in Ahead
      BY <1>1, <1>4, <2>0, <2>1, <3>1 DEF PodStore, NoRevival
    <3>2. CASE j = n + 1 /\ i \in Ahead
      <4>1. i <= n /\ history[i][q].phase = "terminating"
        BY <1>1, <1>4, <3>2
      <4>2. api[q].phase # "active"
        BY <1>1, <1>3, <2>0, <3>2, <4>1 DEF PodStore, NoRevival
      <4>3. q = p => o.phase # "active"
        <5>1. NoPod.phase = "none"
          BY DEF NoPod
        <5>2. QED
          BY <2>2, <2>3, <3>2, <4>1, <4>2, <5>1
      <4>4. QED
        BY <1>4, <3>2, <4>2, <4>3
    <3>3. CASE j = n + 1 /\ i = n + 1
      BY <3>3
    <3>4. QED
      BY <1>2, <3>1, <3>2, <3>3
  <2>7. KnownGone(q)'
    <3> SUFFICES ASSUME Known(q), NEW i \in Ahead', NEW j \in Ahead', i <= j, history'[i][q] = NoPod
                 PROVE  history'[j][q] = NoPod
      BY DEF KnownGone, Known
    <3>1. CASE j \in Ahead
      BY <1>1, <1>4, <2>0, <2>1, <3>1 DEF PodStore, KnownGone
    <3>2. CASE j = n + 1 /\ i \in Ahead
      <4>1. i <= n /\ history[i][q] = NoPod
        BY <1>1, <1>4, <3>2
      <4>2. api[q] = NoPod
        BY <1>1, <1>3, <2>0, <3>2, <4>1 DEF PodStore, KnownGone
      <4>3. QED
        BY <1>4, <2>2, <2>3, <3>2, <4>2
    <3>3. CASE j = n + 1 /\ i = n + 1
      BY <3>3
    <3>4. QED
      BY <1>2, <3>1, <3>2, <3>3
  <2>8. GoneLast(q)'
    <3> SUFFICES ASSUME NEW i \in 1 .. Len(fifo[q]), fifo[q][i].obj.phase = "gone"
                 PROVE  i = Len(fifo[q]) /\ \A k \in Ahead' : history'[k][q] = NoPod
      BY DEF GoneLast
    <3>1. i = Len(fifo[q]) /\ \A k \in Ahead : history[k][q] = NoPod
      BY <2>0 DEF PodStore, GoneLast
    <3>2. api[q] = NoPod /\ q # p
      BY <1>1, <1>3, <2>2, <2>3, <3>1
    <3>3. QED
      BY <1>2, <1>4, <3>1, <3>2
  <2>9. EndsLast(q)'
    <3> SUFFICES ASSUME NEW i \in 1 .. Len(fifo[q]), fifo[q][i].obj.phase = "terminating"
                 PROVE  /\ \A j \in 1 .. Len(fifo[q]) : j > i => fifo[q][j].obj.phase # "active"
                        /\ \A k \in Ahead' : history'[k][q].phase # "active"
      BY DEF EndsLast
    <3>1. /\ \A j \in 1 .. Len(fifo[q]) : j > i => fifo[q][j].obj.phase # "active"
          /\ \A k \in Ahead : history[k][q].phase # "active"
      BY <2>0 DEF PodStore, EndsLast
    <3>2. api[q].phase # "active" /\ (q = p => o.phase # "active")
      BY <1>1, <1>3, <2>2, <2>3, <3>1
    <3>3. QED
      BY <1>2, <1>4, <3>1, <3>2
  <2>10. NoCacheRevival(q)'
    <3>1. NoPod.phase = "none"
      BY DEF NoPod
    <3>2. ~(q = p /\ Fresh(p)) => (ActiveComing(q)' => ActiveComing(q))
      BY WriteComing
    <3>3. QED
      BY <2>0, <2>3, <3>1, <3>2 DEF PodStore, NoCacheRevival
  <2>11. Arrives(q)'
    BY <1>1, <1>4, <2>0 DEF PodStore, Arrives, Latest
  <2>12. QED
    BY <2>4, <2>5, <2>6, <2>7, <2>8, <2>9, <2>10, <2>11 DEF PodStore
<1>6. QED
  BY <1>2, <1>4, <1>5 DEF StoreInv, Newest

\* Nothing happens to the pods, and the sync goes on with pods that the informer
\* has, or with some of those that it had.
HoldsKnown == \A p \in Pods : p \in Held' => p \in Held \/ cache[p] # NoPod

LEMMA SameComing ==
  ASSUME UNCHANGED <<history, received, fifo>>, NEW p
  PROVE  (Coming(p)' <=> Coming(p)) /\ (ActiveComing(p)' <=> ActiveComing(p))
BY DEF Coming, ActiveComing, Ahead

LEMMA SameStore ==
  ASSUME StoreInv, UNCHANGED <<api, history, received, fifo, cache>>
  PROVE  StoreInv'
<1>1. ASSUME NEW p \in Pods PROVE PodStore(p)'
  <2>1. PodStore(p) /\ Ahead' = Ahead
    BY DEF StoreInv, Ahead
  <2>2. Phases(p)' /\ OnceGone(p)' /\ NoRevival(p)' /\ KnownGone(p)'
    BY <2>1 DEF PodStore, Phases, OnceGone, NoRevival, KnownGone, Known
  <2>3. GoneLast(p)' /\ EndsLast(p)' /\ NoCacheRevival(p)' /\ Arrives(p)'
    BY <2>1, SameComing DEF PodStore, GoneLast, EndsLast, NoCacheRevival, Arrives, Latest
  <2>4. QED
    BY <2>2, <2>3 DEF PodStore
<1>2. QED
  BY <1>1 DEF StoreInv, Newest

LEMMA QuietStep ==
  ASSUME TypeOK, StructInv, UNCHANGED <<api, history, received, fifo, cache, notes, done>>, HoldsKnown
  PROVE  StructInv' /\ Unhandled' = Unhandled /\ Stale' = Stale
<1>1. StoreInv'
  BY SameStore DEF StructInv
<1>2. Unseen' = Unseen /\ Stale' = Stale
  BY SameComing DEF Unseen, Stale
<1>3. NotesInv' /\ HeldInv' /\ DoneInv' /\ Announced' = Announced
  <2>1. \A q \in Pods : ActiveComing(q)' => ActiveComing(q)
    BY SameComing
  <2>2. {} \in SUBSET Pods
    OBVIOUS
  <2>3. QED
    BY <1>2, <2>1, <2>2, CalmStep DEF HoldsKnown
<1>4. QED
  BY <1>1, <1>2, <1>3 DEF StructInv, Unhandled

\* A write that changes a pod adds a state.
LEMMA WriteShape ==
  ASSUME TypeOK, NEW p \in Pods, NEW o \in PodObject, WritePod(p, o), Stored(o) # api[p]
  PROVE  Written(p, Stored(o))
<1>1. api \in States /\ history \in Seq(States) /\ Stored(o) \in PodObject
  BY PodObjects DEF TypeOK, States
<1>2. api' \in States /\ \A q \in Pods : api'[q] = IF q = p THEN Stored(o) ELSE api[q]
  BY <1>1 DEF WritePod, States
<1>3. history' = Append(history, api')
  BY <1>2 DEF WritePod
<1>4. /\ Len(history') = Len(history) + 1 /\ history'[Len(history) + 1] = api'
      /\ \A i \in 1 .. Len(history) : history'[i] = history[i]
  BY <1>1, <1>2, <1>3
<1>5. QED
  BY <1>2, <1>4, AheadFacts DEF Written

LEMMA SameWrite ==
  ASSUME TypeOK, NEW p \in Pods, NEW o \in PodObject, WritePod(p, o), Stored(o) = api[p]
  PROVE  UNCHANGED <<api, history>>
<1>1. api \in States
  BY DEF TypeOK, States
<1>2. api' = api
  BY <1>1 DEF WritePod, States
<1>3. QED
  BY <1>2 DEF WritePod

LEMMA StoredFacts ==
  ASSUME NEW o \in PodObject, o.phase # "none"
  PROVE  /\ WellFormed(Stored(o)) /\ Stored(o) \in PodObject
         /\ Stored(o).phase = "active" <=> o.phase = "active"
         /\ Stored(o).phase = "terminating" <=> o.phase = "terminating"
         /\ Stored(o) = NoPod <=> o.phase = "gone"
         /\ o.phase # "gone" => Stored(o) = o
<1>1. NoPod.phase = "none" /\ NoPod \in PodObject
  BY Objects DEF NoPod
<1>2. QED
  BY <1>1 DEF Stored, WellFormed

\* The writes of users, of kubelets and of a sync: a sync that deletes counts a pod
\* that it holds as deleted.
LEMMA KnownWrite ==
  ASSUME TypeOK, StructInv, NEW p \in Pods, NEW o \in PodObject,
         o.phase # "none", api[p] # NoPod, o.phase = "active" => api[p].phase = "active",
         WritePod(p, o), UNCHANGED <<received, fifo, cache, notes>>, Held' \subseteq Held,
         \A q \in Pods : done'[q] = "deleted" =>
           done[q] = "deleted" \/ (q = p /\ o.phase # "active" /\ p \in Held)
  PROVE  /\ StructInv' /\ Unhandled' = Unhandled
         /\ \A q \in Pods : api'[q].phase = "active" => api[q].phase = "active"
<1>1. /\ WellFormed(Stored(o)) /\ Stored(o) \in PodObject /\ StoreInv
      /\ Stored(o).phase = "active" => api[p].phase = "active"
      /\ o.phase # "active" => Stored(o).phase # "active"
  BY StoredFacts DEF StructInv
<1>2. WriteOK(p, Stored(o)) /\ ~Fresh(p)
  BY <1>1 DEF WriteOK, Fresh
<1>3. StoreInv' /\ \A q \in Pods : (Coming(q)' <=> Coming(q)) /\ (ActiveComing(q)' => ActiveComing(q))
  <2>1. CASE Stored(o) = api[p]
    <3>1. UNCHANGED <<api, history>>
      BY <2>1, SameWrite
    <3>2. QED
      BY <1>1, <3>1, SameStore, SameComing
  <2>2. CASE Stored(o) # api[p]
    BY <1>1, <1>2, <2>2, WriteShape, WriteStore, WriteComing
  <2>3. QED
    BY <2>1, <2>2
<1>4. \A q \in Pods : api'[q] = IF q = p THEN Stored(o) ELSE api[q]
  BY DEF WritePod, TypeOK
<1>5. \A q \in Pods : api'[q].phase = "active" => api[q].phase = "active"
  BY <1>1, <1>4
<1>6. Unseen' = Unseen
  BY <1>3 DEF Unseen
<1>7. ASSUME NEW q \in Pods, done'[q] = "deleted", done[q] # "deleted"
      PROVE  api'[q].phase # "active" /\ (cache[q].phase # "active" => ~ActiveComing(q))
  <2>1. q = p /\ p \in Held /\ api'[q].phase # "active"
    BY <1>1, <1>4, <1>7
  <2>2. Coming(p)
    BY <1>1, AheadFacts DEF StoreInv, Newest, Coming
  <2>3. cache[p] # NoPod
    BY <2>1, <2>2 DEF StructInv, HeldInv, Unseen
  <2>4. cache[p].phase \in {"active", "terminating"}
    <3>1. cache[p] \in PodObject
      BY DEF TypeOK
    <3>2. QED
      BY <1>1, <2>3, <3>1 DEF StoreInv, PodStore, Phases, WellFormed, PodObject
  <2>5. QED
    BY <1>1, <2>1, <2>4 DEF StoreInv, PodStore, NoCacheRevival
<1>8. NotesInv' /\ HeldInv' /\ DoneInv' /\ Announced' = Announced
  <2>1. {} \in SUBSET Pods
    OBVIOUS
  <2>2. \A q \in Pods : done'[q] = "deleted" =>
           \/ done[q] = "deleted"
           \/ api'[q].phase # "active" /\ (cache[q].phase # "active" => ~ActiveComing(q))
    BY <1>7
  <2>3. QED
    BY <1>3, <1>5, <1>6, <2>1, <2>2, CalmStep
<1>9. QED
  BY <1>3, <1>5, <1>6, <1>8 DEF StructInv, Unhandled

LEMMA PlainWrite ==
  ASSUME TypeOK, StructInv, NEW p \in Pods, NEW o \in PodObject,
         o.phase # "none", api[p] # NoPod, o.phase = "active" => api[p].phase = "active",
         WritePod(p, o), UNCHANGED <<received, fifo, cache, notes, done>>, Held' \subseteq Held
  PROVE  /\ StructInv' /\ Unhandled' = Unhandled /\ Stale' = Stale
         /\ \A q \in Pods : api'[q].phase = "active" => api[q].phase = "active"
<1>1. Stale' = Stale
  BY DEF Stale
<1>2. QED
  BY <1>1, KnownWrite

\* DeletePod takes effect.
LEMMA DeletingWrite ==
  ASSUME TypeOK, StructInv, NEW p \in Pods, NEW ph \in {"terminating", "gone"}, api[p].phase = "active",
         WritePod(p, [api[p] EXCEPT !.phase = ph]), done' = [done EXCEPT ![p] = "deleted"],
         UNCHANGED <<received, fifo, cache, notes>>, p \in Held, Held' \subseteq Held
  PROVE  /\ StructInv' /\ Unhandled' = Unhandled /\ Stale' \subseteq Stale \cup {p}
         /\ \A q \in Pods : api'[q].phase = "active" => api[q].phase = "active"
<1> DEFINE o == [api[p] EXCEPT !.phase = ph]
<1>1. o \in PodObject /\ o.phase = ph
  <2>1. api[p] \in PodObject
    BY DEF TypeOK
  <2>2. QED
    BY <2>1, PodObjects DEF PodObject
<1>2. NoPod.phase = "none" /\ WritePod(p, o)
  BY DEF NoPod
<1> HIDE DEF o
<1>3. \A q \in Pods : done'[q] = "deleted" =>
        done[q] = "deleted" \/ (q = p /\ o.phase # "active" /\ p \in Held)
  BY <1>1 DEF TypeOK
<1>4. /\ StructInv' /\ Unhandled' = Unhandled
      /\ \A q \in Pods : api'[q].phase = "active" => api[q].phase = "active"
  BY <1>1, <1>2, <1>3, KnownWrite
<1>5. Stale' \subseteq Stale \cup {p}
  BY DEF Stale, TypeOK
<1>6. QED
  BY <1>4, <1>5

\* CreatePod takes effect.
LEMMA CreatingWrite ==
  ASSUME TypeOK, StructInv, NEW p \in Pods, Fresh(p),
         WriteNewPod(p, [phase |-> "active", own |-> TRUE, match |-> TRUE]),
         done' = [done EXCEPT ![p] = "created"],
         UNCHANGED <<received, fifo, cache, notes, view, todo>>
  PROVE  StructInv' /\ Unhandled' = Unhandled \cup {p} /\ p \notin Unhandled /\ Stale' \subseteq Stale \ {p}
<1> DEFINE o == [phase |-> "active", own |-> TRUE, match |-> TRUE]
<1>1. o \in PodObject /\ o.phase = "active" /\ WriteNewPod(p, o)
  BY DEF PodObject
<1>2. NoPod.phase = "none"
  BY DEF NoPod
<1> HIDE DEF o
<1>3. /\ api[p] = NoPod /\ cache[p] = NoPod /\ (\A i \in Ahead : history[i][p] = NoPod)
      /\ p \notin Unhandled /\ p \notin Held /\ \A i \in 1 .. Len(notes) : notes[i].pod # p
  BY FreshFacts
<1>4. Written(p, o)
  <2>1. /\ Len(history') = Len(history) + 1 /\ history'[Len(history) + 1] = api'
        /\ api' = [api EXCEPT ![p] = o]
        /\ \A i \in 1 .. Len(history) : history'[i] = [history[i] EXCEPT ![p] = NoPod]
    BY <1>1, WriteNewPodType
  <2>2. \A i \in Ahead : history'[i] = history[i]
    <3> TAKE i \in Ahead
    <3>1. i \in 1 .. Len(history) /\ history[i] \in [Pods -> PodObject]
      BY AheadFacts DEF States
    <3>2. [history[i] EXCEPT ![p] = NoPod] = history[i]
      BY <1>3, <3>1
    <3>3. QED
      BY <2>1, <3>1, <3>2
  <2>3. QED
    BY <2>1, <2>2 DEF Written, TypeOK
<1>5. WriteOK(p, o) /\ StoreInv /\ o # NoPod
  BY <1>1, <1>2 DEF WriteOK, WellFormed, StructInv
<1>6. StoreInv'
  BY <1>1, <1>4, <1>5, WriteStore
<1>7. /\ \A q \in Pods \ {p} : (Coming(q)' <=> Coming(q)) /\ (ActiveComing(q)' => ActiveComing(q))
      /\ Coming(p)'
  BY <1>1, <1>4, <1>5, WriteComing
<1>8. \A q \in Pods \ {p} : api'[q] = api[q]
  BY <1>4 DEF Written
<1>9. Unseen' = Unseen \cup {p}
  BY <1>3, <1>7 DEF Unseen
<1>10. Held' = Held
  BY DEF Held
<1>11. NotesInv' /\ HeldInv' /\ DoneInv' /\ Announced' = Announced
  <2>1. {p} \in SUBSET Pods
    OBVIOUS
  <2>2. \A q \in Pods : done'[q] = "deleted" => done[q] = "deleted"
    BY DEF TypeOK
  <2>3. \A q \in {p} : q \notin Held' /\ done'[q] # "deleted" /\ \A i \in 1 .. Len(notes) : notes[i].pod # q
    BY <1>3, <1>10 DEF TypeOK
  <2>4. QED
    BY <1>7, <1>8, <1>9, <1>10, <2>1, <2>2, <2>3, CalmStep
<1>12. Stale' \subseteq Stale \ {p}
  BY DEF Stale, TypeOK
<1>13. QED
  BY <1>3, <1>6, <1>9, <1>11, <1>12 DEF StructInv, Unhandled

\* A delta with the object o is put at the end of those of q.
Extends(q, o) == /\ Len(fifo'[q]) = Len(fifo[q]) + 1 /\ fifo'[q][Len(fifo[q]) + 1].obj = o
                 /\ \A i \in 1 .. Len(fifo[q]) : fifo'[q][i] = fifo[q][i]

\* The reflector gets to the state w: by the watch, which may leave k old ones behind, or by a list.
Advance(w, k) == /\ Len(history') = Len(history) - k /\ received' = w - k
                 /\ \A i \in Ahead' : history'[i] = history[i + k]
AdvancePod(q, w) ==
  \/ fifo'[q] = fifo[q] /\ (history[w][q] = NoPod \/ Latest(q) = history[w][q])
  \/ history[w][q] # NoPod /\ Extends(q, history[w][q])
  \/ /\ history[w][q] = NoPod /\ Known(q) /\ ~WillBeDeleted(q)
     /\ \E o \in PodObject : o.phase = "gone" /\ Extends(q, o)

LEMMA AdvanceStore ==
  ASSUME TypeOK, TypeOK', StoreInv, UNCHANGED cache, NEW w \in Ahead, NEW k \in Nat, Advance(w, k),
         NEW q \in Pods, AdvancePod(q, w), api' = api
  PROVE  /\ PodStore(q)' /\ (ActiveComing(q)' => ActiveComing(q))
         /\ cache[q] = NoPod /\ Coming(q)' => Coming(q)
<1> DEFINE n == Len(fifo[q])
<1>1. /\ w \in Nat /\ received \in Nat /\ received <= w
      /\ \A i \in Ahead : i \in Nat /\ received <= i /\ i <= Len(history)
      /\ \A i \in Nat : received <= i /\ i <= Len(history) => i \in Ahead
      /\ Len(history) \in Nat
  BY AheadFacts
<1>2. /\ \A i \in Ahead' : i \in Nat /\ i + k \in Ahead /\ w <= i + k /\ history'[i] = history[i + k]
      /\ received' \in Ahead' /\ history'[received'] = history[w]
  <2>1. /\ received' \in Nat /\ received' = w - k /\ Len(history') = Len(history) - k
        /\ received' <= Len(history')
    BY <1>1 DEF Advance, TypeOK
  <2>2. \A i \in Ahead' : i \in Nat /\ received' <= i /\ i <= Len(history')
    BY <1>1, <2>1 DEF Ahead
  <2>3. received' \in Ahead'
    BY <1>1, <2>1 DEF Ahead
  <2>4. \A i \in Ahead' : i + k \in Nat /\ w <= i + k /\ i + k <= Len(history)
    BY <1>1, <2>1, <2>2
  <2>5. \A i \in Ahead' : i + k \in Ahead
    BY <1>1, <2>4
  <2>6. received' + k = w
    BY <1>1, <2>1
  <2>7. QED
    BY <2>2, <2>3, <2>4, <2>5, <2>6 DEF Advance
<1>3. PodStore(q) /\ n \in Nat /\ fifo[q] \in Seq(Delta) /\ fifo'[q] \in Seq(Delta)
  BY FifoFacts DEF StoreInv, TypeOK
<1>4. /\ fifo[q] # <<>> <=> n > 0
      /\ Latest(q) = IF n = 0 THEN cache[q] ELSE fifo[q][n].obj
      /\ Latest(q)' = IF Len(fifo'[q]) = 0 THEN cache[q] ELSE fifo'[q][Len(fifo'[q])].obj
      /\ WillBeDeleted(q) <=> n > 0 /\ fifo[q][n].obj.phase = "gone"
  BY <1>3 DEF Latest, Last, WillBeDeleted
<1>5. NoPod.phase = "none"
  BY DEF NoPod
\* The deltas of q: as they were, or with one more, of what the reflector has got to or of q's end.
<1>6. ASSUME NEW i \in 1 .. Len(fifo'[q])
      PROVE  \/ i \in 1 .. n /\ fifo'[q][i] = fifo[q][i]
             \/ i = n + 1 /\ Len(fifo'[q]) = n + 1 /\ history[w][q] # NoPod /\ fifo'[q][i].obj = history[w][q]
             \/ /\ i = n + 1 /\ Len(fifo'[q]) = n + 1 /\ history[w][q] = NoPod /\ fifo'[q][i].obj.phase = "gone"
                /\ Known(q) /\ ~WillBeDeleted(q)
  BY <1>3, <1>6 DEF AdvancePod, Extends
<1>7. \/ Len(fifo'[q]) = n
      \/ Len(fifo'[q]) = n + 1 /\ (history[w][q] # NoPod \/ (Known(q) /\ ~WillBeDeleted(q)))
  BY DEF AdvancePod, Extends
<1> HIDE DEF n
<1>8. ASSUME ActiveComing(q)' PROVE ActiveComing(q)
  <2>1. CASE \E i \in 1 .. Len(fifo'[q]) : fifo'[q][i].obj.phase = "active"
    <3>1. PICK i \in 1 .. Len(fifo'[q]) : fifo'[q][i].obj.phase = "active"
      BY <2>1
    <3>2. CASE i \in 1 .. n /\ fifo'[q][i] = fifo[q][i]
      BY <3>1, <3>2 DEF ActiveComing, n
    <3>3. CASE fifo'[q][i].obj = history[w][q]
      BY <3>1, <3>3 DEF ActiveComing
    <3>4. QED
      BY <1>6, <3>1, <3>2, <3>3
  <2>2. CASE \E i \in Ahead' : history'[i][q].phase = "active"
    BY <1>2, <2>2 DEF ActiveComing
  <2>3. QED
    BY <1>8, <2>1, <2>2 DEF ActiveComing
<1>9. ASSUME cache[q] = NoPod, Coming(q)' PROVE Coming(q)
  <2>1. CASE fifo'[q] # <<>>
    BY <1>3, <1>4, <1>7, <1>9, <2>1 DEF Coming, Known
  <2>2. CASE \E i \in Ahead' : history'[i][q] # NoPod
    BY <1>2, <2>2 DEF Coming
  <2>3. QED
    BY <1>9, <2>1, <2>2 DEF Coming
<1>10. Phases(q)'
  <2>1. \A i \in 1 .. Len(fifo'[q]) : fifo'[q][i].obj.phase # "none"
    <3> TAKE i \in 1 .. Len(fifo'[q])
    <3>1. \A j \in 1 .. n : fifo[q][j].obj.phase # "none"
      BY <1>3 DEF PodStore, Phases, n
    <3>2. WellFormed(history[w][q])
      BY <1>3 DEF PodStore, Phases
    <3>3. QED
      BY <1>6, <3>1, <3>2 DEF WellFormed
  <2>2. QED
    BY <1>2, <1>3, <2>1 DEF PodStore, Phases
<1>11. OnceGone(q)'
  <2> SUFFICES ASSUME NEW i \in Ahead', NEW j \in Ahead', NEW m \in Ahead', i <= j, j <= m,
                      history'[i][q] # NoPod, history'[j][q] = NoPod
               PROVE  history'[m][q] = NoPod
    BY DEF OnceGone
  <2>1. i + k <= j + k /\ j + k <= m + k
    BY <1>2
  <2>2. QED
    BY <1>2, <1>3, <2>1 DEF PodStore, OnceGone
<1>12. NoRevival(q)'
  <2> SUFFICES ASSUME NEW i \in Ahead', NEW j \in Ahead', i <= j, history'[i][q].phase = "terminating"
               PROVE  history'[j][q].phase # "active"
    BY DEF NoRevival
  <2>1. i + k <= j + k
    BY <1>2
  <2>2. QED
    BY <1>2, <1>3, <2>1 DEF PodStore, NoRevival
<1>13. KnownGone(q)'
  <2> SUFFICES ASSUME Known(q)', NEW i \in Ahead', NEW j \in Ahead', i <= j, history'[i][q] = NoPod
               PROVE  history'[j][q] = NoPod
    BY DEF KnownGone
  <2>1. i + k <= j + k /\ w <= i + k
    BY <1>2
  <2>2. CASE Known(q)
    BY <1>2, <1>3, <2>1, <2>2 DEF PodStore, KnownGone
  <2>3. CASE ~Known(q)
    <3>1. history[w][q] # NoPod
      BY <1>3, <1>4, <1>7, <2>3 DEF Known
    <3>2. QED
      BY <1>2, <1>3, <2>1, <3>1, SMTT(30) DEF PodStore, OnceGone
  <2>4. QED
    BY <2>2, <2>3
<1>14. GoneLast(q)'
  <2> SUFFICES ASSUME NEW i \in 1 .. Len(fifo'[q]), fifo'[q][i].obj.phase = "gone"
               PROVE  i = Len(fifo'[q]) /\ \A j \in Ahead' : history'[j][q] = NoPod
    BY DEF GoneLast
  <2>1. CASE i \in 1 .. n /\ fifo'[q][i] = fifo[q][i]
    <3>1. i = n /\ \A j \in Ahead : history[j][q] = NoPod
      BY <1>3, <2>1 DEF PodStore, GoneLast, n
    <3>2. Len(fifo'[q]) = n
      BY <1>3, <1>4, <1>7, <2>1, <3>1
    <3>3. QED
      BY <1>2, <3>1, <3>2
  <2>2. CASE /\ i = n + 1 /\ Len(fifo'[q]) = n + 1 /\ history[w][q] = NoPod /\ Known(q)
    BY <1>2, <1>3, <2>2 DEF PodStore, KnownGone
  <2>3. CASE fifo'[q][i].obj = history[w][q]
    BY <1>3, <2>3 DEF PodStore, Phases, WellFormed
  <2>4. QED
    BY <1>6, <2>1, <2>2, <2>3
<1>15. EndsLast(q)'
  <2> SUFFICES ASSUME NEW i \in 1 .. Len(fifo'[q]), fifo'[q][i].obj.phase = "terminating"
               PROVE  /\ \A j \in 1 .. Len(fifo'[q]) : j > i => fifo'[q][j].obj.phase # "active"
                      /\ \A j \in Ahead' : history'[j][q].phase # "active"
    BY DEF EndsLast
  <2>1. CASE i \in 1 .. n /\ fifo'[q][i] = fifo[q][i]
    <3>1. /\ \A j \in 1 .. n : j > i => fifo[q][j].obj.phase # "active"
          /\ \A j \in Ahead : history[j][q].phase # "active"
      BY <1>3, <2>1 DEF PodStore, EndsLast, n
    <3>2. \A j \in 1 .. Len(fifo'[q]) : j > i => fifo'[q][j].obj.phase # "active"
      BY <1>6, <3>1
    <3>3. QED
      BY <1>2, <3>1, <3>2
  <2>2. CASE i = n + 1 /\ Len(fifo'[q]) = n + 1 /\ fifo'[q][i].obj = history[w][q]
    <3>1. \A j \in Ahead : w <= j => history[j][q].phase # "active"
      BY <1>3, <2>2 DEF PodStore, NoRevival
    <3>2. \A j \in 1 .. Len(fifo'[q]) : ~(j > i)
      BY <1>3, <2>2
    <3>3. QED
      BY <1>2, <3>1, <3>2
  <2>3. QED
    BY <1>6, <2>1, <2>2
<1>16. NoCacheRevival(q)'
  BY <1>3, <1>8 DEF PodStore, NoCacheRevival
<1>17. Arrives(q)'
  <2> SUFFICES ASSUME history[w][q] # NoPod PROVE Latest(q)' = history[w][q]
    BY <1>2 DEF Arrives
  <2>1. CASE fifo'[q] = fifo[q] /\ Latest(q) = history[w][q]
    BY <1>4, <2>1 DEF n
  <2>2. CASE Extends(q, history[w][q])
    BY <1>3, <1>4, <2>2 DEF Extends, n
  <2>3. QED
    BY <2>1, <2>2 DEF AdvancePod
<1>18. QED
  BY <1>8, <1>9, <1>10, <1>11, <1>12, <1>13, <1>14, <1>15, <1>16, <1>17 DEF PodStore

LEMMA AdvanceStep ==
  ASSUME TypeOK, TypeOK', StructInv, UNCHANGED <<api, cache, notes, view, todo, done>>,
         NEW w \in Ahead, NEW k \in Nat, Advance(w, k), \A q \in Pods : AdvancePod(q, w)
  PROVE  StructInv' /\ Unhandled' \subseteq Unhandled /\ Stale' = Stale
<1>1. StoreInv
  BY DEF StructInv
<1>2. \A q \in Pods : /\ PodStore(q)' /\ (ActiveComing(q)' => ActiveComing(q))
                      /\ cache[q] = NoPod /\ Coming(q)' => Coming(q)
  BY <1>1, AdvanceStore
<1>3. Newest'
  <2>1. /\ Len(history') \in Ahead' /\ Len(history') + k = Len(history)
    BY AheadFacts DEF Advance, TypeOK, Ahead
  <2>2. QED
    BY <1>1, <2>1 DEF StoreInv, Newest, Advance
<1>4. Unseen' \subseteq Unseen
  BY <1>2 DEF Unseen
<1>5. Held' = Held /\ Stale' = Stale
  BY DEF Held, Stale
<1>6. NotesInv' /\ HeldInv' /\ DoneInv' /\ Announced' = Announced
  <2>1. {} \in SUBSET Pods
    OBVIOUS
  <2>2. QED
    BY <1>2, <1>4, <1>5, <2>1, CalmStep
<1>7. QED
  BY <1>2, <1>3, <1>4, <1>5, <1>6 DEF StructInv, StoreInv, Unhandled

LEMMA ExtendsAppend ==
  ASSUME TypeOK, NEW q \in Pods, NEW o \in PodObject, NEW b \in BOOLEAN,
         fifo'[q] = Append(fifo[q], [sync |-> b, obj |-> o])
  PROVE  Extends(q, o)
<1> DEFINE d == [sync |-> b, obj |-> o]
<1>1. fifo[q] \in Seq(Delta) /\ d \in Delta /\ d.obj = o
  BY FifoFacts DEF Delta
<1> HIDE DEF d
<1>2. fifo'[q] = Append(fifo[q], d)
  BY DEF d
<1>3. Len(fifo'[q]) = Len(fifo[q]) + 1 /\ fifo'[q][Len(fifo[q]) + 1] = d
  BY <1>1, <1>2
<1>4. \A i \in 1 .. Len(fifo[q]) : fifo'[q][i] = fifo[q][i]
  BY <1>1, <1>2
<1>5. QED
  BY <1>1, <1>3, <1>4 DEF Extends

\* The watch delivers a change: no event is dropped or merged with another.
LEMMA ReceiveStep ==
  ASSUME TypeOK, TypeOK', StructInv, Receive
  PROVE  StructInv' /\ Unhandled' \subseteq Unhandled /\ Stale' = Stale
<1> DEFINE w == received + 1
<1>1. /\ received \in Nat \ {0} /\ Len(history) \in Nat /\ received < Len(history)
      /\ received \in Ahead /\ w \in Ahead /\ w \in Nat
  BY AheadFacts DEF Receive
<1>2. UNCHANGED <<api, cache, notes, view, todo, done>>
  BY DEF Receive, worker
<1>3. PICK k \in {0, 1} : Advance(w, k)
  <2>1. CASE received' = received + 1 /\ UNCHANGED history
    <3>1. Advance(w, 0)
      BY <1>1, <2>1 DEF Advance, Ahead
    <3>2. QED
      BY <3>1
  <2>2. CASE received' = received /\ history' = Tail(history)
    <3>1. /\ Len(history') = Len(history) - 1
          /\ \A i \in 1 .. Len(history') : history'[i] = history[i + 1]
      BY <1>1, <2>2 DEF TypeOK
    <3>2. \A i \in Ahead' : i \in 1 .. Len(history')
      BY <1>1, <2>2, <3>1 DEF Ahead
    <3>3. Advance(w, 1)
      BY <1>1, <2>2, <3>1, <3>2 DEF Advance
    <3>4. QED
      BY <3>3
  <2>3. QED
    BY <2>1, <2>2 DEF Receive
<1>4. ASSUME NEW q \in Pods PROVE AdvancePod(q, w)
  <2> DEFINE old == history[received][q]
             new == history[w][q]
             e == Event(old, new)
  <2>1. fifo'[q] = IF new = old THEN fifo[q] ELSE WithEvent(q, e)
    BY DEF Receive
  <2>2. /\ PodStore(q) /\ old \in PodObject /\ new \in PodObject
        /\ WellFormed(old) /\ WellFormed(new) /\ e \in PodObject
    <3>1. PodStore(q) /\ old \in PodObject /\ new \in PodObject
      BY <1>1, AheadFacts DEF StructInv, StoreInv
    <3>2. QED
      BY <1>1, <3>1, EventType DEF PodStore, Phases
  <2>3. old # NoPod => Latest(q) = old
    BY <2>2 DEF PodStore, Arrives
  <2>4. CASE new = old
    BY <2>1, <2>3, <2>4 DEF AdvancePod
  <2>5. CASE new # old /\ new # NoPod
    <3>1. e = new /\ e.phase # "gone"
      BY <2>2, <2>5 DEF Event, WellFormed
    <3>2. fifo'[q] = Append(fifo[q], [sync |-> FALSE, obj |-> new])
      BY <2>1, <2>5, <3>1 DEF WithEvent
    <3>3. Extends(q, new)
      BY <2>2, <3>2, ExtendsAppend
    <3>4. QED
      BY <2>5, <3>3 DEF AdvancePod
  <2>6. CASE new # old /\ new = NoPod
    <3>1. e.phase = "gone" /\ old # NoPod
      BY <2>2, <2>6 DEF Event, PodObject
    <3>2. Known(q)
      BY <2>3, <3>1, FifoFacts DEF Known
    <3>3. ~WillBeDeleted(q)
      BY <1>1, <2>2, <3>1, FifoFacts DEF PodStore, GoneLast
    <3>4. fifo'[q] = Append(fifo[q], [sync |-> FALSE, obj |-> e])
      BY <2>1, <2>6, <3>1, <3>2, <3>3 DEF WithEvent, Known
    <3>5. Extends(q, e)
      BY <2>2, <3>4, ExtendsAppend
    <3>6. QED
      BY <2>2, <2>6, <3>1, <3>2, <3>3, <3>5 DEF AdvancePod
  <2>7. QED
    BY <2>4, <2>5, <2>6
<1>5. k \in Nat
  BY <1>3
<1> HIDE DEF w
<1>6. QED
  BY <1>1, <1>2, <1>3, <1>4, <1>5, AdvanceStep

\* A list that is not older than what was received.
LEMMA RelistStep ==
  ASSUME TypeOK, TypeOK', StructInv, Relist, sure'
  PROVE  StructInv' /\ Unhandled' \subseteq Unhandled /\ Stale' = Stale
<1>1. PICK w \in DOMAIN history : /\ received' = w /\ sure' = (sure /\ w >= received)
                                  /\ fifo' = [p \in Pods |-> WithListed(p, history[w][p])]
  BY DEF Relist
<1>2. UNCHANGED <<api, history, cache, notes, view, todo, done>>
  BY DEF Relist, worker
<1>3. w \in Ahead /\ w \in Nat /\ w >= received
  <2>1. DOMAIN history = 1 .. Len(history)
    BY DEF TypeOK
  <2>2. w >= received
    BY <1>1, Zenon
  <2>3. QED
    BY <1>1, <2>1, <2>2, AheadFacts
<1>4. Advance(w, 0)
  BY <1>1, <1>2, <1>3, AheadFacts DEF Advance, Ahead
<1>5. ASSUME NEW q \in Pods PROVE AdvancePod(q, w)
  <2> DEFINE o == history[w][q]
             g == [cache[q] EXCEPT !.phase = "gone"]
  <2>1. /\ fifo'[q] = WithListed(q, o) /\ PodStore(q) /\ o \in PodObject /\ cache[q] \in PodObject
        /\ g \in PodObject /\ g.phase = "gone"
    <3>1. fifo'[q] = WithListed(q, o) /\ PodStore(q) /\ o \in PodObject /\ cache[q] \in PodObject
      BY <1>1, <1>3, AheadFacts DEF StructInv, StoreInv, TypeOK
    <3>2. QED
      BY <3>1, PodObjects DEF PodObject
  <2>2. CASE fifo'[q] = fifo[q] /\ (WillBeDeleted(q) \/ o = Latest(q) \/ o = NoPod)
    <3>1. WillBeDeleted(q) => o = NoPod
      BY <1>3, <2>1, FifoFacts DEF PodStore, GoneLast
    <3>2. QED
      BY <2>2, <3>1 DEF AdvancePod
  <2>3. CASE o # NoPod /\ fifo'[q] = Append(fifo[q], [sync |-> TRUE, obj |-> o])
    <3>1. Extends(q, o)
      BY <2>1, <2>3, ExtendsAppend
    <3>2. QED
      BY <2>3, <3>1 DEF AdvancePod
  <2>4. CASE /\ o = NoPod /\ ~WillBeDeleted(q) /\ cache[q] # NoPod
             /\ fifo'[q] = Append(fifo[q], [sync |-> FALSE, obj |-> g])
    <3>1. Extends(q, g) /\ Known(q)
      BY <2>1, <2>4, ExtendsAppend DEF Known
    <3>2. QED
      BY <2>1, <2>4, <3>1 DEF AdvancePod
  <2> HIDE DEF o, g
  <2>5. \/ fifo'[q] = fifo[q] /\ (WillBeDeleted(q) \/ o = Latest(q) \/ o = NoPod)
        \/ o # NoPod /\ fifo'[q] = Append(fifo[q], [sync |-> TRUE, obj |-> o])
        \/ /\ o = NoPod /\ ~WillBeDeleted(q) /\ cache[q] # NoPod
           /\ fifo'[q] = Append(fifo[q], [sync |-> FALSE, obj |-> g])
    BY <2>1 DEF WithListed, g
  <2>6. QED
    BY <2>2, <2>3, <2>4, <2>5
<1>6. QED
  BY <1>2, <1>3, <1>4, <1>5, AdvanceStep

\* The rest of a sequence.
LEMMA TailFacts ==
  ASSUME NEW T, NEW s \in Seq(T), s # <<>>
  PROVE  /\ Len(s) \in Nat \ {0} /\ Len(Tail(s)) = Len(s) - 1 /\ s[1] = Head(s) /\ Head(s) \in T
         /\ \A i \in 1 .. Len(Tail(s)) : i + 1 \in 1 .. Len(s) /\ i + 1 > 1 /\ Tail(s)[i] = s[i + 1]
         /\ \A i \in 1 .. Len(s) : i = 1 \/ (i - 1 \in 1 .. Len(Tail(s)) /\ Tail(s)[i - 1] = s[i])
         /\ \A i \in 1 .. Len(s) : s[i] \in T
<1>1. Len(s) \in Nat \ {0} /\ Len(Tail(s)) = Len(s) - 1 /\ s[1] = Head(s) /\ Head(s) \in T
  OBVIOUS
<1>2. \A i \in 1 .. Len(Tail(s)) : i + 1 \in 1 .. Len(s) /\ i + 1 > 1 /\ Tail(s)[i] = s[i + 1]
  BY <1>1
<1>3. \A i \in 1 .. Len(s) : i = 1 \/ (i - 1 \in 1 .. Len(Tail(s)) /\ (i - 1) + 1 = i)
  BY <1>1
<1>4. QED
  BY <1>1, <1>2, <1>3

\* The next delta of p goes to the store.
Popped(p, o) == /\ fifo[p] # <<>> /\ o = fifo[p][1].obj /\ Len(fifo'[p]) = Len(fifo[p]) - 1
                /\ \A i \in 1 .. Len(fifo'[p]) : fifo'[p][i] = fifo[p][i + 1]
                /\ cache'[p] = Stored(o)
                /\ \A q \in Pods \ {p} : fifo'[q] = fifo[q] /\ cache'[q] = cache[q]

LEMMA PoppedFacts ==
  ASSUME TypeOK, TypeOK', NEW p \in Pods, NEW o, Popped(p, o)
  PROVE  /\ Len(fifo[p]) \in Nat /\ Len(fifo[p]) > 0 /\ 1 \in 1 .. Len(fifo[p])
         /\ Len(fifo'[p]) = Len(fifo[p]) - 1
         /\ \A i \in 1 .. Len(fifo'[p]) :
              i \in Nat /\ i + 1 \in 1 .. Len(fifo[p]) /\ fifo'[p][i] = fifo[p][i + 1]
         /\ fifo'[p] \in Seq(Delta) /\ fifo[p] # <<>>
         /\ Latest(p) = fifo[p][Len(fifo[p])].obj
<1> DEFINE n == Len(fifo[p])
<1>1. n \in Nat /\ n > 0 /\ fifo[p] # <<>> /\ Latest(p) = fifo[p][n].obj
  BY FifoFacts DEF Popped
<1>2. fifo'[p] \in Seq(Delta)
  BY DEF TypeOK
<1>3. Len(fifo'[p]) = n - 1 /\ \A i \in 1 .. Len(fifo'[p]) : fifo'[p][i] = fifo[p][i + 1]
  BY DEF Popped
<1> HIDE DEF n
<1>4. 1 \in 1 .. n /\ \A i \in 1 .. n - 1 : i \in Nat /\ i + 1 \in 1 .. n
  BY <1>1
<1>5. QED
  BY <1>1, <1>2, <1>3, <1>4 DEF n

LEMMA PopFacts ==
  ASSUME TypeOK, TypeOK', StoreInv, UNCHANGED <<api, history, received>>, NEW p \in Pods, NEW o, Popped(p, o)
  PROVE  /\ o \in PodObject /\ o.phase \in {"active", "terminating", "gone"}
         /\ o.phase = "gone" => api[p] = NoPod /\ ~Coming(p)' /\ ~ActiveComing(p)'
         /\ o.phase = "terminating" => api[p].phase # "active" /\ ~ActiveComing(p)'
         /\ o.phase = "active" => ActiveComing(p)
         /\ Coming(p)
         /\ \A q \in Pods \ {p} : (Coming(q)' <=> Coming(q)) /\ (ActiveComing(q)' <=> ActiveComing(q))
         /\ ActiveComing(p)' => ActiveComing(p)
<1> DEFINE n == Len(fifo[p])
<1>1. /\ n \in Nat /\ n > 0 /\ 1 \in 1 .. n /\ Len(fifo'[p]) = n - 1
      /\ \A i \in 1 .. Len(fifo'[p]) : i + 1 \in 1 .. n /\ fifo'[p][i] = fifo[p][i + 1]
      /\ fifo'[p] \in Seq(Delta)
  BY PoppedFacts
<1>2. PodStore(p) /\ Ahead' = Ahead /\ history[Len(history)][p] = api[p] /\ Len(history) \in Ahead
  BY AheadFacts DEF StoreInv, Newest, Ahead
<1>3. o = fifo[p][1].obj /\ o \in PodObject /\ o.phase # "none"
  BY <1>1, <1>2, FifoFacts DEF Popped, PodStore, Phases
<1> HIDE DEF n
<1>4. o.phase = "gone" => api[p] = NoPod /\ ~Coming(p)' /\ ~ActiveComing(p)'
  <2>1. ASSUME o.phase = "gone" PROVE n = 1 /\ \A k \in Ahead : history[k][p] = NoPod
    BY <1>1, <1>2, <1>3, <2>1 DEF PodStore, GoneLast, n
  <2>2. NoPod.phase = "none"
    BY DEF NoPod
  <2>3. QED
    BY <1>1, <1>2, <2>1, <2>2 DEF Coming, ActiveComing
<1>5. o.phase = "terminating" => api[p].phase # "active" /\ ~ActiveComing(p)'
  <2>1. ASSUME o.phase = "terminating"
        PROVE  /\ \A j \in 1 .. n : j > 1 => fifo[p][j].obj.phase # "active"
               /\ \A k \in Ahead : history[k][p].phase # "active"
    BY <1>1, <1>2, <1>3, <2>1 DEF PodStore, EndsLast, n
  <2>2. \A i \in 1 .. Len(fifo'[p]) : i + 1 > 1
    BY <1>1
  <2>3. QED
    BY <1>1, <1>2, <2>1, <2>2 DEF ActiveComing
<1>6. o.phase = "active" => ActiveComing(p)
  BY <1>1, <1>3 DEF ActiveComing, n
<1>7. ActiveComing(p)' => ActiveComing(p)
  BY <1>1, <1>2 DEF ActiveComing, n
<1>8. \A q \in Pods \ {p} : (Coming(q)' <=> Coming(q)) /\ (ActiveComing(q)' <=> ActiveComing(q))
  BY <1>2 DEF Coming, ActiveComing, Popped
<1>9. Coming(p)
  BY DEF Coming, Popped
<1>10. QED
  BY <1>3, <1>4, <1>5, <1>6, <1>7, <1>8, <1>9 DEF PodObject

LEMMA PopStore ==
  ASSUME TypeOK, TypeOK', StoreInv, UNCHANGED <<api, history, received>>, NEW p \in Pods, NEW o, Popped(p, o)
  PROVE  StoreInv'
<1>1. Ahead' = Ahead
  BY DEF Ahead
<1>2. ASSUME NEW q \in Pods, q # p PROVE PodStore(q)'
  <2>1. PodStore(q) /\ fifo'[q] = fifo[q] /\ cache'[q] = cache[q]
    BY <1>2 DEF StoreInv, Popped
  <2>2. ActiveComing(q)' <=> ActiveComing(q)
    BY <1>2, PopFacts
  <2>3. Phases(q)' /\ OnceGone(q)' /\ NoRevival(q)' /\ KnownGone(q)'
    BY <1>1, <2>1 DEF PodStore, Phases, OnceGone, NoRevival, KnownGone, Known
  <2>4. GoneLast(q)' /\ EndsLast(q)' /\ NoCacheRevival(q)' /\ Arrives(q)'
    BY <1>1, <2>1, <2>2 DEF PodStore, GoneLast, EndsLast, NoCacheRevival, Arrives, Latest
  <2>5. QED
    BY <2>3, <2>4 DEF PodStore
<1>3. PodStore(p)'
  <2> DEFINE n == Len(fifo[p])
  <2>1. /\ n \in Nat /\ n > 0 /\ 1 \in 1 .. n /\ Len(fifo'[p]) = n - 1
        /\ \A i \in 1 .. Len(fifo'[p]) : i \in Nat /\ i + 1 \in 1 .. n /\ fifo'[p][i] = fifo[p][i + 1]
        /\ fifo'[p] \in Seq(Delta) /\ fifo[p] # <<>>
        /\ Latest(p) = fifo[p][n].obj
    BY PoppedFacts
  <2>2. PodStore(p) /\ cache'[p] = Stored(o) /\ o = fifo[p][1].obj
    BY DEF StoreInv, Popped
  <2>3. /\ o \in PodObject /\ o.phase \in {"active", "terminating", "gone"}
        /\ o.phase = "terminating" => ~ActiveComing(p)'
    BY PopFacts
  <2>4. /\ WellFormed(Stored(o)) /\ (Stored(o).phase = "terminating" <=> o.phase = "terminating")
        /\ o.phase # "gone" => Stored(o) = o
    BY <2>3, StoredFacts
  <2>5. Latest(p)' = IF n = 1 THEN Stored(o) ELSE fifo[p][n].obj
    <3>1. CASE n = 1
      BY <2>1, <2>2, <3>1 DEF Latest
    <3>2. CASE n # 1
      <4>1. n - 1 \in 1 .. n - 1 /\ (n - 1) + 1 = n /\ n - 1 > 0
        <5>1. n \in Nat /\ n > 0
          BY <2>1
        <5> HIDE DEF n
        <5>2. QED
          BY <3>2, <5>1
      <4>2. fifo'[p][Len(fifo'[p])] = fifo[p][n]
        BY <2>1, <4>1
      <4>3. fifo'[p] # <<>>
        BY <2>1, <4>1
      <4>4. QED
        BY <3>2, <4>2, <4>3 DEF Latest, Last
    <3>3. QED
      BY <3>1, <3>2
  <2> HIDE DEF n
  <2>6. Phases(p)'
    BY <1>1, <2>1, <2>2, <2>4 DEF PodStore, Phases, n
  <2>7. OnceGone(p)' /\ NoRevival(p)'
    BY <1>1, <2>2 DEF PodStore, OnceGone, NoRevival
  <2>8. KnownGone(p)'
    BY <1>1, <2>1, <2>2 DEF PodStore, KnownGone, Known
  <2>9. GoneLast(p)'
    <3> SUFFICES ASSUME NEW i \in 1 .. Len(fifo'[p]), fifo'[p][i].obj.phase = "gone"
                 PROVE  i = Len(fifo'[p]) /\ \A k \in Ahead : history[k][p] = NoPod
      BY <1>1 DEF GoneLast
    <3>1. i + 1 = n /\ \A k \in Ahead : history[k][p] = NoPod
      BY <2>1, <2>2 DEF PodStore, GoneLast, n
    <3>2. QED
      BY <2>1, <3>1
  <2>10. EndsLast(p)'
    <3> SUFFICES ASSUME NEW i \in 1 .. Len(fifo'[p]), fifo'[p][i].obj.phase = "terminating"
                 PROVE  /\ \A j \in 1 .. Len(fifo'[p]) : j > i => fifo'[p][j].obj.phase # "active"
                        /\ \A k \in Ahead : history[k][p].phase # "active"
      BY <1>1 DEF EndsLast
    <3>1. /\ \A j \in 1 .. n : j > i + 1 => fifo[p][j].obj.phase # "active"
          /\ \A k \in Ahead : history[k][p].phase # "active"
      BY <2>1, <2>2 DEF PodStore, EndsLast, n
    <3>2. \A j \in 1 .. Len(fifo'[p]) : j > i => j + 1 > i + 1
      BY <2>1
    <3>3. QED
      BY <2>1, <3>1, <3>2
  <2>11. NoCacheRevival(p)'
    BY <2>2, <2>3, <2>4 DEF NoCacheRevival
  <2>12. Arrives(p)'
    <3> SUFFICES ASSUME history[received][p] # NoPod PROVE Latest(p)' = history[received][p]
      BY DEF Arrives
    <3>1. fifo[p][n].obj = history[received][p]
      BY <2>1, <2>2 DEF PodStore, Arrives
    <3>2. n = 1 => o.phase # "gone" /\ o = history[received][p]
      BY <2>2, <3>1, AheadFacts DEF PodStore, Phases, WellFormed
    <3>3. QED
      BY <2>4, <2>5, <3>1, <3>2
  <2>13. QED
    BY <2>6, <2>7, <2>8, <2>9, <2>10, <2>11, <2>12 DEF PodStore
<1>4. QED
  BY <1>2, <1>3 DEF StoreInv, Newest

\* A notification that is put at the end.
LEMMA NotesAppend ==
  ASSUME TypeOK, NEW m \in Notes, notes' = Append(notes, m)
  PROVE  /\ Len(notes) \in Nat /\ Len(notes') = Len(notes) + 1 /\ notes'[Len(notes) + 1] = m
         /\ \A i \in 1 .. Len(notes) : notes'[i] = notes[i] /\ notes[i] \in Notes
         /\ \A i \in 1 .. Len(notes') : i \in 1 .. Len(notes) \/ i = Len(notes) + 1
         /\ Announced' = Announced \cup (IF m.kind = "add" THEN {m.pod} ELSE {})
<1>1. notes \in Seq(Notes)
  BY DEF TypeOK
<1>2. Len(notes) \in Nat /\ Len(notes') = Len(notes) + 1 /\ notes'[Len(notes) + 1] = m
  BY <1>1
<1>3. \A i \in 1 .. Len(notes) : notes'[i] = notes[i] /\ notes[i] \in Notes
  BY <1>1
<1>4. \A i \in 1 .. Len(notes') : i \in 1 .. Len(notes) \/ i = Len(notes) + 1
  BY <1>2
<1>5. m.pod \in Pods
  BY DEF Notes
<1>6. \A q \in Pods : q \in Announced' <=> q \in Announced \/ (q = m.pod /\ m.kind = "add")
  <2>1. ASSUME NEW q \in Pods, q \in Announced' PROVE q \in Announced \/ (q = m.pod /\ m.kind = "add")
    BY <1>2, <1>3, <1>4, <2>1 DEF Announced
  <2>2. ASSUME NEW q \in Announced PROVE q \in Announced'
    BY <1>2, <1>3, <2>2 DEF Announced
  <2>3. ASSUME m.kind = "add" PROVE m.pod \in Announced'
    <3>1. Len(notes) + 1 \in 1 .. Len(notes')
      BY <1>2
    <3>2. QED
      BY <1>2, <1>5, <2>3, <3>1 DEF Announced
  <2>4. QED
    BY <2>1, <2>2, <2>3
<1>7. Announced \subseteq Pods /\ Announced' \subseteq Pods
  BY DEF Announced
<1>8. QED
  BY <1>2, <1>3, <1>4, <1>5, <1>6, <1>7

LEMMA PopStep ==
  ASSUME TypeOK, TypeOK', StructInv, NEW p \in Pods, PodInformer(p)
  PROVE  StructInv' /\ Unhandled' \subseteq Unhandled /\ Stale' \subseteq Stale
<1> DEFINE o == Head(fifo[p]).obj
           m == Notification(p, cache[p], o)
<1>1. /\ UNCHANGED <<api, history, received, view, todo, done>>
      /\ fifo[p] # <<>> /\ fifo' = [fifo EXCEPT ![p] = Tail(@)]
      /\ cache' = [cache EXCEPT ![p] = Stored(o)]
      /\ notes' = Append(notes, m) \/ UNCHANGED notes
  BY DEF PodInformer, worker
<1>2. StoreInv /\ cache \in [Pods -> PodObject] /\ fifo \in [Pods -> Seq(Delta)]
  BY DEF StructInv, TypeOK
<1>3. Popped(p, o)
  <2>1. fifo[p] \in Seq(Delta) /\ fifo'[p] = Tail(fifo[p])
    BY <1>1, <1>2
  <2>2. /\ fifo[p][1] = Head(fifo[p]) /\ Len(Tail(fifo[p])) = Len(fifo[p]) - 1
        /\ \A i \in 1 .. Len(Tail(fifo[p])) : Tail(fifo[p])[i] = fifo[p][i + 1]
    BY <1>1, <2>1, TailFacts
  <2>3. \A q \in Pods \ {p} : fifo'[q] = fifo[q] /\ cache'[q] = cache[q]
    BY <1>1, <1>2
  <2>4. cache'[p] = Stored(o)
    BY <1>1, <1>2
  <2>5. QED
    BY <1>1, <2>1, <2>2, <2>3, <2>4 DEF Popped
<1>4. /\ o.phase \in {"active", "terminating", "gone"} /\ o \in PodObject
      /\ o.phase = "gone" => api[p] = NoPod /\ ~Coming(p)' /\ ~ActiveComing(p)'
      /\ o.phase = "terminating" => api[p].phase # "active" /\ ~ActiveComing(p)'
      /\ o.phase = "active" => ActiveComing(p)
      /\ Coming(p) /\ (ActiveComing(p)' => ActiveComing(p))
  BY <1>1, <1>2, <1>3, PopFacts
<1>5. \A q \in Pods \ {p} : (Coming(q)' <=> Coming(q)) /\ (ActiveComing(q)' <=> ActiveComing(q))
  BY <1>1, <1>2, <1>3, PopFacts
<1>6. \A q \in Pods : cache'[q] = IF q = p THEN Stored(o) ELSE cache[q]
  BY <1>1, <1>2
<1>7. /\ m \in Notes /\ m.pod = p /\ m.obj = o
      /\ m.kind = "add" => cache[p].phase = "none"
      /\ m.kind = "delete" => o.phase = "gone"
  BY <1>2, <1>4, NotificationType
<1>8. NoPod.phase = "none"
  BY DEF NoPod
<1>9. StoreInv'
  BY <1>1, <1>2, <1>3, PopStore
<1> HIDE DEF m, o
\* The notifications: one more, or none, which only a Sync allows.
<1>10. /\ \A i \in 1 .. Len(notes') :
            (i \in 1 .. Len(notes) /\ notes'[i] = notes[i] /\ notes[i] \in Notes) \/ (i = Len(notes) + 1 /\ notes'[i] = m)
       /\ Announced \subseteq Announced'
       /\ Announced' \subseteq Announced \cup (IF m.kind = "add" THEN {p} ELSE {})
  <2>1. CASE notes' = Append(notes, m)
    BY <1>7, <2>1, NotesAppend
  <2>2. CASE UNCHANGED notes
    <3>1. \A i \in 1 .. Len(notes) : notes[i] \in Notes
      <4>1. notes \in Seq(Notes)
        BY DEF TypeOK
      <4>2. QED
        BY <4>1
    <3>2. Announced' = Announced
      BY <2>2 DEF Announced
    <3>3. QED
      BY <2>2, <3>1, <3>2
  <2>3. QED
    BY <1>1, <2>1, <2>2
<1>11. Unseen' \subseteq Unseen /\ p \notin Unseen'
  BY <1>4, <1>5, <1>6, <1>8 DEF Unseen, Stored
<1>12. m.kind = "add" => p \in Unseen /\ p \notin Announced
  <2>1. m.kind = "add" => p \in Unseen
    BY <1>2, <1>4, <1>7 DEF Unseen, StoreInv, PodStore, Phases, WellFormed
  <2>2. QED
    BY <2>1 DEF StructInv, NotesInv
<1>13. EndsAreTrue'
  <2>1. ASSUME NEW i \in 1 .. Len(notes'), NEW q \in Pods, notes'[i].pod = q,
               notes'[i].obj.phase \in {"terminating", "gone"}
        PROVE  Over(q)'
    <3>1. CASE i \in 1 .. Len(notes) /\ notes'[i] = notes[i]
      <4>1. Over(q)
        BY <1>10, <2>1, <3>1 DEF StructInv, NotesInv, EndsAreTrue
      <4>2. QED
        BY <1>1, <1>4, <1>5, <1>6, <1>8, <4>1 DEF Over, Stored
    <3>2. CASE i = Len(notes) + 1 /\ notes'[i] = m
      <4>1. q = p /\ o.phase \in {"terminating", "gone"}
        BY <1>7, <2>1, <3>2
      <4>2. QED
        BY <1>1, <1>4, <1>6, <1>8, <4>1 DEF Over, Stored
    <3>3. QED
      BY <1>10, <3>1, <3>2
  <2>2. ASSUME NEW i \in 1 .. Len(notes'), notes'[i].kind = "delete" PROVE notes'[i].obj.phase = "gone"
    BY <1>7, <1>10, <2>2 DEF StructInv, NotesInv, EndsAreTrue
  <2>3. QED
    BY <2>1, <2>2 DEF EndsAreTrue
<1>14. AnnouncedOnce'
  <2> SUFFICES ASSUME NEW i \in 1 .. Len(notes'), NEW j \in 1 .. Len(notes'),
                      notes'[i].kind = "add", notes'[j].kind = "add", notes'[i].pod = notes'[j].pod
               PROVE  i = j
    BY DEF AnnouncedOnce
  <2>1. ASSUME NEW k \in 1 .. Len(notes), notes[k] \in Notes, notes[k].kind = "add", m.kind = "add" PROVE notes[k].pod # m.pod
    <3>1. notes[k].pod \in Announced
      BY <2>1 DEF Announced, Notes
    <3>2. QED
      BY <1>7, <1>12, <2>1, <3>1
  <2>2. CASE i \in 1 .. Len(notes) /\ j \in 1 .. Len(notes)
    BY <1>10, <2>2 DEF StructInv, NotesInv, AnnouncedOnce
  <2>3. QED
    BY <1>10, <2>1, <2>2
<1>15. NotesInv'
  <2>1. Announced' \cap Unseen' = {}
    BY <1>10, <1>11 DEF StructInv, NotesInv
  <2>2. QED
    BY <1>13, <1>14, <2>1 DEF NotesInv
<1>16. HeldInv'
  <2>1. Held' = Held
    BY <1>1 DEF Held
  <2>2. QED
    BY <1>11, <2>1 DEF StructInv, HeldInv
<1>17. DoneInv'
  <2> SUFFICES ASSUME NEW q \in Pods, done[q] = "deleted"
               PROVE  api[q].phase # "active" /\ (cache'[q].phase # "active" => ~ActiveComing(q)')
    BY <1>1 DEF DoneInv
  <2>1. api[q].phase # "active" /\ (cache[q].phase # "active" => ~ActiveComing(q))
    BY DEF StructInv, DoneInv
  <2>2. CASE q = p
    BY <1>4, <1>6, <2>1, <2>2 DEF Stored
  <2>3. CASE q # p
    BY <1>5, <1>6, <2>1, <2>3
  <2>4. QED
    BY <2>2, <2>3
<1>18. Stale' \subseteq Stale
  <2> SUFFICES ASSUME NEW q \in Stale' PROVE q \in Stale
    OBVIOUS
  <2>1. q \in Pods /\ done[q] = "deleted" /\ cache'[q].phase = "active"
    BY <1>1 DEF Stale
  <2>2. q = p => ActiveComing(q)
    BY <1>4, <1>6, <1>8, <2>1 DEF Stored
  <2>3. cache[q].phase = "active"
    BY <1>6, <2>1, <2>2 DEF StructInv, DoneInv
  <2>4. QED
    BY <2>1, <2>3 DEF Stale
<1>19. Unhandled' \subseteq Unhandled
  BY <1>10, <1>11, <1>12 DEF Unhandled
<1>20. QED
  BY <1>9, <1>15, <1>16, <1>17, <1>18, <1>19 DEF StructInv

\* The controller restarts when there is no pod at all, and its informers list that.
LEMMA RestartStep ==
  ASSUME TypeOK, StructInv, Restart, sure'
  PROVE  StructInv' /\ Unhandled' = {} /\ Stale' = {}
<1>1. PICK v \in DOMAIN history :
        /\ received' = v /\ cache' = history[v] /\ fifo' = [p \in Pods |-> <<>>]
        /\ notes' = SetToSeq({Notification(p, NoPod, history[v][p]) : p \in {q \in Pods : history[v][q] # NoPod}})
        /\ {p \in Pods : history[v][p] # NoPod} = {} /\ v = Len(history)
  BY DEF Restart
<1>2. UNCHANGED <<api, history, done>> /\ view' = {} /\ todo' = {}
  BY DEF Restart, Return
<1>3. /\ Ahead' = {v} /\ history'[v] = api /\ received' = v
      /\ \A p \in Pods : api[p] = NoPod /\ cache'[p] = NoPod /\ fifo'[p] = <<>> /\ Len(fifo'[p]) = 0
  BY <1>1, <1>2, AheadFacts DEF Ahead, StructInv, StoreInv, Newest
<1>4. notes' = <<>>
  <2>1. {Notification(p, NoPod, history[v][p]) : p \in {q \in Pods : history[v][q] # NoPod}} = {}
    BY <1>1
  <2>2. notes' = SetToSeq({})
    BY <1>1, <2>1
  <2>3. notes' \in Seq({})
    BY <2>2, FS_EmptySet, SetToSeqFacts
  <2>4. QED
    BY <2>3
<1>5. NoPod.phase = "none"
  BY DEF NoPod
<1>6. ASSUME NEW p \in Pods PROVE ~Coming(p)' /\ ~ActiveComing(p)' /\ ~Known(p)' /\ PodStore(p)'
  <2>1. ~Coming(p)' /\ ~ActiveComing(p)' /\ ~Known(p)'
    BY <1>2, <1>3, <1>5 DEF Coming, ActiveComing, Known
  <2>2. WellFormed(NoPod)
    BY <1>5 DEF WellFormed
  <2>3. Phases(p)' /\ OnceGone(p)' /\ NoRevival(p)' /\ KnownGone(p)'
    BY <1>2, <1>3, <1>5, <2>1, <2>2 DEF Phases, OnceGone, NoRevival, KnownGone
  <2>4. GoneLast(p)' /\ EndsLast(p)' /\ NoCacheRevival(p)' /\ Arrives(p)'
    BY <1>2, <1>3, <1>5, <2>1 DEF GoneLast, EndsLast, NoCacheRevival, Arrives
  <2>5. QED
    BY <2>1, <2>3, <2>4 DEF PodStore
<1>7. StoreInv'
  BY <1>1, <1>2, <1>3, <1>6 DEF StoreInv, Newest
<1>8. Unseen' = {} /\ Announced' = {} /\ Held' = {} /\ Stale' = {} /\ Len(notes') = 0
  BY <1>2, <1>3, <1>4, <1>5, <1>6 DEF Unseen, Announced, Held, Stale
<1>9. NotesInv' /\ HeldInv'
  BY <1>8 DEF NotesInv, HeldInv, EndsAreTrue, AnnouncedOnce
<1>10. DoneInv'
  BY <1>2, <1>3, <1>5, <1>6 DEF DoneInv
<1>11. QED
  BY <1>7, <1>8, <1>9, <1>10 DEF StructInv, Unhandled

\* A handler gets a notification.
LEMMA HandleStep ==
  ASSUME TypeOK, StructInv, HandlePod, NEW p \in Pods, p = Head(notes).pod
  PROVE  /\ StructInv' /\ Unhandled' \subseteq Unhandled /\ Stale' = Stale
         /\ Head(notes).kind = "add" => p \in Unhandled /\ Unhandled' \subseteq Unhandled \ {p}
         /\ Head(notes).kind = "delete" \/ Head(notes).obj.phase \in {"terminating", "gone"} =>
              p \notin Stale /\ api[p].phase # "active"
<1> DEFINE n == Head(notes)
<1>1. /\ notes # <<>> /\ notes' = Tail(notes) /\ notes \in Seq(Notes)
      /\ UNCHANGED <<api, history, received, fifo, cache, view, todo, done>>
  BY DEF HandlePod, worker, TypeOK
<1>2. /\ Len(notes) \in Nat \ {0} /\ Len(notes') = Len(notes) - 1 /\ notes[1] = n /\ n \in Notes
      /\ \A i \in 1 .. Len(notes') : i + 1 \in 1 .. Len(notes) /\ i + 1 > 1 /\ notes'[i] = notes[i + 1]
      /\ \A i \in 1 .. Len(notes) : i = 1 \/ (i - 1 \in 1 .. Len(notes') /\ notes'[i - 1] = notes[i])
  BY <1>1, TailFacts
<1>3. n.pod = p /\ 1 \in 1 .. Len(notes)
  BY <1>2
<1> HIDE DEF n
<1>4. \A q \in Pods : (ActiveComing(q)' <=> ActiveComing(q)) /\ (Over(q)' <=> Over(q))
  BY <1>1, SameComing DEF Over
<1>5. Unseen' = Unseen /\ Held' = Held /\ Stale' = Stale
  BY <1>1, SameComing DEF Unseen, Held, Stale
<1>6. Announced' \subseteq Announced
  BY <1>2 DEF Announced
<1>7. n.kind = "add" => p \in Announced /\ p \notin Announced' /\ p \notin Unseen
  <2>1. ASSUME n.kind = "add" PROVE p \in Announced
    BY <1>2, <1>3, <2>1 DEF Announced
  <2>2. ASSUME n.kind = "add", p \in Announced' PROVE FALSE
    <3>1. PICK i \in 1 .. Len(notes') : notes'[i].pod = p /\ notes'[i].kind = "add"
      BY <2>2 DEF Announced
    <3>2. i + 1 \in 1 .. Len(notes) /\ i + 1 > 1 /\ notes[i + 1].pod = p /\ notes[i + 1].kind = "add"
      BY <1>2, <3>1
    <3>3. 1 = i + 1
      BY <1>2, <1>3, <2>2, <3>2 DEF StructInv, NotesInv, AnnouncedOnce
    <3>4. QED
      BY <3>2, <3>3
  <2>3. QED
    BY <2>1, <2>2 DEF StructInv, NotesInv
<1>8. EndsAreTrue'
  BY <1>2, <1>4 DEF StructInv, NotesInv, EndsAreTrue
<1>9. AnnouncedOnce'
  <2> SUFFICES ASSUME NEW i \in 1 .. Len(notes'), NEW j \in 1 .. Len(notes'),
                      notes'[i].kind = "add", notes'[j].kind = "add", notes'[i].pod = notes'[j].pod
               PROVE  i = j
    BY DEF AnnouncedOnce
  <2>1. i + 1 = j + 1
    BY <1>2 DEF StructInv, NotesInv, AnnouncedOnce
  <2>2. QED
    BY <1>2, <2>1
<1>10. NotesInv' /\ HeldInv'
  BY <1>5, <1>6, <1>8, <1>9 DEF StructInv, NotesInv, HeldInv
<1>11. StoreInv' /\ DoneInv'
  <2>1. StoreInv'
    BY <1>1, SameStore DEF StructInv
  <2>2. DoneInv'
    BY <1>1, <1>4 DEF StructInv, DoneInv
  <2>3. QED
    BY <2>1, <2>2
<1>12. n.kind = "delete" \/ n.obj.phase \in {"terminating", "gone"} => Over(p)
  BY <1>2, <1>3 DEF StructInv, NotesInv, EndsAreTrue
<1>13. QED
  BY <1>5, <1>6, <1>7, <1>10, <1>11, <1>12 DEF StructInv, Unhandled, Stale, Over, n


-----------------------------------------------------------------------------
(* What the expectations say about what the controller has not seen. *)

\* Pods that slowStartBatch is still to create, or knows that it has not created.
Outstanding == IF pc = "create" THEN batch.remaining - (batch.size - batch.calls) + batch.bad ELSE 0

\* Everything that the controller has asked for has been seen and handled.
Clean == Unhandled = {} /\ uids = {} /\ Stale = {}

Expected == exp.set => /\ exp.add >= Cardinality(Unhandled) + Outstanding
                       /\ exp.del >= Cardinality(uids)
                       /\ Stale \subseteq uids
NothingExpected == ~exp.set /\ rsCache.phase # "gone" => Clean
ListsClean == pc \in {"list", "claim"} /\ needsSync => Clean
DeletesAwaited == pc = "delete" => \A p \in Pods : <<"delete", p>> \in todo =>
                    p \notin Stale /\ (api[p].phase = "active" => p \in uids)
CallsExpected == pc \in {"create", "delete"} => exp.set
Accounted == Expected /\ NothingExpected /\ ListsClean /\ DeletesAwaited /\ CallsExpected
AcctInv == sure => Accounted

\* A ReplicaSet that is gone stays so.
RSFinal == /\ rsCache.phase = "gone" => rsWatch = <<>> /\ rs.phase = "gone"
           /\ \A i \in 1 .. Len(rsWatch) : rsWatch[i].phase = "gone" => i = Len(rsWatch) /\ rs.phase = "gone"

FullInv == TypeInv /\ StructInv /\ RSFinal /\ AcctInv

LEMMA Sizes ==
  ASSUME TypeInv
  PROVE  /\ Unhandled \in SUBSET Pods /\ Cardinality(Unhandled) \in Nat
         /\ uids \in SUBSET Pods /\ Cardinality(uids) \in Nat
         /\ Stale \in SUBSET Pods
         /\ exp.add \in Int /\ exp.del \in Int /\ exp.set \in BOOLEAN
         /\ Outstanding \in Nat
<1>1. Unhandled \in SUBSET Pods /\ Stale \in SUBSET Pods
  BY DEF Unhandled, Unseen, Announced, Stale
<1>2. uids \in SUBSET Pods /\ exp.add \in Int /\ exp.del \in Int /\ exp.set \in BOOLEAN
  BY DEF TypeInv, TypeOK
<1>3. Outstanding \in Nat
  <2>1. /\ batch.size \in Nat /\ batch.remaining \in Nat /\ batch.bad \in Nat /\ batch.calls \in Nat
        /\ pc = "create" => batch.calls <= batch.size /\ batch.size <= batch.remaining
    BY DEF TypeInv, TypeOK, BatchOK
  <2>2. QED
    BY <2>1 DEF Outstanding
<1>4. QED
  BY <1>1, <1>2, <1>3, FinitePods

LEMMA Fewer ==
  ASSUME NEW S \in SUBSET Pods, NEW T \in SUBSET S
  PROVE  Cardinality(T) \in Nat /\ Cardinality(S) \in Nat /\ Cardinality(T) <= Cardinality(S)
<1>1. T \in SUBSET Pods /\ IsFiniteSet(S)
  BY FinitePods
<1>2. QED
  BY <1>1, FinitePods, FS_Subset

\* A set of pods without one of them, or with one more.
LEMMA OneLess ==
  ASSUME NEW S \in SUBSET Pods, NEW p \in S
  PROVE  Cardinality(S \ {p}) = Cardinality(S) - 1
BY FinitePods, FS_RemoveElement

LEMMA OneMore ==
  ASSUME NEW S \in SUBSET Pods, NEW p \in Pods, p \notin S
  PROVE  Cardinality(S \cup {p}) = Cardinality(S) + 1
BY FinitePods, FS_AddElement

LEMMA NoneLeft ==
  ASSUME NEW S \in SUBSET Pods, Cardinality(S) <= 0
  PROVE  S = {}
<1>1. IsFiniteSet(S) /\ Cardinality(S) \in Nat
  BY FinitePods
<1>2. Cardinality(S) = 0
  BY <1>1
<1>3. QED
  BY <1>1, <1>2, FS_EmptySet

\* What is done to the world without the worker's and the handlers' doing, and what
\* the worker does apart from asking for pods.
LEMMA PassiveStep ==
  ASSUME TypeInv, TypeInv', AcctInv, Unhandled' \subseteq Unhandled, Stale' \subseteq Stale,
         exp'.set = exp.set, exp'.add = exp.add, exp'.del = exp.del,
         UNCHANGED <<uids, pc, batch, needsSync, sure>>, todo' \subseteq todo,
         rsCache'.phase # "gone" => rsCache.phase # "gone",
         \A q \in Pods : api'[q].phase = "active" => api[q].phase = "active"
  PROVE  AcctInv'
<1> SUFFICES ASSUME sure PROVE Accounted'
  BY DEF AcctInv
<1>1. Accounted
  BY DEF AcctInv
<1>2. /\ Unhandled \in SUBSET Pods /\ Cardinality(Unhandled) \in Nat
      /\ exp.add \in Int /\ exp.del \in Int /\ Outstanding \in Nat
  BY Sizes
<1>3. Cardinality(Unhandled') <= Cardinality(Unhandled) /\ Cardinality(Unhandled') \in Nat
  BY <1>2, Fewer
<1>4. Outstanding' = Outstanding
  BY DEF Outstanding
<1>5. Expected'
  BY <1>1, <1>2, <1>3, <1>4 DEF Accounted, Expected
<1>6. Clean => Clean'
  BY DEF Clean
<1>7. NothingExpected' /\ ListsClean'
  BY <1>1, <1>6 DEF Accounted, NothingExpected, ListsClean
<1>8. DeletesAwaited'
  BY <1>1 DEF Accounted, DeletesAwaited
<1>9. CallsExpected'
  BY <1>1 DEF Accounted, CallsExpected
<1>10. QED
  BY <1>5, <1>7, <1>8, <1>9 DEF Accounted

LEMMA KeepsRSFinal ==
  ASSUME RSFinal, UNCHANGED <<rs, rsWatch, rsCache>>
  PROVE  RSFinal'
BY DEF RSFinal

\* Writes to pods by others.
LEMMA WritesAcct ==
  ASSUME FullInv, TypeInv', NEW p \in Pods,
         Relabel(p) \/ PodEnds(p) \/ \E ph \in {"terminating", "gone"} : DeletePodByOther(p, ph)
  PROVE  FullInv'
<1>1. TypeInv /\ TypeOK /\ StructInv /\ RSFinal /\ AcctInv /\ api[p] \in PodObject
  BY DEF FullInv, TypeInv, TypeOK
<1>2. UNCHANGED <<rsCache, received, fifo, cache, notes, exp, uids, worker, sure, rs, rsWatch, done>>
  BY DEF Relabel, PodEnds, DeletePodByOther, env, informer
<1> DEFINE Changes(o) == /\ WritePod(p, o) /\ o.phase # "none" /\ api[p].phase # "none"
                         /\ o.phase = "active" => api[p].phase = "active"
<1>3. PICK o \in PodObject : Changes(o)
  <2>1. CASE Relabel(p)
    <3>1. [api[p] EXCEPT !.match = ~@] \in PodObject
      BY <1>1, PodObjects
    <3>2. [api[p] EXCEPT !.match = ~@].phase = api[p].phase
      BY <1>1 DEF PodObject
    <3>3. Changes([api[p] EXCEPT !.match = ~@])
      BY <2>1, <3>2 DEF Relabel
    <3>4. QED
      BY <3>1, <3>3
  <2>2. ASSUME NEW ph \in {"terminating", "gone"}
        PROVE  [api[p] EXCEPT !.phase = ph] \in PodObject /\ [api[p] EXCEPT !.phase = ph].phase = ph
    BY <1>1, PodObjects DEF PodObject
  <2>3. CASE PodEnds(p)
    BY <2>2, <2>3 DEF PodEnds
  <2>4. CASE \E ph \in {"terminating", "gone"} : DeletePodByOther(p, ph)
    BY <2>2, <2>4 DEF DeletePodByOther
  <2>5. QED
    BY <2>1, <2>3, <2>4
<1>4. api[p] # NoPod /\ Held' = Held
  BY <1>2, <1>3 DEF NoPod, Held, worker
<1>5. /\ StructInv' /\ Unhandled' = Unhandled /\ Stale' = Stale
      /\ \A q \in Pods : api'[q].phase = "active" => api[q].phase = "active"
  BY <1>1, <1>2, <1>3, <1>4, PlainWrite
<1>6. AcctInv'
  BY <1>1, <1>2, <1>5, PassiveStep DEF worker
<1>7. RSFinal'
  BY <1>1, <1>2, KeepsRSFinal
<1>8. QED
  BY <1>5, <1>6, <1>7 DEF FullInv

\* What leaves the pods, the expectations and the worker alone.
LEMMA StillStep ==
  ASSUME FullInv, TypeInv', RSFinal', UNCHANGED <<api, history, received, fifo, cache, notes, done, uids, pc, batch, needsSync, sure>>,
         exp'.set = exp.set, exp'.add = exp.add, exp'.del = exp.del,
         HoldsKnown, todo' \subseteq todo,
         rsCache'.phase # "gone" => rsCache.phase # "gone"
  PROVE  FullInv'
<1>1. TypeInv /\ TypeOK /\ StructInv /\ AcctInv
  BY DEF FullInv, TypeInv
<1>2. StructInv' /\ Unhandled' = Unhandled /\ Stale' = Stale
  BY <1>1, QuietStep
<1>3. AcctInv'
  BY <1>1, <1>2, PassiveStep
<1>4. QED
  BY <1>2, <1>3 DEF FullInv

LEMMA ReplicaSetAcct ==
  ASSUME FullInv, TypeInv',
         \/ \E n \in 0..MaxReplicas : Scale(n)
         \/ \E ph \in {"deleting", "gone"} : DeleteRS(ph)
         \/ RSInformer
  PROVE  FullInv'
<1>1. RSFinal /\ rs \in RSObject /\ rsWatch \in Seq(RSObject)
  BY DEF FullInv, TypeInv, TypeOK
<1>2. UNCHANGED <<api, history, received, fifo, cache, notes, done, exp, uids, worker, sure>>
  BY DEF Scale, DeleteRS, RSInformer, env, informer
<1>3. HoldsKnown
  BY <1>2 DEF HoldsKnown, Held, worker
<1>4. RSFinal' /\ (rsCache'.phase # "gone" => rsCache.phase # "gone")
  <2>1. ASSUME NEW r \in RSObject, rs.phase # "gone", WriteRS(r), rsCache' = rsCache PROVE <1>4
    <3>1. CASE r = rs
      BY <1>1, <2>1, <3>1 DEF WriteRS, RSFinal
    <3>2. CASE r # rs
      <4>1. rs' = r /\ rsWatch' = Append(rsWatch, r)
        BY <2>1, <3>2 DEF WriteRS
      <4>2. /\ Len(rsWatch) \in Nat /\ Len(rsWatch') = Len(rsWatch) + 1 /\ rsWatch'[Len(rsWatch) + 1] = r
            /\ \A i \in 1 .. Len(rsWatch) : rsWatch'[i] = rsWatch[i]
        BY <1>1, <4>1
      <4>3. \A i \in 1 .. Len(rsWatch') : i \in 1 .. Len(rsWatch) \/ i = Len(rsWatch) + 1
        BY <4>2
      <4>4. QED
        BY <1>1, <2>1, <4>1, <4>2, <4>3 DEF RSFinal
    <3>3. QED
      BY <3>1, <3>2
  <2>2. ASSUME NEW n \in 0 .. MaxReplicas, Scale(n) PROVE <1>4
    <3>1. [rs EXCEPT !.replicas = n] \in RSObject
      BY <1>1 DEF RSObject
    <3>2. QED
      BY <2>1, <2>2, <3>1 DEF Scale, env
  <2>3. ASSUME NEW ph \in {"deleting", "gone"}, DeleteRS(ph) PROVE <1>4
    <3>1. [rs EXCEPT !.phase = ph] \in RSObject
      BY <1>1 DEF RSObject
    <3>2. rs.phase # "gone"
      BY <2>3 DEF DeleteRS
    <3>3. QED
      BY <2>1, <2>3, <3>1, <3>2 DEF DeleteRS, env
  <2>4. CASE RSInformer
    <3>1. rsWatch # <<>> /\ rsCache' = Head(rsWatch) /\ rsWatch' = Tail(rsWatch) /\ rs' = rs
      BY <2>4 DEF RSInformer
    <3>2. /\ Len(rsWatch) \in Nat \ {0} /\ Len(rsWatch') = Len(rsWatch) - 1 /\ rsWatch[1] = rsCache'
          /\ \A i \in 1 .. Len(rsWatch') : i + 1 \in 1 .. Len(rsWatch) /\ rsWatch'[i] = rsWatch[i + 1]
      BY <1>1, <3>1, TailFacts
    <3>3. rsCache'.phase = "gone" => rsWatch' = <<>> /\ rs.phase = "gone"
      <4>1. rsCache'.phase = "gone" => Len(rsWatch) = 1 /\ rs.phase = "gone"
        BY <1>1, <3>2 DEF RSFinal
      <4>2. QED
        BY <1>1, <3>1, <4>1
    <3>4. ASSUME NEW i \in 1 .. Len(rsWatch'), rsWatch'[i].phase = "gone"
          PROVE  i = Len(rsWatch') /\ rs.phase = "gone"
      <4>1. i + 1 \in 1 .. Len(rsWatch) /\ rsWatch[i + 1].phase = "gone"
        BY <3>2, <3>4
      <4>2. i + 1 = Len(rsWatch) /\ rs.phase = "gone"
        BY <1>1, <4>1 DEF RSFinal
      <4>3. QED
        BY <3>2, <4>2
    <3>5. QED
      BY <1>1, <3>1, <3>3, <3>4 DEF RSFinal
  <2>5. QED
    BY <2>2, <2>3, <2>4
<1>5. QED
  BY <1>2, <1>3, <1>4, StillStep DEF worker

LEMMA InformerAcct ==
  ASSUME FullInv, TypeInv', sure',
         Receive \/ (\E p \in Pods : PodInformer(p)) \/ Relist \/ Resync \/ Expire \/ Restart
  PROVE  FullInv'
<1>1. TypeInv /\ TypeOK /\ TypeOK' /\ StructInv /\ RSFinal /\ AcctInv
  BY DEF FullInv, TypeInv
<1>2. UNCHANGED <<rs, rsWatch, rsCache, api>> /\ RSFinal'
  <2>1. UNCHANGED <<rs, rsWatch, rsCache, api>>
    BY DEF Receive, PodInformer, Relist, Resync, Expire, Restart
  <2>2. QED
    BY <1>1, <2>1, KeepsRSFinal
<1>3. CASE Receive \/ \E p \in Pods : PodInformer(p)
  <2>1. StructInv' /\ Unhandled' \subseteq Unhandled /\ Stale' \subseteq Stale
    BY <1>1, <1>3, ReceiveStep, PopStep
  <2>2. UNCHANGED <<exp, uids, worker, sure>>
    BY <1>3 DEF Receive, PodInformer
  <2>3. AcctInv'
    BY <1>1, <1>2, <2>1, <2>2, PassiveStep DEF worker
  <2>4. QED
    BY <1>2, <2>1, <2>3 DEF FullInv
<1>4. CASE Relist
  <2>1. StructInv' /\ Unhandled' \subseteq Unhandled /\ Stale' \subseteq Stale
    BY <1>1, <1>4, RelistStep
  <2>2. UNCHANGED <<exp, uids, worker, sure>>
    <3>1. UNCHANGED <<exp, uids, worker>> /\ sure
      BY <1>4 DEF Relist
    <3>2. sure \in BOOLEAN /\ sure' \in BOOLEAN
      BY <1>1 DEF TypeOK
    <3>3. QED
      BY <3>1, <3>2
  <2>3. AcctInv'
    BY <1>1, <1>2, <2>1, <2>2, PassiveStep DEF worker
  <2>4. QED
    BY <1>2, <2>1, <2>3 DEF FullInv
<1>5. CASE Resync \/ Expire
  <2>1. UNCHANGED <<api, history, received, fifo, cache, notes, done, uids, worker, sure>>
    BY <1>5 DEF Resync, Expire, informer
  <2>2. exp'.set = exp.set /\ exp'.add = exp.add /\ exp'.del = exp.del
    BY <1>1, <1>5 DEF Resync, Expire, TypeOK
  <2>3. HoldsKnown
    BY <2>1 DEF HoldsKnown, Held, worker
  <2>4. QED
    BY <1>2, <2>1, <2>2, <2>3, StillStep DEF worker
<1>6. CASE Restart
  <2>1. StructInv' /\ Unhandled' = {} /\ Stale' = {}
    BY <1>1, <1>6, RestartStep
  <2>2. exp' = NoExpectations /\ uids' = {} /\ pc' = "idle"
    BY <1>6 DEF Restart, Return
  <2>3. exp'.set = FALSE
    BY <2>2 DEF NoExpectations
  <2>4. ASSUME sure' PROVE Accounted'
    BY <2>1, <2>2, <2>3, <2>4 DEF Accounted, Expected, NothingExpected, ListsClean, DeletesAwaited,
                                  CallsExpected, Clean
  <2>5. QED
    BY <1>2, <2>1, <2>4 DEF FullInv, AcctInv
<1>7. QED
  BY <1>3, <1>4, <1>5, <1>6

\* A deletion is observed of a pod that does not look active and that is not active.
LEMMA ObservedAcct ==
  ASSUME TypeInv, TypeInv', NEW p \in Pods, DeletionObserved({p}), Expected, p \notin Stale,
         Unhandled' \subseteq Unhandled, Stale' \subseteq Stale, UNCHANGED <<pc, batch>>
  PROVE  Expected' /\ exp'.set = exp.set /\ uids' = uids \ {p}
<1>1. TypeOK
  BY DEF TypeInv
<1>2. /\ uids' = uids \ {p} /\ exp'.set = exp.set
      /\ exp.set => exp'.add = exp.add /\ exp'.del = exp.del - (IF p \in uids THEN 1 ELSE 0)
  BY <1>1, DeletionObservedType
<1>3. /\ Unhandled \in SUBSET Pods /\ Cardinality(Unhandled) \in Nat
      /\ uids \in SUBSET Pods /\ Cardinality(uids) \in Nat
      /\ exp.add \in Int /\ exp.del \in Int /\ Outstanding \in Nat
  BY Sizes
<1>4. Cardinality(Unhandled') <= Cardinality(Unhandled) /\ Cardinality(Unhandled') \in Nat
  BY <1>3, Fewer
<1>5. Cardinality(uids') = Cardinality(uids) - (IF p \in uids THEN 1 ELSE 0)
  <2>1. CASE p \in uids
    BY <1>2, <1>3, <2>1, OneLess
  <2>2. CASE p \notin uids
    <3>1. uids' = uids
      BY <1>2, <2>2
    <3>2. QED
      BY <1>3, <2>2, <3>1
  <2>3. QED
    BY <2>1, <2>2
<1>6. Outstanding' = Outstanding
  BY DEF Outstanding
<1>7. ASSUME exp.set PROVE exp'.add >= Cardinality(Unhandled') + Outstanding'
  BY <1>2, <1>3, <1>4, <1>6, <1>7 DEF Expected
<1>8. ASSUME exp.set PROVE exp'.del >= Cardinality(uids')
  BY <1>2, <1>3, <1>5, <1>8 DEF Expected
<1>9. ASSUME exp.set PROVE Stale' \subseteq uids'
  BY <1>2, <1>9 DEF Expected
<1>10. QED
  BY <1>2, <1>7, <1>8, <1>9 DEF Expected

\* addPod counts a creation.
LEMMA CountedAcct ==
  ASSUME TypeInv, TypeInv', NEW p \in Unhandled, LowerExpectations(1, 0), uids' = uids, Expected,
         Unhandled' \subseteq Unhandled \ {p}, Stale' \subseteq Stale, UNCHANGED <<pc, batch>>
  PROVE  Expected' /\ exp'.set = exp.set
<1>1. TypeOK
  BY DEF TypeInv
<1>2. exp'.set = exp.set /\ (exp.set => exp'.add = exp.add - 1 /\ exp'.del = exp.del - 0)
  BY <1>1, LowerType
<1>3. /\ Unhandled \in SUBSET Pods /\ Cardinality(Unhandled) \in Nat
      /\ Cardinality(uids) \in Nat
      /\ exp.add \in Int /\ exp.del \in Int /\ Outstanding \in Nat
  BY Sizes
<1>4. Cardinality(Unhandled \ {p}) = Cardinality(Unhandled) - 1 /\ Unhandled \ {p} \in SUBSET Pods
  BY <1>3, OneLess
<1>5. Cardinality(Unhandled') <= Cardinality(Unhandled) - 1 /\ Cardinality(Unhandled') \in Nat
  <2>1. Cardinality(Unhandled') <= Cardinality(Unhandled \ {p}) /\ Cardinality(Unhandled') \in Nat
    BY <1>4, Fewer
  <2>2. QED
    BY <1>4, <2>1
<1>6. Outstanding' = Outstanding
  BY DEF Outstanding
<1>7. QED
  BY <1>2, <1>3, <1>5, <1>6 DEF Expected

LEMMA HandlerAcct ==
  ASSUME FullInv, TypeInv', HandlePod
  PROVE  FullInv'
<1> DEFINE n == Head(notes)
<1>1. TypeInv /\ TypeOK /\ StructInv /\ RSFinal /\ AcctInv
  BY DEF FullInv, TypeInv
<1>2. UNCHANGED <<rs, rsWatch, rsCache, api, worker, sure>>
  BY DEF HandlePod
<1>3. /\ n \in Notes
      /\ \/ UNCHANGED <<exp, uids>>
         \/ CountsAdd(n)
         \/ CountsDelete(n)
         \/ n.kind = "delete" /\ DeletionObserved({n.pod})
  BY <1>1, HandlePodEffect
<1>4. PICK p \in Pods : p = n.pod
  BY <1>3 DEF Notes
<1>5. /\ StructInv' /\ Unhandled' \subseteq Unhandled /\ Stale' = Stale
      /\ n.kind = "add" => p \in Unhandled /\ Unhandled' \subseteq Unhandled \ {p}
      /\ n.kind = "delete" \/ n.obj.phase \in {"terminating", "gone"} =>
           p \notin Stale /\ api[p].phase # "active"
  BY <1>1, <1>4, HandleStep
<1>6. RSFinal'
  BY <1>1, <1>2, KeepsRSFinal
<1> HIDE DEF n
<1>7. CASE UNCHANGED <<exp, uids>>
  <2>1. AcctInv'
    BY <1>1, <1>2, <1>5, <1>7, PassiveStep DEF worker
  <2>2. QED
    BY <1>5, <1>6, <2>1 DEF FullInv
<1>8. CASE CountsAdd(n)
  <2>1. n.kind = "add" /\ LowerExpectations(1, 0) /\ uids' = uids
    BY <1>8 DEF CountsAdd
  <2>2. ASSUME sure PROVE Accounted'
    <3>1. Accounted
      BY <1>1, <2>2 DEF AcctInv
    <3>2. Expected' /\ exp'.set = exp.set
      BY <1>1, <1>2, <1>5, <2>1, <3>1, CountedAcct DEF Accounted, worker
    <3>3. Clean => Clean'
      BY <1>5, <2>1 DEF Clean
    <3>4. NothingExpected' /\ ListsClean' /\ CallsExpected'
      BY <1>2, <3>1, <3>2, <3>3 DEF Accounted, NothingExpected, ListsClean, CallsExpected, worker
    <3>5. DeletesAwaited'
      BY <1>2, <1>5, <2>1, <3>1 DEF Accounted, DeletesAwaited, worker
    <3>6. QED
      BY <3>2, <3>4, <3>5 DEF Accounted
  <2>3. QED
    BY <1>2, <1>5, <1>6, <2>2 DEF FullInv, AcctInv
<1>9. CASE CountsDelete(n) \/ (n.kind = "delete" /\ DeletionObserved({n.pod}))
  <2>1. DeletionObserved({p}) /\ p \notin Stale /\ api[p].phase # "active"
    BY <1>4, <1>5, <1>9 DEF CountsDelete
  <2>2. ASSUME sure PROVE Accounted'
    <3>1. Accounted
      BY <1>1, <2>2 DEF AcctInv
    <3>2. Expected' /\ exp'.set = exp.set /\ uids' = uids \ {p}
      BY <1>1, <1>2, <1>5, <2>1, <3>1, ObservedAcct DEF Accounted, worker
    <3>3. Clean => Clean'
      BY <1>5, <3>2 DEF Clean
    <3>4. NothingExpected' /\ ListsClean' /\ CallsExpected'
      BY <1>2, <3>1, <3>2, <3>3 DEF Accounted, NothingExpected, ListsClean, CallsExpected, worker
    <3>5. DeletesAwaited'
      BY <1>2, <1>5, <2>1, <3>1, <3>2 DEF Accounted, DeletesAwaited, worker
    <3>6. QED
      BY <3>2, <3>4, <3>5 DEF Accounted
  <2>3. QED
    BY <1>2, <1>5, <1>6, <2>2 DEF FullInv, AcctInv
<1>10. QED
  BY <1>3, <1>7, <1>8, <1>9

\* The worker goes on, outside of slowStartBatch and of the deletions, without setting
\* expectations.
LEMMA WorkerGoesOn ==
  ASSUME FullInv, TypeInv', UNCHANGED <<rs, rsWatch, rsCache, api, history, received, fifo, cache, notes, done, exp, uids, sure>>,
         HoldsKnown, pc # "create", pc' \in {"idle", "claim", "status"},
         pc' = "claim" => pc \in {"list", "claim"} /\ needsSync' = needsSync
  PROVE  FullInv'
<1>1. TypeInv /\ TypeOK /\ StructInv /\ RSFinal /\ AcctInv
  BY DEF FullInv, TypeInv
<1>2. StructInv' /\ Unhandled' = Unhandled /\ Stale' = Stale
  BY <1>1, QuietStep
<1>3. RSFinal'
  BY <1>1, KeepsRSFinal
<1>4. Outstanding' = Outstanding /\ (Clean => Clean')
  BY <1>2 DEF Outstanding, Clean
<1>5. ASSUME sure PROVE Accounted'
  <2>1. Accounted
    BY <1>1, <1>5 DEF AcctInv
  <2>2. Expected' /\ NothingExpected'
    BY <1>2, <1>4, <2>1 DEF Accounted, Expected, NothingExpected
  <2>3. ListsClean' /\ DeletesAwaited' /\ CallsExpected'
    BY <1>4, <2>1 DEF Accounted, ListsClean, DeletesAwaited, CallsExpected
  <2>4. QED
    BY <2>2, <2>3 DEF Accounted
<1>6. QED
  BY <1>2, <1>3, <1>5 DEF FullInv, AcctInv

LEMMA StartAcct ==
  ASSUME FullInv, TypeInv', StartSync
  PROVE  FullInv'
<1>1. TypeInv /\ TypeOK /\ StructInv /\ RSFinal /\ AcctInv
  BY DEF FullInv, TypeInv
<1>2. /\ UNCHANGED <<rs, rsWatch, rsCache, api, history, received, fifo, cache, notes, done, view, todo, batch>>
      /\ pc = "idle" /\ pc' \in {"idle", "list"}
  BY DEF StartSync, quiet, worker, informer
<1>3. HoldsKnown
  BY <1>2 DEF HoldsKnown, Held
<1>4. StructInv' /\ Unhandled' = Unhandled /\ Stale' = Stale
  BY <1>1, <1>2, <1>3, QuietStep
<1>5. RSFinal'
  BY <1>1, <1>2, KeepsRSFinal
<1>6. CASE rsCache.phase = "gone"
  <2>1. exp' = NoExpectations /\ uids' = {} /\ pc' = "idle" /\ sure' = sure
    BY <1>2, <1>6 DEF StartSync, worker
  <2>2. exp'.set = FALSE
    BY <2>1 DEF NoExpectations
  <2>3. Accounted'
    BY <1>2, <1>6, <2>1, <2>2 DEF Accounted, Expected, NothingExpected, ListsClean, DeletesAwaited, CallsExpected
  <2>4. QED
    BY <1>4, <1>5, <2>3 DEF FullInv, AcctInv
<1>7. CASE rsCache.phase # "gone"
  <2>1. /\ UNCHANGED <<exp, uids>> /\ pc' = "list" /\ needsSync' = SatisfiedExpectations
        /\ sure' = (sure /\ (exp.expired => Fulfilled(exp)))
    BY <1>7 DEF StartSync
  <2>2. ASSUME sure' PROVE Accounted'
    <3>1. Accounted /\ (exp.expired => Fulfilled(exp))
      BY <1>1, <2>1, <2>2 DEF AcctInv
    <3>2. /\ Unhandled \in SUBSET Pods /\ Cardinality(Unhandled) \in Nat
          /\ uids \in SUBSET Pods /\ Cardinality(uids) \in Nat
          /\ exp.add \in Int /\ exp.del \in Int
      BY <1>1, Sizes
    <3>3. Outstanding = 0 /\ Outstanding' = 0
      BY <1>2, <2>1 DEF Outstanding
    <3>4. Expected'
      BY <1>4, <2>1, <3>1, <3>3 DEF Accounted, Expected
    <3>5. ASSUME needsSync' PROVE Clean
      <4>1. CASE ~exp.set
        BY <1>7, <3>1, <4>1 DEF Accounted, NothingExpected
      <4>2. CASE exp.set
        <5>1. exp.add <= 0 /\ exp.del <= 0
          BY <2>1, <3>1, <3>5, <4>2 DEF SatisfiedExpectations, Fulfilled
        <5>2. Cardinality(Unhandled) <= 0 /\ Cardinality(uids) <= 0 /\ Stale \subseteq uids
          BY <3>1, <3>2, <3>3, <4>2, <5>1 DEF Accounted, Expected
        <5>3. Unhandled = {} /\ uids = {}
          BY <3>2, <5>2, NoneLeft
        <5>4. QED
          BY <5>2, <5>3 DEF Clean
      <4>3. QED
        BY <4>1, <4>2
    <3>6. Clean => Clean'
      BY <1>4, <2>1 DEF Clean
    <3>7. NothingExpected' /\ ListsClean'
      BY <1>2, <2>1, <3>1, <3>5, <3>6 DEF Accounted, NothingExpected, ListsClean
    <3>8. DeletesAwaited' /\ CallsExpected'
      BY <2>1 DEF DeletesAwaited, CallsExpected
    <3>9. QED
      BY <3>4, <3>7, <3>8 DEF Accounted
  <2>3. QED
    BY <1>4, <1>5, <2>2 DEF FullInv, AcctInv
<1>8. QED
  BY <1>6, <1>7

LEMMA SyncAcct ==
  ASSUME FullInv, TypeInv', ListPods \/ CanAdopt \/ Deleted \/ UpdateStatus
  PROVE  FullInv'
<1>1. TypeInv /\ TypeOK
  BY DEF FullInv, TypeInv
<1>2. NoPod.phase = "none"
  BY DEF NoPod
<1>3. CASE ListPods
  <2> DEFINE active == {p \in Pods : cache[p].phase = "active"}
             claims == {<<ClaimObject(cache[p]), p>> : p \in active}
  <2>1. /\ view' = {p \in active : <<"keep", p>> \in claims}
        /\ todo' = {c \in claims : c[1] \in {"adopt", "release"}}
        /\ pc = "list" /\ pc' = "claim" /\ needsSync' = needsSync
        /\ UNCHANGED <<rs, rsWatch, rsCache, api, history, received, fifo, cache, notes, done, exp, uids, sure>>
    BY <1>3 DEF ListPods, quiet, informer
  <2>2. \A c \in todo' : c[2] \in active
    BY <2>1
  <2>3. Held' \subseteq active
    BY <2>1, <2>2 DEF Held
  <2>4. HoldsKnown
    BY <1>2, <2>3 DEF HoldsKnown
  <2>5. QED
    BY <2>1, <2>4, WorkerGoesOn
<1>4. CASE CanAdopt
  <2>1. /\ UNCHANGED <<rs, rsWatch, rsCache, api, history, received, fifo, cache, notes, done, exp, uids, sure, view, todo, pc, needsSync>>
        /\ pc = "claim"
    BY <1>4 DEF CanAdopt, claiming, informer
  <2>2. HoldsKnown
    BY <2>1 DEF HoldsKnown, Held
  <2>3. QED
    BY <2>1, <2>2, WorkerGoesOn
<1>5. CASE Deleted
  <2>1. /\ UNCHANGED <<rs, rsWatch, rsCache, api, history, received, fifo, cache, notes, done, exp, uids, sure, view, todo>>
        /\ pc = "delete" /\ pc' = "status"
    BY <1>5 DEF Deleted, quiet, informer
  <2>2. HoldsKnown
    BY <2>1 DEF HoldsKnown, Held
  <2>3. QED
    BY <2>1, <2>2, WorkerGoesOn
<1>6. CASE UpdateStatus
  <2>1. /\ UNCHANGED <<rs, rsWatch, rsCache, api, history, received, fifo, cache, notes, done, exp, uids, sure>>
        /\ pc = "status" /\ pc' = "idle" /\ view' = {} /\ todo' = {}
    BY <1>6 DEF UpdateStatus, quiet, Return, informer
  <2>2. HoldsKnown
    BY <2>1 DEF HoldsKnown, Held
  <2>3. QED
    BY <2>1, <2>2, WorkerGoesOn
<1>7. QED
  BY <1>3, <1>4, <1>5, <1>6

LEMMA PatchAcct ==
  ASSUME FullInv, TypeInv', NEW p \in Pods, ReleasePod(p) \/ AdoptPod(p)
  PROVE  FullInv'
<1>1. TypeInv /\ TypeOK /\ StructInv /\ RSFinal /\ AcctInv /\ api[p] \in PodObject
  BY DEF FullInv, TypeInv, TypeOK
<1>2. /\ UNCHANGED <<rs, rsWatch, rsCache, received, fifo, cache, notes, done, exp, uids>>
      /\ UNCHANGED <<pc, needsSync, batch, sure>>
      /\ pc = "claim" /\ todo' \subseteq todo
      /\ <<"release", p>> \in todo \/ <<"adopt", p>> \in todo
      /\ view' \subseteq view \cup {p}
  BY DEF ReleasePod, AdoptPod, claiming, informer
<1>3. p \in Held
  BY <1>2 DEF Held
<1>4. Held' \subseteq Held
  BY <1>2, <1>3 DEF Held
<1>5. RSFinal'
  BY <1>1, <1>2, KeepsRSFinal
<1>6. CASE UNCHANGED <<api, history>>
  <2>1. HoldsKnown
    BY <1>4 DEF HoldsKnown
  <2>2. QED
    BY <1>2, <1>6, <2>1, WorkerGoesOn
<1>7. ASSUME NEW b \in BOOLEAN, WritePod(p, [api[p] EXCEPT !.own = b]), api[p] # NoPod PROVE FullInv'
  <2> DEFINE o == [api[p] EXCEPT !.own = b]
  <2>1. o \in PodObject
    BY <1>1, PodObjects
  <2>2. o.phase = api[p].phase
    BY <1>1 DEF PodObject
  <2>3. WritePod(p, o)
    BY <1>7
  <2>4. api[p].phase # "none"
    BY <1>1, <1>7 DEF StructInv, StoreInv, PodStore, Phases, WellFormed
  <2> HIDE DEF o
  <2>5. /\ StructInv' /\ Unhandled' = Unhandled /\ Stale' = Stale
        /\ \A q \in Pods : api'[q].phase = "active" => api[q].phase = "active"
    BY <1>1, <1>2, <1>4, <1>7, <2>1, <2>2, <2>3, <2>4, PlainWrite
  <2>6. AcctInv'
    BY <1>1, <1>2, <2>5, PassiveStep
  <2>7. QED
    BY <1>5, <2>5, <2>6 DEF FullInv
<1>8. ASSUME WritePod(p, [api[p] EXCEPT !.own = FALSE]), api[p] = NoPod PROVE UNCHANGED <<api, history>>
  <2>1. [NoPod EXCEPT !.own = FALSE] = NoPod
    <3> DEFINE o == [NoPod EXCEPT !.own = FALSE]
    <3>1. NoPod \in PodObject /\ o \in PodObject
      BY Objects, PodObjects
    <3>2. NoPod.own = FALSE
      BY DEF NoPod
    <3>3. o.phase = NoPod.phase /\ o.own = NoPod.own /\ o.match = NoPod.match
      BY <3>1, <3>2 DEF PodObject
    <3>4. \A x, y \in PodObject : x.phase = y.phase /\ x.own = y.own /\ x.match = y.match => x = y
      BY DEF PodObject
    <3> HIDE DEF o
    <3>5. o = NoPod
      BY <3>1, <3>3, <3>4
    <3>6. QED
      BY <3>5 DEF o
  <2>2. WritePod(p, api[p])
    BY <1>8, <2>1, Zenon
  <2>3. Stored(api[p]) = api[p]
    BY <1>8 DEF Stored, NoPod
  <2>4. QED
    BY <1>1, <2>2, <2>3, SameWrite
<1>9. \/ UNCHANGED <<api, history>>
      \/ WritePod(p, [api[p] EXCEPT !.own = FALSE])
      \/ WritePod(p, [api[p] EXCEPT !.own = TRUE]) /\ api[p] # NoPod
  BY DEF ReleasePod, AdoptPod
<1>10. QED
  BY <1>6, <1>7, <1>8, <1>9

LEMMA ClaimedAcct ==
  ASSUME FullInv, TypeInv', Claimed
  PROVE  FullInv'
<1>1. TypeInv /\ TypeOK /\ StructInv /\ RSFinal /\ AcctInv
  BY DEF FullInv, TypeInv
<1>2. /\ UNCHANGED <<rs, rsWatch, rsCache, api, history, received, fifo, cache, notes, done, sure>>
      /\ pc = "claim" /\ todo = {}
  BY DEF Claimed, quiet, informer
<1>3. RSFinal'
  BY <1>1, <1>2, KeepsRSFinal
<1>4. CASE Return /\ UNCHANGED <<exp, uids>>
  <2>1. pc' = "idle" /\ view' = {} /\ todo' = {}
    BY <1>4 DEF Return
  <2>2. HoldsKnown
    BY <2>1 DEF HoldsKnown, Held
  <2>3. QED
    BY <1>2, <1>4, <2>1, <2>2, WorkerGoesOn
<1>5. CASE pc' = "status" /\ UNCHANGED <<exp, uids, todo, view>>
  <2>1. HoldsKnown
    BY <1>5 DEF HoldsKnown, Held
  <2>2. QED
    BY <1>2, <1>5, <2>1, WorkerGoesOn
<1>6. CASE manageReplicas /\ needsSync /\ view' = view
  <2>1. sure => Clean
    BY <1>1, <1>2, <1>6 DEF AcctInv, Accounted, ListsClean
  <2>2. ASSUME NEW n \in Nat \ {0},
               exp' = [set |-> TRUE, add |-> n, del |-> 0, expired |-> FALSE],
               batch' = [size |-> 1, calls |-> 1, bad |-> 0, remaining |-> n],
               pc' = "create", UNCHANGED <<uids, todo>>
        PROVE  FullInv'
    <3>1. HoldsKnown
      BY <1>6, <2>2 DEF HoldsKnown, Held
    <3>2. StructInv' /\ Unhandled' = Unhandled /\ Stale' = Stale
      BY <1>1, <1>2, <3>1, QuietStep
    <3>3. Outstanding' = n /\ exp'.set = TRUE /\ exp'.add = n /\ exp'.del = 0
      BY <2>2 DEF Outstanding
    <3>4. ASSUME sure PROVE Accounted'
      <4>1. Unhandled' = {} /\ uids' = {} /\ Stale' = {}
        BY <2>1, <2>2, <3>2, <3>4 DEF Clean
      <4>2. Cardinality(Unhandled') = 0 /\ Cardinality(uids') = 0
        BY <4>1, FS_EmptySet
      <4>3. Expected'
        BY <3>3, <4>1, <4>2 DEF Expected
      <4>4. NothingExpected' /\ ListsClean' /\ DeletesAwaited' /\ CallsExpected'
        BY <2>2, <3>3 DEF NothingExpected, ListsClean, DeletesAwaited, CallsExpected
      <4>5. QED
        BY <4>3, <4>4 DEF Accounted
    <3>5. QED
      BY <1>2, <1>3, <3>2, <3>4 DEF FullInv, AcctInv
  <2>3. ASSUME NEW S \in SUBSET view,
               exp' = [set |-> TRUE, add |-> 0, del |-> Cardinality(S), expired |-> FALSE],
               uids' = S, todo' = {"delete"} \X S, pc' = "delete"
        PROVE  FullInv'
    <3>1. S \in SUBSET Pods /\ Cardinality(S) \in Nat
      BY <1>1, FinitePods DEF TypeOK
    <3>2. HoldsKnown
      <4>1. \A c \in todo' : c[2] \in view
        BY <2>3
      <4>2. QED
        BY <1>6, <4>1 DEF HoldsKnown, Held
    <3>3. StructInv' /\ Unhandled' = Unhandled /\ Stale' = Stale
      BY <1>1, <1>2, <3>2, QuietStep
    <3>4. Outstanding' = 0 /\ exp'.set = TRUE /\ exp'.add = 0 /\ exp'.del = Cardinality(S)
      BY <2>3 DEF Outstanding
    <3>5. ASSUME sure PROVE Accounted'
      <4>1. Unhandled' = {} /\ Stale' = {}
        BY <2>1, <3>3, <3>5 DEF Clean
      <4>2. Cardinality(Unhandled') = 0
        BY <4>1, FS_EmptySet
      <4>3. Expected'
        BY <2>3, <3>1, <3>4, <4>1, <4>2 DEF Expected
      <4>4. NothingExpected' /\ ListsClean' /\ CallsExpected'
        BY <2>3, <3>4 DEF NothingExpected, ListsClean, CallsExpected
      <4>5. DeletesAwaited'
        BY <2>3, <4>1 DEF DeletesAwaited
      <4>6. QED
        BY <4>3, <4>4, <4>5 DEF Accounted
    <3>6. QED
      BY <1>2, <1>3, <3>3, <3>5 DEF FullInv, AcctInv
  <2>4. CASE pc' = "status" /\ UNCHANGED <<exp, uids, batch, todo>>
    BY <1>5, <1>6, <2>4
  <2>5. QED
    BY <1>1, <1>6, <2>2, <2>3, <2>4, ManageReplicasEffect
<1>7. QED
  BY <1>4, <1>5, <1>6 DEF Claimed

\* A call of a batch has returned: one less is outstanding, unless it is known to have
\* created nothing.
LEMMA CallReturns ==
  ASSUME TypeInv, pc = "create", pc' = pc, batch.calls > 0
  PROVE  /\ batch' = [batch EXCEPT !.calls = @ - 1] => Outstanding' = Outstanding - 1
         /\ batch' = [batch EXCEPT !.calls = @ - 1, !.bad = @ + 1] => Outstanding' = Outstanding
<1>1. /\ batch \in Batch /\ batch.calls \in Nat /\ batch.bad \in Nat
      /\ batch.size \in Nat /\ batch.remaining \in Nat
  BY DEF TypeInv, TypeOK, Batch
<1>2. ASSUME batch' = [batch EXCEPT !.calls = @ - 1] PROVE Outstanding' = Outstanding - 1
  <2>1. batch' = [size |-> batch.size, calls |-> batch.calls - 1, bad |-> batch.bad,
                  remaining |-> batch.remaining]
    BY <1>1, <1>2 DEF Batch
  <2>2. QED
    BY <1>1, <2>1 DEF Outstanding
<1>3. ASSUME batch' = [batch EXCEPT !.calls = @ - 1, !.bad = @ + 1] PROVE Outstanding' = Outstanding
  <2>1. batch' = [size |-> batch.size, calls |-> batch.calls - 1, bad |-> batch.bad + 1,
                  remaining |-> batch.remaining]
    BY <1>1, <1>3 DEF Batch
  <2>2. QED
    BY <1>1, <2>1 DEF Outstanding
<1>4. QED
  BY <1>2, <1>3

LEMMA CreateAcct ==
  ASSUME FullInv, TypeInv', CreateFails \/ \E p \in Pods : CreatePod(p)
  PROVE  FullInv'
<1>1. TypeInv /\ TypeOK /\ StructInv /\ RSFinal /\ AcctInv
  BY DEF FullInv, TypeInv
<1>2. /\ UNCHANGED <<rs, rsWatch, rsCache, received, fifo, cache, notes, pc, needsSync, view, exp, todo>>
      /\ pc = "create" /\ batch.calls > 0
  BY DEF CreateFails, CreatePod, calling, informer
<1>3. RSFinal'
  BY <1>1, <1>2, KeepsRSFinal
<1>4. /\ Unhandled \in SUBSET Pods /\ Cardinality(Unhandled) \in Nat
      /\ uids \in SUBSET Pods /\ Cardinality(uids) \in Nat
      /\ exp.add \in Int /\ exp.del \in Int /\ Outstanding \in Nat
  BY <1>1, Sizes
<1>5. CASE CreateFails
  <2>1. /\ UNCHANGED <<api, history, done, uids, sure>>
        /\ \/ batch' = [batch EXCEPT !.calls = @ - 1]
           \/ batch' = [batch EXCEPT !.calls = @ - 1, !.bad = @ + 1]
    BY <1>5 DEF CreateFails
  <2>2. HoldsKnown
    BY <1>2 DEF HoldsKnown, Held
  <2>3. StructInv' /\ Unhandled' = Unhandled /\ Stale' = Stale
    BY <1>1, <1>2, <2>1, <2>2, QuietStep
  <2>4. Outstanding' \in {Outstanding, Outstanding - 1}
    BY <1>1, <1>2, <2>1, CallReturns
  <2>5. ASSUME sure PROVE Accounted'
    <3>1. Accounted
      BY <1>1, <2>5 DEF AcctInv
    <3>2. Expected'
      BY <1>2, <1>4, <2>1, <2>3, <2>4, <3>1 DEF Accounted, Expected
    <3>3. NothingExpected' /\ ListsClean' /\ DeletesAwaited' /\ CallsExpected'
      BY <1>2, <3>1 DEF Accounted, NothingExpected, ListsClean, DeletesAwaited, CallsExpected
    <3>4. QED
      BY <3>2, <3>3 DEF Accounted
  <2>6. QED
    BY <1>3, <2>1, <2>3, <2>5 DEF FullInv, AcctInv
<1>6. ASSUME NEW p \in Pods, CreatePod(p) PROVE FullInv'
  <2>1. /\ Fresh(p) /\ WriteNewPod(p, [phase |-> "active", own |-> TRUE, match |-> TRUE])
        /\ done' = [done EXCEPT ![p] = "created"] /\ uids' = uids \ {p}
        /\ sure' => batch' = [batch EXCEPT !.calls = @ - 1] /\ sure' = sure
    BY <1>6 DEF CreatePod
  <2>2. /\ StructInv' /\ Unhandled' = Unhandled \cup {p} /\ p \notin Unhandled
        /\ Stale' \subseteq Stale \ {p}
    BY <1>1, <1>2, <2>1, CreatingWrite
  <2>3. ASSUME sure' PROVE Accounted'
    <3>1. Accounted /\ Outstanding' = Outstanding - 1
      BY <1>1, <1>2, <2>1, <2>3, CallReturns DEF AcctInv
    <3>2. Cardinality(Unhandled') = Cardinality(Unhandled) + 1
      BY <1>4, <2>2, OneMore
    <3>3. Cardinality(uids') <= Cardinality(uids) /\ Cardinality(uids') \in Nat
      BY <1>4, <2>1, Fewer
    <3>4. Expected'
      BY <1>2, <1>4, <2>1, <2>2, <3>1, <3>2, <3>3 DEF Accounted, Expected
    <3>5. NothingExpected' /\ ListsClean' /\ DeletesAwaited' /\ CallsExpected'
      BY <1>2, <3>1 DEF Accounted, NothingExpected, ListsClean, DeletesAwaited, CallsExpected
    <3>6. QED
      BY <3>4, <3>5 DEF Accounted
  <2>4. QED
    BY <1>3, <2>2, <2>3 DEF FullInv, AcctInv
<1>7. QED
  BY <1>5, <1>6

LEMMA BatchAcct ==
  ASSUME FullInv, TypeInv', BatchEnds
  PROVE  FullInv'
<1>1. TypeInv /\ TypeOK /\ StructInv /\ RSFinal /\ AcctInv
  BY DEF FullInv, TypeInv
<1>2. UNCHANGED <<rs, rsWatch, rsCache, api, history, received, fifo, cache, notes, done, uids, needsSync, view, todo, sure>>
  BY DEF BatchEnds, quiet, informer
<1>3. RSFinal'
  BY <1>1, <1>2, KeepsRSFinal
<1>4. HoldsKnown
  BY <1>2 DEF HoldsKnown, Held
<1>5. StructInv' /\ Unhandled' = Unhandled /\ Stale' = Stale
  BY <1>1, <1>2, <1>4, QuietStep
<1>6. /\ Unhandled \in SUBSET Pods /\ Cardinality(Unhandled) \in Nat
      /\ uids \in SUBSET Pods /\ Cardinality(uids) \in Nat
      /\ exp.add \in Int /\ exp.del \in Int
  BY <1>1, Sizes
<1>7. /\ pc = "create" /\ batch.calls = 0 /\ Left \in Nat /\ batch.bad \in Nat
      /\ \/ /\ LowerExpectations(Left + batch.bad, 0)
            /\ pc' = "status" /\ failed' = TRUE /\ batch' = NoBatch
         \/ /\ NextSize \in Nat \ {0} /\ NextSize <= Left /\ batch.bad = 0
            /\ batch' = [size |-> NextSize, calls |-> NextSize, bad |-> 0, remaining |-> Left]
            /\ UNCHANGED <<pc, exp, failed>>
         \/ Left = 0 /\ batch.bad = 0 /\ pc' = "status" /\ batch' = NoBatch /\ UNCHANGED <<exp, failed>>
  BY <1>1, BatchEndsEffect
<1>8. Outstanding = Left + batch.bad
  <2>1. batch.size \in Nat /\ batch.remaining \in Nat
    BY <1>1 DEF TypeOK
  <2>2. QED
    BY <1>7, <2>1 DEF Outstanding, Left
<1>9. ASSUME sure PROVE Accounted'
  <2>1. Accounted /\ exp.set
    BY <1>1, <1>7, <1>9 DEF AcctInv, Accounted, CallsExpected
  <2>2. exp.add >= Cardinality(Unhandled) + (Left + batch.bad) /\ exp.del >= Cardinality(uids) /\ Stale \subseteq uids
    BY <1>8, <2>1 DEF Accounted, Expected
  <2>3. CASE /\ LowerExpectations(Left + batch.bad, 0) /\ pc' = "status"
    <3>1. exp'.set = exp.set /\ exp'.add = exp.add - (Left + batch.bad) /\ exp'.del = exp.del - 0
      <4>1. Left + batch.bad \in Int /\ 0 \in Int
        BY <1>7
      <4>2. QED
        BY <1>1, <2>1, <2>3, <4>1, LowerType
    <3>2. Outstanding' = 0
      BY <2>3 DEF Outstanding
    <3>3. Expected'
      BY <1>2, <1>5, <1>6, <1>7, <2>2, <3>1, <3>2 DEF Expected
    <3>4. QED
      BY <2>1, <2>3, <3>1, <3>3 DEF Accounted, NothingExpected, ListsClean, DeletesAwaited, CallsExpected
  <2>4. CASE /\ NextSize \in Nat \ {0} /\ batch.bad = 0
             /\ batch' = [size |-> NextSize, calls |-> NextSize, bad |-> 0, remaining |-> Left]
             /\ UNCHANGED <<pc, exp>>
    <3>1. Outstanding' = Left
      BY <1>7, <2>4 DEF Outstanding
    <3>2. Expected'
      BY <1>2, <1>5, <1>6, <1>7, <2>2, <2>4, <3>1 DEF Expected
    <3>3. QED
      BY <1>7, <2>1, <2>4, <3>2 DEF Accounted, NothingExpected, ListsClean, DeletesAwaited, CallsExpected
  <2>5. CASE pc' = "status" /\ UNCHANGED exp /\ Left = 0 /\ batch.bad = 0
    <3>1. Outstanding' = 0
      BY <2>5 DEF Outstanding
    <3>2. Expected'
      BY <1>2, <1>5, <1>6, <2>2, <2>5, <3>1 DEF Expected
    <3>3. QED
      BY <2>1, <2>5, <3>2 DEF Accounted, NothingExpected, ListsClean, DeletesAwaited, CallsExpected
  <2>6. QED
    BY <1>7, <2>3, <2>4, <2>5
<1>10. QED
  BY <1>2, <1>3, <1>5, <1>9 DEF FullInv, AcctInv

LEMMA DeleteAcct ==
  ASSUME FullInv, TypeInv', NEW p \in Pods, DeletePod(p)
  PROVE  FullInv'
<1>1. TypeInv /\ TypeOK /\ StructInv /\ RSFinal /\ AcctInv
  BY DEF FullInv, TypeInv
<1>2. /\ UNCHANGED <<rs, rsWatch, rsCache, received, fifo, cache, notes, pc, needsSync, view, batch>>
      /\ pc = "delete" /\ <<"delete", p>> \in todo /\ todo' = todo \ {<<"delete", p>>}
  BY DEF DeletePod, calling, informer
<1>3. RSFinal'
  BY <1>1, <1>2, KeepsRSFinal
<1>4. p \in Held /\ Held' \subseteq Held /\ HoldsKnown
  BY <1>2 DEF Held, HoldsKnown
<1>5. ASSUME UNCHANGED <<api, history, done, exp, uids, sure>> PROVE FullInv'
  BY <1>2, <1>3, <1>4, <1>5, StillStep
<1>6. ASSUME DeletionObserved({p}), UNCHANGED <<api, history, done, sure>> PROVE FullInv'
  <2>1. StructInv' /\ Unhandled' = Unhandled /\ Stale' = Stale
    BY <1>1, <1>2, <1>4, <1>6, QuietStep
  <2>2. ASSUME sure PROVE Accounted'
    <3>1. Accounted /\ exp.set /\ p \notin Stale
      BY <1>1, <1>2, <2>2 DEF AcctInv, Accounted, CallsExpected, DeletesAwaited
    <3>2. Expected' /\ exp'.set = exp.set /\ uids' = uids \ {p}
      BY <1>1, <1>2, <1>6, <2>1, <3>1, ObservedAcct DEF Accounted
    <3>3. NothingExpected' /\ ListsClean' /\ CallsExpected'
      BY <1>2, <3>1, <3>2 DEF NothingExpected, ListsClean, CallsExpected
    <3>4. DeletesAwaited'
      BY <1>2, <1>6, <2>1, <3>1, <3>2 DEF Accounted, DeletesAwaited
    <3>5. QED
      BY <3>2, <3>3, <3>4 DEF Accounted
  <2>3. QED
    BY <1>3, <1>6, <2>1, <2>2 DEF FullInv, AcctInv
<1>7. ASSUME NEW ph \in {"terminating", "gone"}, api[p].phase = "active",
             WritePod(p, [api[p] EXCEPT !.phase = ph]), done' = [done EXCEPT ![p] = "deleted"],
             sure' => UNCHANGED <<exp, uids, sure>>
      PROVE  FullInv'
  <2>1. /\ StructInv' /\ Unhandled' = Unhandled /\ Stale' \subseteq Stale \cup {p}
        /\ \A q \in Pods : api'[q].phase = "active" => api[q].phase = "active"
    BY <1>1, <1>2, <1>4, <1>7, DeletingWrite
  <2>2. ASSUME sure' PROVE Accounted'
    <3>1. Accounted /\ exp.set /\ p \in uids /\ UNCHANGED <<exp, uids>>
      BY <1>1, <1>2, <1>7, <2>2 DEF AcctInv, Accounted, CallsExpected, DeletesAwaited
    <3>2. Outstanding' = Outstanding
      BY <1>2 DEF Outstanding
    <3>3. Expected'
      BY <2>1, <3>1, <3>2 DEF Accounted, Expected
    <3>4. NothingExpected' /\ ListsClean' /\ CallsExpected'
      BY <1>2, <3>1 DEF NothingExpected, ListsClean, CallsExpected
    <3>5. DeletesAwaited'
      BY <1>2, <2>1, <3>1 DEF Accounted, DeletesAwaited
    <3>6. QED
      BY <3>3, <3>4, <3>5 DEF Accounted
  <2>3. QED
    BY <1>3, <2>1, <2>2 DEF FullInv, AcctInv
<1>8. QED
  BY <1>5, <1>6, <1>7 DEF DeletePod

LEMMA FullNextInv == FullInv /\ sure' /\ [Next]_vars => FullInv'
<1> SUFFICES ASSUME FullInv, sure', [Next]_vars PROVE FullInv'
  OBVIOUS
<1>1. TypeInv'
  BY TypeNextInv DEF FullInv
<1>2. CASE UNCHANGED vars
  <2>1. /\ UNCHANGED <<rs, rsWatch, rsCache, api, history, received, fifo, cache, notes, done, exp, uids, sure>>
        /\ UNCHANGED <<pc, batch, needsSync, view, todo>>
    BY <1>2 DEF vars, worker, informer
  <2>2. HoldsKnown
    BY <2>1 DEF HoldsKnown, Held
  <2>3. RSFinal'
    BY <2>1, KeepsRSFinal DEF FullInv
  <2>4. QED
    BY <1>1, <2>1, <2>2, <2>3, StillStep
<1>3. QED
  BY <1>1, <1>2, WritesAcct, ReplicaSetAcct, InformerAcct, HandlerAcct, StartAcct, SyncAcct, PatchAcct,
     ClaimedAcct, CreateAcct, BatchAcct, DeleteAcct DEF Next, Environment, Worker

\* What happened once that expectations cannot account for stays so.
LEMMA SureBefore == sure' /\ [Next]_vars => sure
<1> SUFFICES ASSUME sure', [Next]_vars PROVE sure
  OBVIOUS
<1>1. CASE Environment
  BY <1>1 DEF Environment, Scale, DeleteRS, Relabel, DeletePodByOther, Relist, Restart, env
<1>2. CASE StartSync \/ ListPods \/ CanAdopt \/ Claimed \/ BatchEnds \/ CreateFails \/ Deleted \/ UpdateStatus
  BY <1>2 DEF StartSync, ListPods, CanAdopt, claiming, Claimed, BatchEnds, CreateFails, Deleted, UpdateStatus
<1>3. ASSUME NEW p \in Pods, ReleasePod(p) \/ AdoptPod(p) \/ CreatePod(p) \/ DeletePod(p) PROVE sure
  BY <1>3 DEF ReleasePod, AdoptPod, claiming, CreatePod, DeletePod
<1>4. CASE RSInformer \/ Receive \/ HandlePod \/ Resync \/ Expire
  BY <1>4 DEF RSInformer, Receive, HandlePod, Resync, Expire
<1>5. ASSUME NEW p \in Pods, PodInformer(p) \/ PodEnds(p) PROVE sure
  BY <1>5 DEF PodInformer, PodEnds, env
<1>6. CASE UNCHANGED vars
  BY <1>6 DEF vars
<1>7. QED
  BY <1>1, <1>2, <1>3, <1>4, <1>5, <1>6 DEF Next, Worker

LEMMA FullInitInv == Init => FullInv
<1> SUFFICES ASSUME Init PROVE FullInv
  OBVIOUS
<1>1. TypeInv
  BY TypeInitInv
<1>2. /\ history = <<api>> /\ received = 1 /\ notes = <<>> /\ rsWatch = <<>> /\ cache = api
      /\ fifo = [p \in Pods |-> <<>>] /\ rsCache = rs /\ rs.phase = "live"
      /\ view = {} /\ todo = {} /\ uids = {} /\ pc = "idle" /\ done = [p \in Pods |-> "nothing"]
      /\ \A p \in Pods : api[p] \in {Orphan, NoPod}
  BY DEF Init
<1>3. NoPod.phase = "none" /\ Orphan.phase = "active" /\ Orphan # NoPod
  BY DEF NoPod, Orphan
<1>4. Len(history) = 1 /\ history[1] = api /\ Ahead = {1} /\ \A p \in Pods : fifo[p] = <<>> /\ Len(fifo[p]) = 0
  <2>1. Len(history) = 1 /\ history[1] = api
    BY <1>2
  <2>2. QED
    BY <1>2, <2>1 DEF Ahead
<1>5. Unseen = {} /\ Announced = {} /\ Held = {} /\ Stale = {}
  BY <1>2, <1>4 DEF Unseen, Coming, Announced, Held, Stale
<1>6. StoreInv
  <2>1. ASSUME NEW p \in Pods PROVE PodStore(p)
    <3>1. WellFormed(api[p]) /\ api[p].phase # "terminating"
      BY <1>2, <1>3 DEF WellFormed
    <3>2. Phases(p) /\ OnceGone(p) /\ NoRevival(p) /\ KnownGone(p)
      BY <1>2, <1>4, <3>1 DEF Phases, OnceGone, NoRevival, KnownGone
    <3>3. GoneLast(p) /\ EndsLast(p) /\ NoCacheRevival(p) /\ Arrives(p)
      BY <1>2, <1>4, <3>1 DEF GoneLast, EndsLast, NoCacheRevival, Arrives, Latest
    <3>4. QED
      BY <3>2, <3>3 DEF PodStore
  <2>2. QED
    BY <1>4, <2>1 DEF StoreInv, Newest
<1>7. NotesInv /\ HeldInv /\ DoneInv
  BY <1>2, <1>5 DEF NotesInv, EndsAreTrue, AnnouncedOnce, HeldInv, DoneInv
<1>8. RSFinal
  BY <1>2 DEF RSFinal
<1>9. exp.set = FALSE
  BY DEF Init, NoExpectations
<1>10. Accounted
  BY <1>2, <1>5, <1>9 DEF Accounted, Expected, NothingExpected, ListsClean, DeletesAwaited, CallsExpected,
                          Clean, Unhandled
<1>11. QED
  BY <1>1, <1>6, <1>7, <1>8, <1>10 DEF FullInv, StructInv, AcctInv

\* Full accounts, for as long as nothing has happened that expectations cannot account for.
SureInv == TypeInv /\ (sure => FullInv)

LEMMA SureInvariant == Spec => []SureInv
<1>1. Init => SureInv
  BY FullInitInv DEF SureInv, FullInv
<1>2. SureInv /\ [Next]_vars => SureInv'
  <2> SUFFICES ASSUME SureInv, [Next]_vars PROVE SureInv'
    OBVIOUS
  <2>1. TypeInv'
    BY TypeNextInv DEF SureInv
  <2>2. ASSUME sure' PROVE FullInv'
    BY <2>2, SureBefore, FullNextInv DEF SureInv
  <2>3. QED
    BY <2>1, <2>2 DEF SureInv
<1>3. QED
  BY <1>1, <1>2, PTL DEF Spec

\* The account that ControllerExpectations keep: expectations that are set are at
\* least what is on its way.  The adds cover the pods that the handlers are still
\* to be told of and those that slowStartBatch is still to create or has failed to
\* create; the dels cover the UIDSet, which holds every pod that the controller has
\* deleted and that still looks active.  The watch may break and the list, which leaves
\* the queued deltas alone, may miss what was deleted in between.  The account holds
\* until an expectation expires unfulfilled, a call fails after it has taken effect, a
\* restart forgets what is on its way, or a list is older than what the watch has
\* delivered (nothing raises expectations when the cache goes back).
THEOREM ExpectationsCover == Spec => [](TypeInv /\ (sure => StructInv /\ Accounted))
<1>1. SureInv => TypeInv /\ (sure => StructInv /\ Accounted)
  BY DEF SureInv, FullInv, AcctInv
<1>2. QED
  BY <1>1, SureInvariant, PTL

\* When SatisfiedExpectations lets syncReplicaSet go ahead, the pods that it lists
\* next show the controller's own writes: every pod that it created and that still
\* exists is there, and none that it deleted looks active.
THEOREM SyncsReadOwnWrites == Spec => []ReadsOwnWrites
<1>1. SureInv => ReadsOwnWrites
  <2> SUFFICES ASSUME SureInv, pc = "list", needsSync, sure, NEW p \in Pods
               PROVE  /\ done[p] = "created" /\ api[p] # NoPod => cache[p] # NoPod
                      /\ done[p] = "deleted" => cache[p].phase # "active"
    BY DEF ReadsOwnWrites
  <2>1. FullInv /\ TypeOK
    BY DEF SureInv, TypeInv
  <2>2. Unhandled = {} /\ Stale = {}
    BY <2>1 DEF FullInv, AcctInv, Accounted, ListsClean, Clean
  <2>3. history[Len(history)][p] = api[p] /\ Len(history) \in Ahead
    BY <2>1, AheadFacts DEF FullInv, StructInv, StoreInv, Newest
  <2>4. api[p] # NoPod /\ cache[p] = NoPod => p \in Unseen
    BY <2>3 DEF Unseen, Coming
  <2>5. QED
    BY <2>2, <2>4 DEF Unhandled, Stale
<1>2. QED
  BY <1>1, SureInvariant, PTL
=============================================================================
