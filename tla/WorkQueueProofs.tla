-------------------------- MODULE WorkQueueProofs --------------------------
(***************************************************************************)
(* Theorems about WorkQueue, for every set of items and every finite set   *)
(* of workers.                                                             *)
(***************************************************************************)
EXTENDS WorkQueue, FiniteSetTheorems, TLAPS

-----------------------------------------------------------------------------
(* The queue as a list without repetitions *)

LEMMA AppendElements ==
  ASSUME NEW S, NEW s \in Seq(S), NEW x \in S, x \notin Elements(s)
  PROVE  /\ Append(s, x) \in Seq(S)
         /\ Elements(Append(s, x)) = Elements(s) \cup {x}
         /\ Distinct(s) => Distinct(Append(s, x))
<1>1. /\ Append(s, x) \in Seq(S)
      /\ Len(s) \in Nat
      /\ DOMAIN s = 1 .. Len(s)
      /\ DOMAIN Append(s, x) = 1 .. (Len(s) + 1)
      /\ \A k \in 1 .. Len(s) : Append(s, x)[k] = s[k]
      /\ Append(s, x)[Len(s) + 1] = x
  OBVIOUS
<1>2. \A k \in 1 .. Len(s) : s[k] # x
  BY <1>1 DEF Elements
<1>3. Elements(Append(s, x)) = Elements(s) \cup {x}
  BY <1>1 DEF Elements
<1>4. Distinct(s) => Distinct(Append(s, x))
  BY <1>1, <1>2 DEF Distinct
<1>5. QED
  BY <1>1, <1>3, <1>4

LEMMA TailElements ==
  ASSUME NEW S, NEW s \in Seq(S), s # <<>>, Distinct(s)
  PROVE  /\ Head(s) \in Elements(s)
         /\ Tail(s) \in Seq(S)
         /\ Elements(Tail(s)) = Elements(s) \ {Head(s)}
         /\ Distinct(Tail(s))
<1>1. /\ Len(s) \in Nat \ {0}
      /\ DOMAIN s = 1 .. Len(s)
      /\ Head(s) = s[1]
      /\ Tail(s) \in Seq(S)
      /\ DOMAIN Tail(s) = 1 .. (Len(s) - 1)
      /\ \A k \in 1 .. (Len(s) - 1) : Tail(s)[k] = s[k + 1]
  OBVIOUS
<1>2. Head(s) \in Elements(s)
  BY <1>1 DEF Elements
<1>3. Distinct(Tail(s))
  BY <1>1 DEF Distinct
<1>4. ASSUME NEW x \in Elements(Tail(s)) PROVE x \in Elements(s) \ {Head(s)}
  BY <1>1, <1>4 DEF Elements, Distinct
<1>5. ASSUME NEW x \in Elements(s), x # Head(s) PROVE x \in Elements(Tail(s))
  <2>1. PICK k \in 1 .. Len(s) : x = s[k]
    BY <1>1, <1>5 DEF Elements
  <2>2. k - 1 \in 1 .. (Len(s) - 1) /\ Tail(s)[k - 1] = s[k]
    BY <1>1, <1>5, <2>1
  <2>3. QED
    BY <1>1, <2>1, <2>2 DEF Elements
<1>6. QED
  BY <1>1, <1>2, <1>3, <1>4, <1>5

-----------------------------------------------------------------------------
(* Type correctness *)

LEMMA AddType ==
  ASSUME TypeOK, NEW i \in Items, Add(i)
  PROVE  TypeOK'
<1> USE DEF Add, MarkDirty, Signal, vars
<1>1. (shuttingDown \in BOOLEAN)'
  BY DEF TypeOK
<1>2. queue' \in Seq(Items)
  BY DEF TypeOK, PC
<1>3. dirty' \in SUBSET Items /\ processing' \in SUBSET Items
  BY DEF TypeOK, PC
<1>4. (pc \in [Workers -> PC])'
  BY DEF TypeOK, PC
<1>5. (held \in [Workers -> Items \cup {NoItem}])'
  BY DEF TypeOK
<1>6. QED
  BY <1>1, <1>2, <1>3, <1>4, <1>5 DEF TypeOK

LEMMA InitType == Init => TypeOK
<1> SUFFICES ASSUME Init PROVE TypeOK
  OBVIOUS
<1>1. shuttingDown \in BOOLEAN
  BY DEF Init
<1>2. queue \in Seq(Items) /\ dirty \in SUBSET Items /\ processing \in SUBSET Items
  BY DEF Init
<1>3. pc \in [Workers -> PC] /\ held \in [Workers -> Items \cup {NoItem}]
  BY DEF Init, PC
<1>4. QED
  BY <1>1, <1>2, <1>3 DEF TypeOK

LEMMA NextType == TypeOK /\ [Next]_vars => TypeOK'
<1> SUFFICES ASSUME TypeOK, [Next]_vars PROVE TypeOK'
  OBVIOUS
<1> USE DEF TypeOK, PC
<1>1. ASSUME NEW i \in Items, Add(i) PROVE TypeOK'
  BY <1>1, AddType
<1>2. ASSUME NEW w \in Workers, GetWait(w) PROVE TypeOK'
  BY <1>2 DEF GetWait, queueVars
<1>3. ASSUME NEW w \in Workers, GetShutdown(w) PROVE TypeOK'
  BY <1>3 DEF GetShutdown, queueVars
<1>4. ASSUME NEW w \in Workers, GetItem(w) PROVE TypeOK'
  BY <1>4 DEF GetItem
<1>5. ASSUME NEW w \in Workers, Done(w) PROVE TypeOK'
  BY <1>5 DEF Done, Signal
<1>6. CASE ShutDown
  <2>1. (shuttingDown \in BOOLEAN)'
    BY <1>6 DEF ShutDown
  <2>2. QED
    BY <1>6, <2>1 DEF ShutDown, Broadcast
<1>7. CASE UNCHANGED vars
  BY <1>7 DEF vars
<1>8. QED
  BY <1>1, <1>2, <1>3, <1>4, <1>5, <1>6, <1>7 DEF Next

\* The methods of queue.go keep the queue a list of items, the two sets sets of
\* items, and every worker in one of its four places.
THEOREM TypeCorrect == Spec => []TypeOK
  BY InitType, NextType, PTL DEF Spec

-----------------------------------------------------------------------------
(* The inductive invariant *)

LEMMA AddInv ==
  ASSUME IInv, NEW i \in Items, ~shuttingDown, i \notin dirty, MarkDirty(i)
  PROVE  QueueConsistent' /\ HeldConsistent' /\ Stingy'
<1>1. /\ dirty' = dirty \cup {i}
      /\ processing' = processing /\ held' = held
  BY DEF MarkDirty
<1>2. \A w \in Workers : pc'[w] = "work" <=> pc[w] = "work"
  BY DEF MarkDirty, Signal, IInv, TypeOK
<1>3. CASE i \in processing
  BY <1>1, <1>2, <1>3 DEF MarkDirty, IInv, QueueConsistent, HeldConsistent, Stingy, Elements, Distinct
<1>4. CASE i \notin processing
  <2>1. queue' = Append(queue, i)
    BY <1>4 DEF MarkDirty
  <2>2. Elements(queue') = Elements(queue) \cup {i} /\ Distinct(queue')
    BY <2>1, AppendElements DEF IInv, TypeOK, QueueConsistent
  <2>3. QueueConsistent'
    BY <1>1, <1>4, <2>2 DEF IInv, QueueConsistent
  <2>4. QED
    BY <1>1, <1>2, <2>3 DEF IInv, HeldConsistent, Stingy
<1>5. QED
  BY <1>3, <1>4

LEMMA GetItemInv ==
  ASSUME IInv, NEW w \in Workers, GetItem(w)
  PROVE  QueueConsistent' /\ HeldConsistent' /\ Stingy'
<1> DEFINE h == Head(queue)
<1> HIDE DEF h
<1>1. /\ queue' = Tail(queue)
      /\ dirty' = dirty \ {h}
      /\ processing' = processing \cup {h}
      /\ held' = [held EXCEPT ![w] = h]
      /\ pc' = [pc EXCEPT ![w] = "work"]
  BY DEF GetItem, h
<1>2. /\ h \in Elements(queue)
      /\ Elements(queue') = Elements(queue) \ {h}
      /\ Distinct(queue')
  BY <1>1, TailElements DEF GetItem, IInv, TypeOK, QueueConsistent, h
<1>3. h \in Items /\ h \in dirty /\ h \notin processing
  BY <1>2 DEF IInv, TypeOK, QueueConsistent
<1>4. QueueConsistent'
  BY <1>1, <1>2, <1>3 DEF IInv, QueueConsistent
<1>5. \A v \in Workers : held[v] # h
  BY <1>3 DEF IInv, HeldConsistent
<1>6. held[w] \notin Items
  BY DEF GetItem, IInv, HeldConsistent
<1>7. HeldConsistent'
  BY <1>1, <1>3, <1>5, <1>6 DEF IInv, TypeOK, HeldConsistent
<1>8. Stingy'
  BY <1>1, <1>3, <1>5 DEF IInv, TypeOK, Stingy
<1>9. QED
  BY <1>4, <1>7, <1>8

LEMMA DoneInv ==
  ASSUME IInv, NEW w \in Workers, Done(w)
  PROVE  QueueConsistent' /\ HeldConsistent' /\ Stingy'
<1> DEFINE i == held[w]
<1> HIDE DEF i
<1>1. i \in Items /\ i \in processing /\ i \notin Elements(queue)
  BY DEF Done, IInv, HeldConsistent, QueueConsistent, i
<1>2. /\ processing' = processing \ {i}
      /\ held' = [held EXCEPT ![w] = NoItem]
      /\ dirty' = dirty
  BY DEF Done, i
<1>3. \A v \in Workers : pc'[v] = "work" <=> v # w /\ pc[v] = "work"
  BY DEF Done, Signal, IInv, TypeOK
<1>4. QueueConsistent'
  <2>1. CASE i \in dirty
    <3>1. queue' = Append(queue, i)
      BY <2>1 DEF Done, i
    <3>2. Elements(queue') = Elements(queue) \cup {i} /\ Distinct(queue')
      BY <1>1, <3>1, AppendElements DEF IInv, TypeOK, QueueConsistent
    <3>3. QED
      BY <1>1, <1>2, <2>1, <3>2 DEF IInv, QueueConsistent
  <2>2. CASE i \notin dirty
    <3>1. queue' = queue
      BY <2>2 DEF Done, i
    <3>2. QED
      BY <1>1, <1>2, <2>2, <3>1 DEF IInv, QueueConsistent
  <2>3. QED
    BY <2>1, <2>2
<1>5. \A v \in Workers : v # w => held[v] # i
  BY <1>1 DEF IInv, Stingy, i
<1>6. HeldConsistent'
  BY <1>1, <1>2, <1>3, <1>5, WorkQueueAssumption DEF IInv, TypeOK, HeldConsistent, i
<1>7. Stingy'
  BY <1>2, WorkQueueAssumption DEF IInv, TypeOK, Stingy
<1>8. QED
  BY <1>4, <1>6, <1>7

\* The step from one state to the next, for the whole invariant.
LEMMA IInvStep == IInv /\ TypeOK' /\ [Next]_vars => IInv'
<1> SUFFICES ASSUME IInv, TypeOK', [Next]_vars PROVE QueueConsistent' /\ HeldConsistent' /\ Stingy'
  BY DEF IInv
<1> USE DEF IInv
<1>0. CASE UNCHANGED vars
  BY <1>0 DEF vars, QueueConsistent, HeldConsistent, Stingy, Elements, Distinct
<1>1. ASSUME NEW i \in Items, Add(i) PROVE QueueConsistent' /\ HeldConsistent' /\ Stingy'
  BY <1>0, <1>1, AddInv DEF Add
<1>2. ASSUME NEW w \in Workers, GetWait(w) \/ GetShutdown(w)
      PROVE  QueueConsistent' /\ HeldConsistent' /\ Stingy'
  BY <1>2 DEF GetWait, GetShutdown, queueVars, TypeOK, QueueConsistent, HeldConsistent, Stingy, Elements, Distinct
<1>3. ASSUME NEW w \in Workers, GetItem(w) PROVE QueueConsistent' /\ HeldConsistent' /\ Stingy'
  BY <1>3, GetItemInv
<1>4. ASSUME NEW w \in Workers, Done(w) PROVE QueueConsistent' /\ HeldConsistent' /\ Stingy'
  BY <1>4, DoneInv
<1>5. CASE ShutDown
  BY <1>5 DEF ShutDown, Broadcast, TypeOK, QueueConsistent, HeldConsistent, Stingy, Elements, Distinct
<1>6. QED
  BY <1>0, <1>1, <1>2, <1>3, <1>4, <1>5 DEF Next

LEMMA InitIInv == Init /\ TypeOK => IInv
<1> SUFFICES ASSUME Init, TypeOK PROVE QueueConsistent /\ HeldConsistent /\ Stingy
  BY DEF IInv
<1>1. QueueConsistent
  BY DEF Init, QueueConsistent, Elements, Distinct
<1>2. HeldConsistent /\ Stingy
  BY WorkQueueAssumption DEF Init, HeldConsistent, Stingy
<1>3. QED
  BY <1>1, <1>2

\* doc.go, "Stingy": two workers never process the same item, whatever is added
\* while it is being processed; with it, the comments on Type.queue and
\* Type.dirty, on which the argument rests.
THEOREM SingleProcessing == Spec => [](Stingy /\ QueueConsistent)
<1>1. Init /\ TypeOK => IInv
  BY InitIInv
<1>2. IInv => Stingy /\ QueueConsistent
  BY DEF IInv
<1>3. QED
  BY <1>1, <1>2, IInvStep, TypeCorrect, PTL DEF Spec

\* The comments on Type.queue and Type.dirty: an item is queued at most once, and
\* it is if and only if it is dirty and not being processed.
THEOREM SetsAgree == Spec => []QueueConsistent
<1>1. Stingy /\ QueueConsistent => QueueConsistent
  OBVIOUS
<1>2. QED
  BY <1>1, SingleProcessing, PTL

-----------------------------------------------------------------------------
(* No wakeup is lost *)

LEMMA AtFinite ==
  ASSUME NEW l
  PROVE  IsFiniteSet(At(l)) /\ Cardinality(At(l)) \in Nat
<1>1. At(l) \subseteq Workers
  BY DEF At
<1>2. QED
  BY <1>1, WorkQueueAssumption, FS_Subset, FS_CardinalityType

\* A worker that starts to look at the queue is one more that is awake, and
\* one that stops is one less.
LEMMA OneMoreAwake ==
  ASSUME NEW w \in Workers, pc[w] # "get", (At("get"))' = At("get") \cup {w}
  PROVE  Cardinality((At("get"))') = Cardinality(At("get")) + 1
<1>1. w \notin At("get")
  BY DEF At
<1>2. QED
  BY <1>1, AtFinite, FS_AddElement

LEMMA OneLessAwake ==
  ASSUME NEW w \in Workers, pc[w] = "get", (At("get"))' = At("get") \ {w}
  PROVE  Cardinality((At("get"))') = Cardinality(At("get")) - 1
<1>1. w \in At("get")
  BY DEF At
<1>2. QED
  BY <1>1, AtFinite, FS_RemoveElement

LEMMA AddAwake ==
  ASSUME WakeInv, NEW i \in Items, ~shuttingDown, i \notin dirty, MarkDirty(i)
  PROVE  ParkedConsistent' /\ EnoughAwake'
<1> USE DEF WakeInv, IInv, TypeOK
<1>1. At("exit") = {} /\ shuttingDown' = shuttingDown
  BY DEF ParkedConsistent, MarkDirty
<1>2. CASE i \in processing
  BY <1>2, <1>1 DEF MarkDirty, ParkedConsistent, EnoughAwake, At
<1>3. CASE i \notin processing /\ At("wait") = {}
  <2>1. pc' = pc
    BY <1>3 DEF MarkDirty, Signal, At
  <2>2. QED
    BY <1>1, <1>3, <2>1 DEF ParkedConsistent, EnoughAwake, At
<1>4. CASE i \notin processing /\ At("wait") # {}
  <2>1. PICK w \in At("wait") : pc' = [pc EXCEPT ![w] = "get"]
    BY <1>4 DEF MarkDirty, Signal, At
  <2>2. w \in Workers /\ pc[w] = "wait"
    BY DEF At
  <2>3. (At("get"))' = At("get") \cup {w} /\ (At("exit"))' = {}
    BY <1>1, <2>1, <2>2 DEF At
  <2>4. Cardinality((At("get"))') = Cardinality(At("get")) + 1
    BY <2>2, <2>3, OneMoreAwake
  <2>5. Len(queue') = Len(queue) + 1 /\ Len(queue) \in Nat
    BY <1>4 DEF MarkDirty
  <2>6. QED
    BY <1>1, <1>4, <2>3, <2>4, <2>5, AtFinite DEF ParkedConsistent, EnoughAwake
<1>5. QED
  BY <1>2, <1>3, <1>4

LEMMA GetAwake ==
  ASSUME WakeInv, NEW w \in Workers, Get(w)
  PROVE  ParkedConsistent' /\ EnoughAwake'
<1> USE DEF WakeInv, IInv, TypeOK
<1>1. CASE GetWait(w) \/ GetShutdown(w)
  <2>1. queue' = <<>> /\ Len(queue') = 0
    BY <1>1 DEF GetWait, GetShutdown, queueVars
  <2>2. ParkedConsistent'
    BY <1>1 DEF GetWait, GetShutdown, queueVars, ParkedConsistent, At
  <2>3. Cardinality((At("get"))') >= 0
    <3>1. IsFiniteSet((At("get"))')
      BY WorkQueueAssumption, FS_Subset DEF At
    <3>2. QED
      BY <3>1, FS_CardinalityType
  <2>4. QED
    BY <2>1, <2>2, <2>3 DEF EnoughAwake
<1>2. CASE GetItem(w)
  <2>1. pc[w] = "get" /\ pc' = [pc EXCEPT ![w] = "work"] /\ shuttingDown' = shuttingDown
    BY <1>2 DEF GetItem
  <2>2. /\ (At("get"))' = At("get") \ {w}
        /\ (At("wait"))' = At("wait") /\ (At("exit"))' = At("exit")
    BY <2>1 DEF At
  <2>3. Cardinality((At("get"))') = Cardinality(At("get")) - 1
    BY <2>1, <2>2, OneLessAwake
  <2>4. Len(queue') = Len(queue) - 1 /\ Len(queue) \in Nat
    BY <1>2 DEF GetItem
  <2>5. QED
    BY <2>1, <2>2, <2>3, <2>4, AtFinite DEF ParkedConsistent, EnoughAwake
<1>3. QED
  BY <1>1, <1>2 DEF Get

LEMMA DoneAwake ==
  ASSUME WakeInv, NEW w \in Workers, Done(w)
  PROVE  ParkedConsistent' /\ EnoughAwake'
<1> USE DEF WakeInv, IInv, TypeOK
<1> DEFINE p == [pc EXCEPT ![w] = "get"]
           G == At("get") \cup {w}
<1>1. pc[w] = "work" /\ shuttingDown' = shuttingDown
  BY DEF Done
<1>2. Len(queue') <= Len(queue) + 1 /\ Len(queue') \in Nat /\ Len(queue) \in Nat
  BY DEF Done, HeldConsistent
<1>3. IsFiniteSet(G) /\ Cardinality(G) = Cardinality(At("get")) + 1
  <2>1. w \notin At("get")
    BY <1>1 DEF At
  <2>2. QED
    BY <2>1, AtFinite, FS_AddElement
<1>4. pc' = p \/ \E v \in At("wait") : pc' = [p EXCEPT ![v] = "get"]
  BY <1>1 DEF Done, Signal, At
<1>5. /\ G \subseteq (At("get"))'
      /\ (At("wait"))' \subseteq At("wait") /\ (At("exit"))' = At("exit")
  BY <1>1, <1>4 DEF At
<1>6. IsFiniteSet((At("get"))')
  BY WorkQueueAssumption, FS_Subset DEF At
<1>7. Cardinality((At("get"))') >= Cardinality(At("get")) + 1
  BY <1>3, <1>5, <1>6, AtFinite, FS_Subset, FS_CardinalityType
<1>8. Cardinality((At("get"))') \in Nat
  BY <1>6, FS_CardinalityType
<1>9. QED
  BY <1>1, <1>2, <1>5, <1>7, <1>8, AtFinite DEF ParkedConsistent, EnoughAwake

\* queue.go calls Signal once for every item it queues.  That is enough: while
\* a worker is parked or gone, every queued item has a worker of its own that
\* is awake; so nothing is left when the last worker exits after ShutDown.
THEOREM NoLostWakeup == Spec => [](EnoughAwake /\ DrainedAtExit)
<1>1. Init /\ TypeOK => WakeInv
  <2> SUFFICES ASSUME Init, TypeOK PROVE WakeInv
    OBVIOUS
  <2>1. IInv
    BY InitIInv
  <2>2. At("exit") = {} /\ At("wait") = {}
    BY DEF Init, At
  <2>3. QED
    BY <2>1, <2>2 DEF WakeInv, ParkedConsistent, EnoughAwake
<1>2. WakeInv /\ TypeOK' /\ [Next]_vars => WakeInv'
  <2> SUFFICES ASSUME WakeInv, TypeOK', [Next]_vars PROVE ParkedConsistent' /\ EnoughAwake'
    BY IInvStep DEF WakeInv
  <2>0. CASE UNCHANGED vars
    BY <2>0 DEF vars, WakeInv, ParkedConsistent, EnoughAwake, At
  <2>1. ASSUME NEW i \in Items, Add(i) PROVE ParkedConsistent' /\ EnoughAwake'
    BY <2>0, <2>1, AddAwake DEF Add
  <2>2. ASSUME NEW w \in Workers, Get(w) PROVE ParkedConsistent' /\ EnoughAwake'
    BY <2>2, GetAwake
  <2>3. ASSUME NEW w \in Workers, Done(w) PROVE ParkedConsistent' /\ EnoughAwake'
    BY <2>3, DoneAwake
  <2>4. CASE ShutDown
    <3>1. (At("wait"))' = {} /\ (At("exit"))' = At("exit") /\ shuttingDown'
      BY <2>4 DEF ShutDown, Broadcast, At
    <3>2. At("exit") # {} => (At("get"))' = At("get")
      BY <2>4 DEF ShutDown, Broadcast, WakeInv, IInv, TypeOK, ParkedConsistent, At
    <3>3. queue' = queue
      BY <2>4 DEF ShutDown
    <3>4. QED
      BY <3>1, <3>2, <3>3 DEF WakeInv, ParkedConsistent, EnoughAwake
  <2>5. QED
    BY <2>0, <2>1, <2>2, <2>3, <2>4 DEF Next, Get
<1>3. WakeInv => EnoughAwake /\ DrainedAtExit
  <2> SUFFICES ASSUME WakeInv, Workers # {}, At("exit") = Workers
               PROVE  dirty = {} /\ processing = {}
    BY DEF WakeInv, DrainedAtExit
  <2>1. At("get") = {} /\ \A w \in Workers : pc[w] # "work"
    BY DEF At
  <2>2. Len(queue) <= 0
    BY <2>1, FS_EmptySet DEF WakeInv, EnoughAwake
  <2>3. queue = <<>>
    BY <2>2 DEF WakeInv, IInv, TypeOK
  <2>4. processing = {}
    BY <2>1 DEF WakeInv, IInv, TypeOK, HeldConsistent
  <2>5. QED
    BY <2>3, <2>4 DEF WakeInv, IInv, QueueConsistent, Elements
<1>4. QED
  BY <1>1, <1>2, <1>3, TypeCorrect, PTL DEF Spec

\* ShutDown lets the workers drain the queue: when all have been told to exit,
\* nothing is dirty or being processed, for any finite number of workers.
THEOREM QueueDrained == Spec => []DrainedAtExit
<1>1. EnoughAwake /\ DrainedAtExit => DrainedAtExit
  OBVIOUS
<1>2. QED
  BY <1>1, NoLostWakeup, PTL

-----------------------------------------------------------------------------
(* The queue implements its promise *)

\* Every step of the queue and its workers is a step of AbstractWorkQueue, or
\* changes nothing there.
LEMMA PromiseStep == IInv /\ [Next]_vars => [Promise!Next]_Promise!absVars
<1> SUFFICES ASSUME IInv, [Next]_vars PROVE [Promise!Next]_Promise!absVars
  OBVIOUS
<1>0. CASE UNCHANGED vars
  BY <1>0 DEF vars, Promise!absVars
<1>1. ASSUME NEW i \in Items, Add(i) PROVE [Promise!Next]_Promise!absVars
  <2>1. CASE UNCHANGED vars
    BY <2>1 DEF vars, Promise!absVars
  <2>2. CASE ~shuttingDown /\ MarkDirty(i)
    <3>1. Promise!Request(i)
      BY <2>2 DEF MarkDirty, Promise!Request
    <3>2. QED
      BY <3>1 DEF Promise!Next
  <2>3. QED
    BY <1>1, <2>1, <2>2 DEF Add
<1>2. ASSUME NEW w \in Workers, GetWait(w) \/ GetShutdown(w)
      PROVE  [Promise!Next]_Promise!absVars
  BY <1>2 DEF GetWait, GetShutdown, queueVars, Promise!absVars
<1>3. ASSUME NEW w \in Workers, GetItem(w) PROVE [Promise!Next]_Promise!absVars
  <2>1. PICK h \in Elements(queue) : h = Head(queue)
    BY <1>3, TailElements DEF GetItem, IInv, TypeOK, QueueConsistent
  <2>2. h \in Items /\ h \in dirty /\ h \notin processing
    BY DEF IInv, TypeOK, QueueConsistent
  <2>3. \A v \in Workers : held[v] # h
    BY <2>2 DEF IInv, HeldConsistent
  <2>4. held[w] = NoItem
    BY <1>3 DEF GetItem, IInv, TypeOK, HeldConsistent
  <2>5. Promise!Start(w, h)
    BY <1>3, <2>1, <2>2, <2>3, <2>4 DEF GetItem, Promise!Start
  <2>6. QED
    BY <2>2, <2>5 DEF Promise!Next
<1>4. ASSUME NEW w \in Workers, Done(w) PROVE [Promise!Next]_Promise!absVars
  <2>1. held[w] # NoItem
    BY <1>4, WorkQueueAssumption DEF Done, IInv, HeldConsistent
  <2>2. Promise!Finish(w)
    BY <1>4, <2>1 DEF Done, Promise!Finish
  <2>3. QED
    BY <2>2 DEF Promise!Next
<1>5. CASE ShutDown
  BY <1>5 DEF ShutDown, Promise!Close, Promise!Next
<1>6. QED
  BY <1>0, <1>1, <1>2, <1>3, <1>4, <1>5 DEF Next

\* queue.go keeps the promises of its package comment: every step of the queue and
\* its workers is a step of AbstractWorkQueue, or changes nothing there.
THEOREM ImplementsPromise == Spec => KeepsPromise
<1>1. Init => Promise!Init
  BY DEF Init, Promise!Init
<1>2. Init /\ TypeOK => IInv
  BY InitIInv
<1>3. QED
  BY <1>1, <1>2, PromiseStep, IInvStep, TypeCorrect, PTL DEF Spec, KeepsPromise, Promise!Spec
=============================================================================
