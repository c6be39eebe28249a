------------------------ MODULE DelayingQueueProofs ------------------------
(***************************************************************************)
(* The delaying queue is a work queue: whatever the handlers, the workers, *)
(* the rate limiter and waitingLoop do, they use the embedded queue only   *)
(* through its operations, so that all that is proved of WorkQueue holds   *)
(* of the queue a controller works with.  And it keeps the promise of      *)
(* AbstractDelayingQueue: a request is an entry on its way from AddAfter   *)
(* through the channel and the heap to Add, and no step loses one, serves  *)
(* one early, or lets a later one replace an earlier one.                  *)
(***************************************************************************)
EXTENDS DelayingQueue, WorkQueueProofs

\* A step of a caller, of the loop or of the clock is an operation of the
\* embedded queue, or leaves it alone.
LEMMA AddStep == ASSUME NEW i \in Items, Add(i) PROVE [Next]_vars
BY DEF Next

LEMMA AddAfterStep ==
  ASSUME NEW c, NEW i \in Items, NEW d, AddAfter(c, i, d)
  PROVE  [Next]_vars
BY AddStep DEF AddAfter

LEMMA DelayStep ==
  TypeOK /\ HeldConsistent /\ DelayTypeOK /\ [DelayNext]_allVars => [Next]_vars
<1> SUFFICES ASSUME TypeOK, HeldConsistent, DelayTypeOK, [DelayNext]_allVars
             PROVE  [Next]_vars
  OBVIOUS
<1>1. CASE \E i \in Items : HandlerAdd(i)
  BY <1>1, AddStep DEF HandlerAdd
<1>2. CASE \E h \in Handlers, i \in Items, d \in Delays : HandlerAddAfter(h, i, d)
  BY <1>2, AddAfterStep DEF HandlerAddAfter
<1>3. CASE \E w \in Workers : WorkerGet(w)
  BY <1>3 DEF WorkerGet, Get, Next
<1>4. CASE \E w \in Workers, d \in Delays : SyncError(w, d)
  <2>1. PICK w \in Workers, d \in Delays : SyncError(w, d)
    BY <1>4
  <2>2. held[w] \in Items
    BY <2>1 DEF SyncError, HeldConsistent, TypeOK
  <2>3. QED
    BY <2>1, <2>2, AddAfterStep DEF SyncError
<1>5. CASE \E w \in Workers : WorkerDone(w)
  BY <1>5 DEF WorkerDone, Next
<1>6. CASE DelayingShutDown
  BY <1>6 DEF DelayingShutDown, Next
<1>7. CASE SelectEntry \/ DrainEntry
  <2>1. Receive
    BY <1>7 DEF SelectEntry, DrainEntry
  <2>2. Head(channel)[1] \in Items
    BY <2>1 DEF Receive, DelayTypeOK, Entry
  <2>3. QED
    BY <2>1, <2>2, AddStep DEF Receive
<1>8. CASE \E i \in Items : AddReady(i)
  BY <1>8, AddStep DEF AddReady
<1>9. CASE \/ \E w \in Workers : SyncOK(w)
           \/ \E c \in Callers : Send(c) \/ SendStopped(c)
           \/ CloseStopCh \/ LoopTop \/ SetTimer \/ SelectStop \/ SelectHeartbeat
           \/ SelectTimer \/ Drained \/ Tick \/ UNCHANGED allVars
  <2>1. UNCHANGED vars
    BY <1>9 DEF SyncOK, Send, SendStopped, CloseStopCh, LoopTop, SetTimer, SelectStop,
                SelectHeartbeat, SelectTimer, Drained, Tick, allVars
  <2>2. QED
    BY <2>1
<1>10. QED
  BY <1>1, <1>2, <1>3, <1>4, <1>5, <1>6, <1>7, <1>8, <1>9 DEF DelayNext

-----------------------------------------------------------------------------
(* Type correctness of the delaying part, and its timer *)

\* AddAfter leaves a caller with nothing to send, or with a proper entry.
LEMMA AddAfterSending ==
  ASSUME DelayTypeOK, NEW c \in Callers, NEW i \in Items, NEW d \in Delays, AddAfter(c, i, d)
  PROVE  sending' \in [Callers -> Entry \cup {NoEntry}]
<1>1. <<i, now + d>> \in Entry
  BY DelayingAssumption DEF DelayTypeOK, Entry
<1>2. QED
  BY <1>1 DEF AddAfter, DelayTypeOK

\* insert and Receive keep waiting a function from items to times.
LEMMA ReceiveType ==
  ASSUME DelayTypeOK, Receive
  PROVE  DelayTypeOK'
<1>1. channel \in Seq(Entry) /\ channel # <<>>
  BY DEF DelayTypeOK, Receive
<1>2. Head(channel) \in Entry /\ Tail(channel) \in Seq(Entry) /\ Len(Tail(channel)) = Len(channel) - 1
  BY <1>1
<1>3. Head(channel)[1] \in Items /\ Head(channel)[2] \in Nat
  BY <1>2 DEF Entry
<1>4. DOMAIN waiting' \subseteq Items /\ \A i \in DOMAIN waiting' : waiting'[i] \in Nat
  <2>1. waiting' \in {waiting, With(Head(channel)[1], Head(channel)[2])}
    BY DEF Receive
  <2>2. QED
    BY <1>3, <2>1 DEF DelayTypeOK, With
<1>5. channel' \in Seq(Entry) /\ Len(channel') <= ChannelCap
  BY <1>1, <1>2, DelayingAssumption DEF DelayTypeOK, Receive
<1>6. now' \in 0 .. MaxClock /\ loopNow' \in 0 .. now' /\ timer' \in Nat /\ loop' = "drain"
  BY DEF DelayTypeOK, Receive, EndOfSelect
<1>7. (stopped \in BOOLEAN)' /\ (synced \in [Workers -> BOOLEAN])'
  BY DEF DelayTypeOK, Receive
<1>8. (sending \in [Callers -> Entry \cup {NoEntry}])'
  BY DEF DelayTypeOK, Receive
<1>9. QED
  BY <1>4, <1>5, <1>6, <1>7, <1>8 DEF DelayTypeOK

LEMMA DelayType ==
  TypeOK /\ HeldConsistent /\ DelayTypeOK /\ [DelayNext]_allVars => DelayTypeOK'
<1> SUFFICES ASSUME TypeOK, HeldConsistent, DelayTypeOK, [DelayNext]_allVars
             PROVE  DelayTypeOK'
  OBVIOUS
<1>1. CASE \E i \in Items : HandlerAdd(i)
  BY <1>1 DEF HandlerAdd, DelayTypeOK, delayVars, loopVars
<1>2. CASE \E h \in Handlers, i \in Items, d \in Delays : HandlerAddAfter(h, i, d)
  <2>1. PICK h \in Handlers, i \in Items, d \in Delays : HandlerAddAfter(h, i, d)
    BY <1>2
  <2>2. sending' \in [Callers -> Entry \cup {NoEntry}]
    BY <2>1, AddAfterSending DEF HandlerAddAfter, Callers
  <2>3. QED
    BY <2>1, <2>2 DEF HandlerAddAfter, DelayTypeOK, loopVars
<1>3. CASE \E w \in Workers : WorkerGet(w)
  BY <1>3 DEF WorkerGet, DelayTypeOK, delayVars, loopVars
<1>4. CASE \E w \in Workers, d \in Delays : SyncError(w, d)
  <2>1. PICK w \in Workers, d \in Delays : SyncError(w, d)
    BY <1>4
  <2>2. held[w] \in Items
    BY <2>1 DEF SyncError, HeldConsistent, TypeOK
  <2>3. sending' \in [Callers -> Entry \cup {NoEntry}]
    BY <2>1, <2>2, AddAfterSending DEF SyncError, Callers
  <2>4. (synced \in [Workers -> BOOLEAN])'
    BY <2>1 DEF SyncError, DelayTypeOK
  <2>5. QED
    BY <2>1, <2>3, <2>4 DEF SyncError, DelayTypeOK, loopVars
<1>5. CASE \E w \in Workers : WorkerDone(w) \/ SyncOK(w)
  <2>1. (synced \in [Workers -> BOOLEAN])'
    BY <1>5 DEF WorkerDone, SyncOK, DelayTypeOK
  <2>2. QED
    BY <1>5, <2>1 DEF WorkerDone, SyncOK, DelayTypeOK, loopVars
<1>6. CASE DelayingShutDown \/ UNCHANGED allVars
  BY <1>6 DEF DelayingShutDown, allVars, DelayTypeOK, delayVars, loopVars
<1>7. CASE SelectEntry \/ DrainEntry
  BY <1>7, ReceiveType DEF SelectEntry, DrainEntry
<1>8. CASE \E i \in Items : AddReady(i)
  <2>1. PICK i \in Items : AddReady(i)
    BY <1>8
  <2>2. DOMAIN waiting' \subseteq Items /\ \A j \in DOMAIN waiting' : waiting'[j] \in Nat
    BY <2>1 DEF AddReady, Without, DelayTypeOK
  <2>3. QED
    BY <2>1, <2>2 DEF AddReady, DelayTypeOK
<1>9. CASE \E c \in Callers : Send(c)
  <2>1. PICK c \in Callers : Send(c)
    BY <1>9
  <2>2. sending[c] \in Entry
    BY <2>1 DEF Send, DelayTypeOK
  <2>3. channel' \in Seq(Entry) /\ Len(channel') <= ChannelCap
    BY <2>1, <2>2, DelayingAssumption DEF Send, DelayTypeOK
  <2>4. sending' \in [Callers -> Entry \cup {NoEntry}]
    BY <2>1 DEF Send, DelayTypeOK
  <2>5. QED
    BY <2>1, <2>3, <2>4 DEF Send, DelayTypeOK, loopVars
<1>10. CASE \E c \in Callers : SendStopped(c)
  BY <1>10 DEF SendStopped, DelayTypeOK, loopVars
<1>11. CASE CloseStopCh
  <2>1. (stopped \in BOOLEAN)'
    BY <1>11 DEF CloseStopCh
  <2>2. QED
    BY <1>11, <2>1 DEF CloseStopCh, DelayTypeOK, loopVars
<1>12. CASE LoopTop \/ SelectStop \/ SelectHeartbeat \/ SelectTimer \/ Drained
  <2>1. now' = now /\ loopNow' \in 0 .. now' /\ timer' \in Nat
    BY <1>12 DEF LoopTop, SelectStop, SelectHeartbeat, SelectTimer, Drained, EndOfSelect,
                 DelayTypeOK
  <2>2. QED
    BY <1>12, <2>1 DEF LoopTop, SelectStop, SelectHeartbeat, SelectTimer, Drained,
                       DelayTypeOK
<1>13. CASE SetTimer
  <2>1. timer' \in Nat
    BY <1>13 DEF SetTimer, DelayTypeOK
  <2>2. QED
    BY <1>13, <2>1 DEF SetTimer, DelayTypeOK
<1>14. CASE Tick
  BY <1>14, DelayingAssumption DEF Tick, DelayTypeOK
<1>15. QED
  BY <1>1, <1>2, <1>3, <1>4, <1>5, <1>6, <1>7, <1>8, <1>9, <1>10, <1>11, <1>12, <1>13,
     <1>14 DEF DelayNext

LEMMA TimerStep == DelayTypeOK /\ TimerArmed /\ [DelayNext]_allVars => TimerArmed'
<1> SUFFICES ASSUME DelayTypeOK, TimerArmed, [DelayNext]_allVars, loop' = "select"
             PROVE  \A i \in DOMAIN waiting' : timer' <= waiting'[i] - loopNow'
  BY DEF TimerArmed
<1>1. CASE SetTimer
  BY <1>1 DEF SetTimer, IsRoot, DelayTypeOK
<1>2. CASE Tick
  BY <1>2 DEF Tick, TimerArmed, DelayTypeOK
<1>3. CASE loop = "select" /\ UNCHANGED <<loopNow, waiting, timer>>
  BY <1>3 DEF TimerArmed
<1>4. QED
  BY <1>1, <1>2, <1>3 DEF DelayNext, HandlerAdd, HandlerAddAfter, WorkerGet, SyncOK, SyncError,
     WorkerDone, Send, SendStopped, DelayingShutDown, CloseStopCh, LoopTop, SelectStop,
     SelectHeartbeat, SelectTimer, SelectEntry, DrainEntry, Receive, Drained, AddReady,
     allVars, delayVars, loopVars

-----------------------------------------------------------------------------
(* Theorems *)

DelayInv == IInv /\ DelayTypeOK /\ TimerArmed

LEMMA DelayInitInv == DelayInit => DelayInv /\ Init
<1> SUFFICES ASSUME DelayInit PROVE DelayInv /\ Init
  OBVIOUS
<1>1. Init /\ IInv
  BY InitType, InitIInv DEF DelayInit
<1>2. stopped \in BOOLEAN /\ synced \in [Workers -> BOOLEAN]
  BY DEF DelayInit
<1>3. DelayTypeOK
  BY <1>2, DelayingAssumption DEF DelayInit, DelayTypeOK
<1>4. TimerArmed
  BY DEF DelayInit, TimerArmed
<1>5. QED
  BY <1>1, <1>3, <1>4 DEF DelayInv

LEMMA DelayInvStep == DelayInv /\ [DelayNext]_allVars => DelayInv' /\ [Next]_vars
BY DelayStep, DelayType, TimerStep, NextType, IInvStep DEF DelayInv, IInv

\* The queue inside a delaying queue, with its loop, its callers and its two-step
\* ShutDown, behaves as a work queue.
THEOREM DelayingIsWorkQueue == DelaySpec => Spec
BY DelayInitInv, DelayInvStep, PTL DEF DelaySpec, Spec

\* So delayed additions and retries never make two workers process one item.
THEOREM DelayingSingleProcessing == DelaySpec => [](Stingy /\ QueueConsistent)
BY DelayingIsWorkQueue, SingleProcessing, PTL

\* The channel stays within its capacity, and waitingLoop's data are well formed.
THEOREM DelayTypeCorrect == DelaySpec => []DelayTypeOK
<1>1. DelayInv => DelayTypeOK
  BY DEF DelayInv
<1>2. QED
  BY <1>1, DelayInitInv, DelayInvStep, PTL DEF DelaySpec

\* While waitingLoop sleeps, its timer is set for the earliest entry.
THEOREM TimerAlwaysArmed == DelaySpec => []TimerArmed
<1>1. DelayInv => TimerArmed
  BY DEF DelayInv
<1>2. QED
  BY <1>1, DelayInitInv, DelayInvStep, PTL DEF DelaySpec

-----------------------------------------------------------------------------
(* The promise of the delaying queue *)

\* stopCh is closed only in ShutDown, and a worker that waits in the select of
\* AddAfter is past its sync handler: it makes one request per item at most.
SendersKnown ==
  /\ stopped => shuttingDown
  /\ \A w \in Workers : sending[w] # NoEntry => synced[w]

\* The requests by where they are: with a caller, or in the heap.
Sends  == {sending[c] : c \in Callers} \ {NoEntry}
Heaped == {<<i, waiting[i]>> : i \in DOMAIN waiting}

LEMMA RequestsAre ==
  /\ Requests  = Sends  \cup Elements(channel)  \cup Heaped
  /\ Requests' = Sends' \cup Elements(channel') \cup Heaped'
BY DEF Requests, Sends, Heaped

\* Unlike the queue, the channel may hold one entry several times.
LEMMA ElementsAppend ==
  ASSUME NEW S, NEW s \in Seq(S), NEW e \in S
  PROVE  Elements(Append(s, e)) = Elements(s) \cup {e}
<1>1. DOMAIN Append(s, e) = 1..(Len(s) + 1) /\ DOMAIN s = 1..Len(s) /\ Len(s) \in Nat
  OBVIOUS
<1>2. \A k \in 1..Len(s) : Append(s, e)[k] = s[k]
  OBVIOUS
<1>3. Append(s, e)[Len(s) + 1] = e
  OBVIOUS
<1>4. Elements(Append(s, e)) \subseteq Elements(s) \cup {e}
  BY <1>1, <1>2, <1>3 DEF Elements
<1>5. Elements(s) \cup {e} \subseteq Elements(Append(s, e))
  BY <1>1, <1>2, <1>3 DEF Elements
<1>6. QED
  BY <1>4, <1>5

LEMMA ElementsTail ==
  ASSUME NEW S, NEW s \in Seq(S), s # <<>>
  PROVE  Elements(s) = Elements(Tail(s)) \cup {Head(s)}
<1>1. DOMAIN Tail(s) = 1..(Len(s) - 1) /\ DOMAIN s = 1..Len(s) /\ Len(s) \in Nat \ {0}
  OBVIOUS
<1>2. \A k \in 1..(Len(s) - 1) : Tail(s)[k] = s[k + 1]
  OBVIOUS
<1>3. Head(s) = s[1]
  OBVIOUS
<1>4. \A k \in 2..Len(s) : k - 1 \in 1..(Len(s) - 1) /\ Tail(s)[k - 1] = s[k]
  BY <1>1, <1>2
<1>5. ASSUME NEW x \in Elements(s) PROVE x \in Elements(Tail(s)) \cup {Head(s)}
  <2>1. PICK k \in 1..Len(s) : x = s[k]
    BY <1>1 DEF Elements
  <2>2. CASE k = 1
    BY <1>3, <2>1, <2>2
  <2>3. CASE k # 1
    <3>1. k \in 2..Len(s)
      BY <1>1, <2>3
    <3>2. x = Tail(s)[k - 1] /\ k - 1 \in DOMAIN Tail(s)
      BY <1>1, <1>4, <2>1, <3>1
    <3>3. QED
      BY <3>2 DEF Elements
  <2>4. QED
    BY <2>2, <2>3
<1>6. ASSUME NEW x \in Elements(Tail(s)) PROVE x \in Elements(s)
  <2>1. PICK k \in 1..(Len(s) - 1) : x = Tail(s)[k]
    BY <1>1, <1>6 DEF Elements
  <2>2. x = s[k + 1] /\ k + 1 \in DOMAIN s
    BY <1>1, <1>2, <2>1
  <2>3. QED
    BY <2>2 DEF Elements
<1>7. Head(s) \in Elements(s)
  BY <1>1, <1>3 DEF Elements
<1>8. QED
  BY <1>5, <1>6, <1>7

LEMMA SendersStep ==
  DelayTypeOK /\ SendersKnown /\ [Next]_vars /\ [DelayNext]_allVars => SendersKnown'
<1> SUFFICES ASSUME DelayTypeOK, SendersKnown, [Next]_vars, [DelayNext]_allVars
             PROVE  SendersKnown'
  OBVIOUS
<1>1. shuttingDown => shuttingDown'
  BY DEF Next, Add, MarkDirty, Get, GetWait, GetShutdown, GetItem, Done, ShutDown,
         queueVars, vars
<1>2. stopped' => stopped \/ shuttingDown
  BY DEF DelayNext, HandlerAdd, HandlerAddAfter, WorkerGet, SyncOK, SyncError, WorkerDone,
         Send, SendStopped, DelayingShutDown, CloseStopCh, LoopTop, SetTimer, SelectStop,
         SelectHeartbeat, SelectTimer, SelectEntry, DrainEntry, Receive, Drained, AddReady,
         Tick, allVars, delayVars
<1>3. \A w \in Workers : sending'[w] # NoEntry => synced'[w]
  <2>1. CASE UNCHANGED <<sending, synced>>
    BY <2>1 DEF SendersKnown
  <2>2. CASE \E h \in Handlers, i \in Items, d \in Delays : HandlerAddAfter(h, i, d)
    <3>1. PICK h \in Handlers, i \in Items, d \in Delays : HandlerAddAfter(h, i, d)
      BY <2>2
    <3>2. synced' = synced /\ \A w \in Workers : sending'[w] = sending[w]
      BY <3>1, DelayingAssumption DEF HandlerAddAfter, AddAfter, DelayTypeOK, Callers
    <3>3. QED
      BY <3>2 DEF SendersKnown
  <2>3. CASE \E w \in Workers, d \in Delays : SyncError(w, d)
    <3>1. PICK w \in Workers, d \in Delays : SyncError(w, d)
      BY <2>3
    <3>2. synced' = [synced EXCEPT ![w] = TRUE]
      BY <3>1 DEF SyncError
    <3>3. \A v \in Workers \ {w} : sending'[v] = sending[v]
      BY <3>1 DEF SyncError, AddAfter, DelayTypeOK, Callers
    <3>4. synced \in [Workers -> BOOLEAN]
      BY DEF DelayTypeOK
    <3>5. QED
      BY <3>2, <3>3, <3>4, Zenon DEF SendersKnown
  <2>4. CASE \E w \in Workers : SyncOK(w)
    BY <2>4, Zenon DEF SyncOK, DelayTypeOK, SendersKnown
  <2>5. CASE \E w \in Workers : WorkerDone(w)
    BY <2>5, Zenon DEF WorkerDone, DelayTypeOK, SendersKnown
  <2>6. CASE \E c \in Callers : Send(c) \/ SendStopped(c)
    <3>1. PICK c \in Callers : Send(c) \/ SendStopped(c)
      BY <2>6
    <3>2. synced' = synced /\ \A w \in Workers : sending'[w] \in {sending[w], NoEntry}
      BY <3>1 DEF Send, SendStopped, DelayTypeOK, Callers
    <3>3. QED
      BY <3>2 DEF SendersKnown
  <2>7. QED
    BY <2>1, <2>2, <2>3, <2>4, <2>5, <2>6
    DEF DelayNext, HandlerAdd, WorkerGet, DelayingShutDown, CloseStopCh, LoopTop, SetTimer,
        SelectStop, SelectHeartbeat, SelectTimer, SelectEntry, DrainEntry, Receive, Drained,
        AddReady, Tick, allVars, delayVars
<1>4. QED
  BY <1>1, <1>2, <1>3 DEF SendersKnown

\* A step of the embedded queue that touches no request is one of its promise,
\* which the promise of the delaying queue contains.
LEMMA PlainStep ==
  IInv /\ [Next]_vars /\ Requests' = Requests /\ now' = now
    => [DelayPromise!DelayedNext]_DelayPromise!delayedVars
<1> SUFFICES ASSUME IInv, [Next]_vars, Requests' = Requests, now' = now
             PROVE  [DelayPromise!DelayedNext]_DelayPromise!delayedVars
  OBVIOUS
<1>1. [Promise!Next]_Promise!absVars
  BY PromiseStep
<1>2. CASE UNCHANGED Promise!absVars
  BY <1>2 DEF Promise!absVars, DelayPromise!delayedVars
<1>3. CASE Promise!Next
  <2>1. DelayPromise!Next
    BY <1>3 DEF Promise!Next, DelayPromise!Next, Promise!Request, DelayPromise!Request,
       Promise!Start, DelayPromise!Start, Promise!Finish, DelayPromise!Finish,
       Promise!Close, DelayPromise!Close
  <2>2. QED
    BY <2>1 DEF DelayPromise!DelayedNext
<1>4. QED
  BY <1>1, <1>2, <1>3

\* Add makes an item pending, unless the queue is closed.
LEMMA AddsPending ==
  ASSUME NEW i, Add(i)
  PROVE  /\ dirty' = IF shuttingDown THEN dirty ELSE dirty \cup {i}
         /\ UNCHANGED <<held, shuttingDown>>
BY DEF Add, MarkDirty, vars

\* An entry that is added in time is a request that is served, or, if an equal
\* one is on its way, an addition that nobody had to ask for.
LEMMA ServeStep ==
  ASSUME NEW i \in Items, NEW t \in Nat, IInv, DelayTypeOK, Add(i),
         <<i, t>> \in Requests, t <= now, now' = now,
         Requests' = Requests \/ Requests' = Requests \ {<<i, t>>}
  PROVE  [DelayPromise!DelayedNext]_DelayPromise!delayedVars
<1>1. CASE Requests' = Requests
  BY <1>1, AddStep, PlainStep
<1>2. CASE Requests' = Requests \ {<<i, t>>}
  <2>1. DelayPromise!Serve(i, t)
    BY <1>2, AddsPending DEF DelayPromise!Serve
  <2>2. PICK r \in Requests : r = <<i, t>>
    OBVIOUS
  <2>3. DelayPromise!Serve(r[1], r[2])
    BY <2>1, <2>2
  <2>4. QED
    BY <2>3 DEF DelayPromise!DelayedNext
<1>3. QED
  BY <1>1, <1>2

\* A request that gives way to an earlier one for the same item.
LEMMA MergeStep ==
  ASSUME NEW i, NEW t \in Nat, NEW u \in Nat,
         {<<i, t>>, <<i, u>>} \subseteq Requests, t < u,
         UNCHANGED vars, now' = now,
         Requests' = Requests \/ Requests' = Requests \ {<<i, u>>}
  PROVE  [DelayPromise!DelayedNext]_DelayPromise!delayedVars
<1>1. CASE Requests' = Requests
  BY <1>1 DEF vars, DelayPromise!delayedVars
<1>2. CASE Requests' = Requests \ {<<i, u>>}
  <2>1. DelayPromise!Merge(i, t, u)
    BY <1>2 DEF DelayPromise!Merge, vars
  <2>2. PICK r \in Requests : r = <<i, t>>
    OBVIOUS
  <2>3. PICK s \in Requests : s = <<i, u>>
    OBVIOUS
  <2>4. r[1] = s[1] /\ DelayPromise!Merge(r[1], r[2], s[2])
    BY <2>1, <2>2, <2>3
  <2>5. QED
    BY <2>4 DEF DelayPromise!DelayedNext
<1>3. QED
  BY <1>1, <1>2

\* AddAfter adds at once, or makes a request.
LEMMA RequestDelayed ==
  ASSUME DelayInv, SendersKnown, NEW c \in Callers, NEW i \in Items, NEW d \in Delays,
         AddAfter(c, i, d), sending[c] = NoEntry, UNCHANGED <<now, channel, waiting>>
  PROVE  [DelayPromise!DelayedNext]_DelayPromise!delayedVars
<1>1. IInv /\ DelayTypeOK /\ sending \in [Callers -> Entry \cup {NoEntry}]
  BY DEF DelayInv, DelayTypeOK
<1>2. CASE UNCHANGED sending
  <2>1. Requests' = Requests
    BY <1>2 DEF Requests, Elements
  <2>2. QED
    BY <1>1, <2>1, AddAfterStep, PlainStep
<1>3. CASE ~shuttingDown /\ UNCHANGED vars /\ sending' = [sending EXCEPT ![c] = <<i, now + d>>]
  <2> DEFINE e == <<i, now + d>>
  <2>1. e \in Entry /\ e # NoEntry
    BY <1>1, DelayingAssumption DEF Entry, DelayTypeOK
  <2> HIDE DEF e
  <2>2. Sends' = Sends \cup {e}
    <3>1. sending' = [sending EXCEPT ![c] = e]
      BY <1>3 DEF e
    <3>2. sending'[c] = e /\ \A b \in Callers \ {c} : sending'[b] = sending[b]
      BY <1>1, <3>1
    <3>3. QED
      BY <2>1, <3>2 DEF Sends
  <2>3. Requests' = Requests \cup {e}
    BY <2>2, RequestsAre DEF Heaped
  <2>4. DelayPromise!Delay(i, d)
    BY <1>3, <2>3 DEF DelayPromise!Delay, vars, e
  <2>5. QED
    BY <2>4 DEF DelayPromise!DelayedNext
<1>4. QED
  BY <1>2, <1>3 DEF AddAfter

\* What moves between callers, channel and heap is requested as before.
LEMMA SendKeepsRequests ==
  ASSUME DelayTypeOK, NEW c \in Callers, Send(c)
  PROVE  Requests' = Requests
<1>1. PICK e \in Entry : e = sending[c] /\ e # NoEntry
  BY DEF Send, DelayTypeOK
<1>2. sending'[c] = NoEntry /\ \A b \in Callers \ {c} : sending'[b] = sending[b]
  BY DEF Send, DelayTypeOK
<1>3. Sends = Sends' \cup {e} \/ Sends = Sends'
  BY <1>1, <1>2 DEF Sends
<1>4. e \in Sends
  BY <1>1 DEF Sends
<1>5. Elements(channel') = Elements(channel) \cup {e}
  BY <1>1, ElementsAppend DEF Send, DelayTypeOK
<1>6. Heaped' = Heaped
  BY DEF Send, loopVars, Heaped
<1>7. QED
  BY <1>3, <1>4, <1>5, <1>6, RequestsAre

LEMMA StopDropsRequest ==
  ASSUME DelayTypeOK, NEW c \in Callers, SendStopped(c)
  PROVE  Requests' \subseteq Requests
<1>1. \A b \in Callers : sending'[b] \in {sending[b], NoEntry}
  BY DEF SendStopped, DelayTypeOK
<1>2. Sends' \subseteq Sends
  BY <1>1 DEF Sends
<1>3. Heaped' = Heaped /\ channel' = channel
  BY DEF SendStopped, loopVars, Heaped
<1>4. QED
  BY <1>2, <1>3, RequestsAre

LEMMA AddReadyRequests ==
  ASSUME DelayTypeOK, NEW i \in Items, AddReady(i)
  PROVE  /\ <<i, waiting[i]>> \in Requests
         /\ Requests' = Requests \/ Requests' = Requests \ {<<i, waiting[i]>>}
<1>1. PICK e : e = <<i, waiting[i]>>
  OBVIOUS
<1>2. e \in Heaped
  BY <1>1 DEF AddReady, IsRoot, Heaped
<1>3. Heaped' = Heaped \ {e}
  <2>1. DOMAIN waiting' = DOMAIN waiting \ {i} /\ \A j \in DOMAIN waiting' : waiting'[j] = waiting[j]
    BY DEF AddReady, Without
  <2>2. QED
    BY <1>1, <2>1 DEF Heaped
<1>4. Sends' = Sends /\ channel' = channel
  BY DEF AddReady, Sends
<1>5. e \in Requests /\ (Requests' = Requests \/ Requests' = Requests \ {e})
  BY <1>2, <1>3, <1>4, RequestsAre
<1>6. QED
  BY <1>1, <1>5

\* An entry taken from the channel is served, moves to the heap, or is merged
\* with the entry of its item there: the sooner of the two is kept.
LEMMA ReceiveStep ==
  ASSUME DelayInv, Receive
  PROVE  [DelayPromise!DelayedNext]_DelayPromise!delayedVars
<1>0. IInv /\ DelayTypeOK /\ channel \in Seq(Entry) /\ channel # <<>> /\ now \in Nat
  BY DEF DelayInv, DelayTypeOK, Receive
<1>1. PICK i \in Items, t \in Nat : Head(channel) = <<i, t>>
  BY <1>0 DEF Entry
<1>2. PICK e : e = <<i, t>>
  OBVIOUS
<1>3. Elements(channel) = Elements(channel') \cup {e}
  BY <1>0, <1>1, <1>2, ElementsTail DEF Receive
<1>4. Sends' = Sends /\ now' = now
  BY DEF Receive, Sends
<1>5. e \in Requests
  BY <1>3, RequestsAre
<1>6. CASE t <= now
  <2>1. Add(i) /\ waiting' = waiting
    BY <1>1, <1>6 DEF Receive
  <2>2. Heaped' = Heaped
    BY <2>1 DEF Heaped
  <2>3. Requests' = Requests \/ Requests' = Requests \ {e}
    BY <1>3, <1>4, <2>2, RequestsAre
  <2>4. QED
    BY <1>0, <1>2, <1>4, <1>5, <1>6, <2>1, <2>3, ServeStep
<1>7. CASE ~(t <= now)
  <2>1. /\ UNCHANGED vars
        /\ waiting' = IF i \notin DOMAIN waiting \/ waiting[i] > t THEN With(i, t) ELSE waiting
    BY <1>1, <1>7 DEF Receive
  <2>2. CASE i \notin DOMAIN waiting
    <3>1. DOMAIN waiting' = DOMAIN waiting \cup {i} /\ waiting'[i] = t
          /\ \A j \in DOMAIN waiting : waiting'[j] = waiting[j]
      BY <2>1, <2>2 DEF With
    <3>2. Heaped' = Heaped \cup {e}
      BY <1>2, <3>1 DEF Heaped
    <3>3. Requests' = Requests
      BY <1>3, <1>4, <3>2, RequestsAre
    <3>4. QED
      BY <1>0, <1>4, <2>1, <3>3, PlainStep
  <2>3. CASE i \in DOMAIN waiting
    <3>1. PICK u \in Nat : u = waiting[i]
      BY <1>0, <2>3 DEF DelayTypeOK
    <3>2. PICK f : f = <<i, u>>
      OBVIOUS
    <3>3. f \in Heaped
      BY <2>3, <3>1, <3>2 DEF Heaped
    <3>4. CASE t < u
      <4>1. DOMAIN waiting' = DOMAIN waiting /\ waiting'[i] = t
            /\ \A j \in DOMAIN waiting \ {i} : waiting'[j] = waiting[j]
        BY <2>1, <2>3, <3>1, <3>4 DEF With
      <4>2. Heaped' = (Heaped \ {f}) \cup {e}
        BY <1>2, <2>3, <3>1, <3>2, <4>1 DEF Heaped
      <4>3. e # f
        BY <1>2, <3>2, <3>4
      <4>4. Requests' = Requests \/ Requests' = Requests \ {f}
        BY <1>3, <1>4, <4>2, <4>3, <3>3, RequestsAre
      <4>5. f \in Requests
        BY <3>3, RequestsAre
      <4>6. QED
        BY <1>2, <1>4, <1>5, <2>1, <3>2, <3>4, <4>4, <4>5, MergeStep
    <3>5. CASE ~(t < u)
      <4>1. Heaped' = Heaped
        BY <2>1, <2>3, <3>1, <3>5 DEF Heaped
      <4>2. Requests' = Requests \/ Requests' = Requests \ {e}
        BY <1>3, <1>4, <4>1, RequestsAre
      <4>3. f \in Requests
        BY <3>3, RequestsAre
      <4>4. CASE u < t
        BY <1>2, <1>4, <1>5, <2>1, <3>2, <4>2, <4>3, <4>4, MergeStep
      <4>5. CASE u = t
        <5>1. Requests' = Requests
          BY <1>2, <1>3, <1>4, <3>2, <3>3, <4>1, <4>5, RequestsAre
        <5>2. QED
          BY <1>0, <1>4, <2>1, <5>1, PlainStep
      <4>6. QED
        BY <3>5, <4>4, <4>5
    <3>6. QED
      BY <3>4, <3>5
  <2>4. QED
    BY <2>2, <2>3
<1>8. QED
  BY <1>6, <1>7

\* Every step of the delaying queue is one that its promise allows.
LEMMA DelayPromiseStep ==
  DelayInv /\ SendersKnown /\ [DelayNext]_allVars
    => [DelayPromise!DelayedNext]_DelayPromise!delayedVars
<1> SUFFICES ASSUME DelayInv, SendersKnown, [DelayNext]_allVars
             PROVE  [DelayPromise!DelayedNext]_DelayPromise!delayedVars
  OBVIOUS
<1>0. IInv /\ TypeOK /\ HeldConsistent /\ DelayTypeOK /\ [Next]_vars
  BY DelayInvStep DEF DelayInv, IInv
<1>1. CASE Requests' = Requests /\ now' = now
  BY <1>0, <1>1, PlainStep
<1>2. CASE UNCHANGED <<now, sending, channel, waiting>>
  <2>1. Requests' = Requests /\ now' = now
    BY <1>2 DEF Requests, Elements
  <2>2. QED
    BY <1>1, <2>1
<1>3. CASE \E h \in Handlers, i \in Items, d \in Delays : HandlerAddAfter(h, i, d)
  <2>1. PICK h \in Handlers, i \in Items, d \in Delays : HandlerAddAfter(h, i, d)
    BY <1>3
  <2>2. h \in Callers /\ sending[h] = NoEntry /\ UNCHANGED <<now, channel, waiting>>
    BY <2>1 DEF HandlerAddAfter, Callers, loopVars
  <2>3. QED
    BY <2>1, <2>2, RequestDelayed DEF HandlerAddAfter
<1>4. CASE \E w \in Workers, d \in Delays : SyncError(w, d)
  <2>1. PICK w \in Workers, d \in Delays : SyncError(w, d)
    BY <1>4
  <2>2. w \in Callers /\ sending[w] = NoEntry /\ UNCHANGED <<now, channel, waiting>>
    BY <2>1 DEF SyncError, Callers, loopVars, SendersKnown
  <2>3. held[w] \in Items
    BY <1>0, <2>1 DEF SyncError, HeldConsistent, TypeOK
  <2>4. QED
    BY <2>1, <2>2, <2>3, RequestDelayed DEF SyncError
<1>5. CASE \E c \in Callers : Send(c)
  <2>1. now' = now
    BY <1>5 DEF Send
  <2>2. QED
    BY <1>0, <1>1, <1>5, <2>1, SendKeepsRequests
<1>6. CASE \E c \in Callers : SendStopped(c)
  <2>1. UNCHANGED <<vars, now>> /\ shuttingDown /\ Requests' \subseteq Requests
    BY <1>0, <1>6, StopDropsRequest DEF SendStopped, SendersKnown
  <2>2. DelayPromise!Cancel
    BY <2>1 DEF DelayPromise!Cancel, vars
  <2>3. QED
    BY <2>2 DEF DelayPromise!DelayedNext
<1>7. CASE SelectEntry \/ DrainEntry
  BY <1>7, ReceiveStep DEF SelectEntry, DrainEntry
<1>8. CASE \E i \in Items : AddReady(i)
  <2>1. PICK i \in Items : AddReady(i)
    BY <1>8
  <2>2. waiting[i] \in Nat /\ waiting[i] <= now /\ now' = now
    BY <1>0, <2>1 DEF AddReady, IsRoot, DelayTypeOK
  <2>3. QED
    BY <1>0, <2>1, <2>2, AddReadyRequests, ServeStep DEF AddReady
<1>9. CASE Tick
  <2>1. UNCHANGED <<vars, sending, channel, waiting>> /\ (now' = now + 1 \/ now' = now)
    BY <1>9 DEF Tick
  <2>2. Requests' = Requests
    BY <2>1 DEF Requests, Elements
  <2>3. CASE now' = now + 1
    BY <2>1, <2>2, <2>3 DEF DelayPromise!Tick, DelayPromise!DelayedNext, vars
  <2>4. QED
    BY <1>1, <2>1, <2>2, <2>3
<1>10. QED
  BY <1>2, <1>3, <1>4, <1>5, <1>6, <1>7, <1>8, <1>9
  DEF DelayNext, HandlerAdd, WorkerGet, SyncOK, WorkerDone, DelayingShutDown, CloseStopCh,
      LoopTop, SetTimer, SelectStop, SelectHeartbeat, SelectTimer, Drained, allVars,
      delayVars, loopVars

\* The delaying queue keeps its promise: whatever the order in which callers,
\* waitingLoop and ShutDown run, no item is added before its time, no request
\* that AddAfter accepted is lost while the queue runs, and a later request
\* for an item never puts off an earlier one.
THEOREM DelayingKeepsPromise == DelaySpec => KeepsDelayPromise
<1>1. DelayInit => DelayPromise!DelayedInit /\ SendersKnown
  <2> SUFFICES ASSUME DelayInit PROVE DelayPromise!DelayedInit /\ SendersKnown
    OBVIOUS
  <2>1. Requests = {}
    BY DEF DelayInit, Requests, Elements
  <2>2. DelayPromise!DelayedInit
    BY <2>1 DEF DelayInit, Init, DelayPromise!DelayedInit, DelayPromise!Init
  <2>3. SendersKnown
    BY DEF DelayInit, SendersKnown, Callers
  <2>4. QED
    BY <2>2, <2>3
<1>2. DelayInv => DelayTypeOK
  BY DEF DelayInv
<1>3. QED
  BY <1>1, <1>2, DelayInitInv, DelayInvStep, SendersStep, DelayPromiseStep, PTL
  DEF DelaySpec, KeepsDelayPromise, DelayPromise!DelayedSpec
=============================================================================
