--------------------------- MODULE DelayingQueue ---------------------------
(***************************************************************************)
(* The delaying queue of client-go (util/workqueue/delaying_queue.go): a   *)
(* work queue, a channel of delayed requests, and the waitingLoop          *)
(* goroutine that keeps them in a heap and adds each when its time has     *)
(* come.                                                                   *)
(*                                                                         *)
(* It is driven by the workers of WorkQueue, which retry a failed item     *)
(* after a delay (processNextWorkItem of every controller), and by event   *)
(* handlers, which call AddAfter as well.  The rate limiter is a set of    *)
(* possible delays here; RateLimiter says which they are.                  *)
(*                                                                         *)
(* A call of AddAfter takes two steps: it looks at the queue and computes  *)
(* readyAt when it reaches the select, and then waits in the select until  *)
(* the channel takes the entry or the queue is stopped.                    *)
(***************************************************************************)
EXTENDS WorkQueue

CONSTANTS Handlers,   \* goroutines other than workers that call AddAfter
          Delays,     \* the durations that callers ask for
          ChannelCap, \* cap(q.waitingForAddCh), 1000 in the code
          NoEntry,    \* a caller that is not in the select of AddAfter
          MaxClock    \* bound: the last moment that is modelled

ASSUME DelayingAssumption == /\ Delays \subseteq Nat
                             /\ ChannelCap \in Nat \ {0}
                             /\ MaxClock \in Nat
                             /\ Handlers \cap Workers = {}
                             /\ NoEntry \notin Items \X Nat

VARIABLES now,       \* q.clock.Now()
          stopped,   \* q.stopCh is closed
          channel,   \* q.waitingForAddCh
          sending,   \* the entry each caller tries to send in AddAfter
          synced,    \* the worker's sync handler has returned
          loop,      \* where waitingLoop is
          loopNow,   \* its local variable now
          waiting,   \* its heap and its map waitingEntryByData: readyAt by item
          timer      \* how long until nextReadyAt fires; it never does if nothing waits

loopVars  == <<loop, loopNow, waiting, timer>>
delayVars == <<now, stopped, channel, sending, synced, loopVars>>
allVars   == <<vars, delayVars>>

Callers == Workers \cup Handlers
Entry   == Items \X Nat    \* a waitFor: the data and readyAt

DelayTypeOK ==
  /\ now \in 0..MaxClock /\ loopNow \in 0..now
  /\ stopped \in BOOLEAN
  /\ channel \in Seq(Entry) /\ Len(channel) <= ChannelCap
  /\ sending \in [Callers -> Entry \cup {NoEntry}]
  /\ synced \in [Workers -> BOOLEAN]
  /\ loop \in {"top", "ready", "select", "drain", "gone"}
  /\ DOMAIN waiting \subseteq Items /\ \A i \in DOMAIN waiting : waiting[i] \in Nat
  /\ timer \in Nat

\* The heap without item i, and with i at time t.
Without(i)  == [j \in DOMAIN waiting \ {i} |-> waiting[j]]
With(i, t)  == [j \in DOMAIN waiting \cup {i} |-> IF j = i THEN t ELSE waiting[j]]
IsRoot(i)   == /\ i \in DOMAIN waiting
               /\ \A j \in DOMAIN waiting : waiting[i] <= waiting[j]

-----------------------------------------------------------------------------
(* Callers *)

\* AddAfter up to its select.
AddAfter(c, i, d) ==
  IF shuttingDown THEN UNCHANGED <<vars, sending>>
  ELSE IF d = 0 THEN Add(i) /\ UNCHANGED sending
  ELSE sending' = [sending EXCEPT ![c] = <<i, now + d>>] /\ UNCHANGED vars

\* Mutant of Send: the channel takes any number of entries.
SendUnbounded(c) ==
  /\ sending[c] # NoEntry
  /\ channel' = Append(channel, sending[c])
  /\ sending' = [sending EXCEPT ![c] = NoEntry]
  /\ UNCHANGED <<vars, now, stopped, synced, loopVars>>

\* The two cases of that select.
Send(c) ==
  /\ sending[c] # NoEntry
  /\ Len(channel) < ChannelCap
  /\ channel' = Append(channel, sending[c])
  /\ sending' = [sending EXCEPT ![c] = NoEntry]
  /\ UNCHANGED <<vars, now, stopped, synced, loopVars>>

SendStopped(c) ==
  /\ sending[c] # NoEntry
  /\ stopped
  /\ sending' = [sending EXCEPT ![c] = NoEntry]
  /\ UNCHANGED <<vars, now, stopped, channel, synced, loopVars>>

\* An event handler adds an item, at once or later.  (The bound keeps what is
\* asked for within the time that is modelled.)
HandlerAdd(i) == Add(i) /\ UNCHANGED delayVars

HandlerAddAfter(h, i, d) ==
  /\ sending[h] = NoEntry
  /\ now + d <= MaxClock
  /\ AddAfter(h, i, d)
  /\ UNCHANGED <<now, stopped, channel, synced, loopVars>>

\* processNextWorkItem: Get; the sync handler; Forget, or AddRateLimited with
\* whatever delay the rate limiter chooses; the deferred Done.
WorkerGet(w) == Get(w) /\ UNCHANGED delayVars

SyncOK(w) ==
  /\ pc[w] = "work" /\ ~synced[w]
  /\ synced' = [synced EXCEPT ![w] = TRUE]
  /\ UNCHANGED <<vars, now, stopped, channel, sending, loopVars>>

SyncError(w, d) ==
  /\ pc[w] = "work" /\ ~synced[w]
  /\ now + d <= MaxClock
  /\ AddAfter(w, held[w], d)
  /\ synced' = [synced EXCEPT ![w] = TRUE]
  /\ UNCHANGED <<now, stopped, channel, loopVars>>

WorkerDone(w) ==
  /\ synced[w] /\ sending[w] = NoEntry
  /\ Done(w)
  /\ synced' = [synced EXCEPT ![w] = FALSE]
  /\ UNCHANGED <<now, stopped, channel, sending, loopVars>>

-----------------------------------------------------------------------------
(* ShutDown, in two steps: the queue first, then stopCh. *)

DelayingShutDown ==
  /\ ~shuttingDown    \* stopOnce
  /\ ShutDown
  /\ UNCHANGED delayVars

\* Mutant of CloseStopCh: the channel is left open.
CloseNothing == shuttingDown /\ ~stopped /\ UNCHANGED allVars

CloseStopCh ==
  /\ shuttingDown /\ ~stopped
  /\ stopped' = TRUE
  /\ UNCHANGED <<vars, now, channel, sending, synced, loopVars>>

-----------------------------------------------------------------------------
(* waitingLoop *)

LoopTop ==
  /\ loop = "top"
  /\ IF shuttingDown
     THEN loop' = "gone" /\ UNCHANGED loopNow
     ELSE loop' = "ready" /\ loopNow' = now
  /\ UNCHANGED <<vars, now, stopped, channel, sending, synced, waiting, timer>>

\* One turn of the loop that adds the entries that are ready.
AddReady(i) ==
  /\ loop = "ready"
  /\ IsRoot(i) /\ waiting[i] <= loopNow
  /\ Add(i)
  /\ waiting' = Without(i)
  /\ UNCHANGED <<now, stopped, channel, sending, synced, loop, loopNow, timer>>

\* Mutant of SetTimer: the timer is set for readyAt, not for the time until then.
SetTimerAbsolute ==
  /\ loop = "ready"
  /\ \A i \in DOMAIN waiting : waiting[i] > loopNow
  /\ IF waiting = <<>> THEN UNCHANGED timer
     ELSE \E i \in DOMAIN waiting : IsRoot(i) /\ timer' = waiting[i]
  /\ loop' = "select"
  /\ UNCHANGED <<vars, now, stopped, channel, sending, synced, loopNow, waiting>>

\* q.clock.After(entry.readyAt.Sub(now)) counts from the present and not from
\* the local now, and so fires late if time has passed since now was read.
SetTimer ==
  /\ loop = "ready"
  /\ \A i \in DOMAIN waiting : waiting[i] > loopNow
  /\ IF waiting = <<>> THEN UNCHANGED timer
     ELSE \E i \in DOMAIN waiting : IsRoot(i) /\ timer' = waiting[i] - loopNow
  /\ loop' = "select"
  /\ UNCHANGED <<vars, now, stopped, channel, sending, synced, loopNow, waiting>>

\* now and nextReadyAt are local to one turn of the loop.
EndOfSelect == loopNow' = 0 /\ timer' = 0

\* The cases of the select.  The heartbeat may tick at any moment.
SelectStop ==
  /\ loop = "select" /\ stopped
  /\ loop' = "gone"
  /\ EndOfSelect
  /\ UNCHANGED <<vars, now, stopped, channel, sending, synced, waiting>>

SelectHeartbeat ==
  /\ loop = "select"
  /\ loop' = "top"
  /\ EndOfSelect
  /\ UNCHANGED <<vars, now, stopped, channel, sending, synced, waiting>>

\* Mutant of SelectTimer: the select has no case for nextReadyAt.
SelectTimerMissing == loop = "select" /\ timer = 0 /\ UNCHANGED allVars

SelectTimer ==
  /\ loop = "select" /\ waiting # <<>> /\ timer = 0
  /\ loop' = "top"
  /\ EndOfSelect
  /\ UNCHANGED <<vars, now, stopped, channel, sending, synced, waiting>>

\* Mutant of Receive: insert overwrites the time of a known entry.
ReceiveOverwrite ==
  LET i == Head(channel)[1]  readyAt == Head(channel)[2]
  IN /\ channel # <<>>
     /\ channel' = Tail(channel)
     /\ IF readyAt <= now THEN Add(i) /\ UNCHANGED waiting
        ELSE waiting' = With(i, readyAt) /\ UNCHANGED vars
     /\ loop' = "drain" /\ EndOfSelect
     /\ UNCHANGED <<now, stopped, sending, synced>>

\* An entry is taken from the channel: added if it is ready, and inserted into
\* the heap otherwise, where a known entry only ever becomes ready sooner.
Receive ==
  LET i == Head(channel)[1]  readyAt == Head(channel)[2]
  IN /\ channel # <<>>
     /\ channel' = Tail(channel)
     /\ IF readyAt <= now THEN Add(i) /\ UNCHANGED waiting
        ELSE /\ waiting' = IF i \notin DOMAIN waiting \/ waiting[i] > readyAt
                           THEN With(i, readyAt) ELSE waiting
             /\ UNCHANGED vars
     /\ loop' = "drain" /\ EndOfSelect
     /\ UNCHANGED <<now, stopped, sending, synced>>

SelectEntry == loop = "select" /\ Receive
DrainEntry  == loop = "drain" /\ Receive
Drained     == /\ loop = "drain" /\ channel = <<>>
               /\ loop' = "top"
               /\ UNCHANGED <<vars, now, stopped, channel, sending, synced,
                              loopNow, waiting, timer>>

WaitingLoop ==
  \/ LoopTop \/ SetTimer \/ SelectStop \/ SelectTimer
  \/ SelectEntry \/ DrainEntry \/ Drained
  \/ \E i \in Items : AddReady(i)

-----------------------------------------------------------------------------
\* Time passes.  The moment MaxClock stands for all later ones, too.
Tick == /\ now < MaxClock \/ timer > 0
        /\ now' = IF now < MaxClock THEN now + 1 ELSE now
        /\ timer' = IF timer > 0 THEN timer - 1 ELSE timer
        /\ UNCHANGED <<vars, stopped, channel, sending, synced, loop, loopNow, waiting>>

DelayInit ==
  /\ Init
  /\ now = 0 /\ stopped = FALSE
  /\ channel = <<>>
  /\ sending = [c \in Callers |-> NoEntry]
  /\ synced = [w \in Workers |-> FALSE]
  /\ loop = "top" /\ loopNow = 0 /\ waiting = <<>> /\ timer = 0

DelayNext ==
  \/ \E i \in Items : HandlerAdd(i)
  \/ \E h \in Handlers, i \in Items, d \in Delays : HandlerAddAfter(h, i, d)
  \/ \E w \in Workers : WorkerGet(w)
  \/ \E w \in Workers : SyncOK(w)
  \/ \E w \in Workers, d \in Delays : SyncError(w, d)
  \/ \E w \in Workers : WorkerDone(w)
  \/ \E c \in Callers : Send(c)
  \/ \E c \in Callers : SendStopped(c)
  \/ DelayingShutDown \/ CloseStopCh
  \/ LoopTop \/ SetTimer \/ SelectStop \/ SelectHeartbeat \/ SelectTimer
  \/ SelectEntry \/ DrainEntry \/ Drained
  \/ \E i \in Items : AddReady(i)
  \/ Tick

DelaySpec == DelayInit /\ [][DelayNext]_allVars

\* Goroutines that can run are scheduled, a sync handler returns, time passes,
\* and a ShutDown that has begun goes on.  The select of the loop picks among
\* its ready cases at random, and a channel serves blocked senders in order,
\* so that neither is passed over for ever.  The heartbeat is not relied upon.
DelayFairness ==
  /\ \A w \in Workers : /\ WF_allVars(WorkerGet(w))
                        /\ WF_allVars(SyncOK(w))
                        /\ WF_allVars(WorkerDone(w))
  /\ \A c \in Callers : SF_allVars(Send(c)) /\ WF_allVars(SendStopped(c))
  /\ WF_allVars(WaitingLoop) /\ SF_allVars(SelectEntry)
  /\ WF_allVars(CloseStopCh)
  /\ WF_allVars(Tick)

DelayFairSpec == DelaySpec /\ DelayFairness

-----------------------------------------------------------------------------
(* Properties *)

\* The entries that were accepted by AddAfter and not yet added or dropped,
\* wherever they are.
Requests ==
  UNION {{sending[c] : c \in Callers} \ {NoEntry},
         Elements(channel),
         {<<i, waiting[i]>> : i \in DOMAIN waiting}}

\* The comment in waitingLoop, "Set up a wait for the first item's readyAt":
\* while the loop sleeps, no entry of the heap, whatever order they came in,
\* has to wait for its timer longer than it would have when now was read.
TimerArmed ==
  loop = "select" => \A i \in DOMAIN waiting : timer <= waiting[i] - loopNow

\* The delaying queue keeps its promise: no delayed item is added before its
\* time, no accepted request is forgotten while the queue runs, and an item is
\* never made to wait longer by a later request for it.
DelayPromise == INSTANCE AbstractDelayingQueue
  WITH pending <- dirty, active <- held, closed <- shuttingDown,
       clock <- now, requests <- Requests

KeepsDelayPromise == DelayPromise!DelayedSpec

\* No caller of AddAfter is blocked for ever: the loop makes room in the
\* channel, and ShutDown releases whoever is still waiting ("unblock if
\* ShutDown() is called"), also when the loop is gone before stopCh is closed.
CallersReleased ==
  \A c \in Callers : (sending[c] # NoEntry) ~> (sending[c] = NoEntry)

\* A delayed item is eventually added without the help of the heartbeat, and
\* then handed to a worker, unless the queue is shut down.
DelayedHandedOut ==
  \A i \in Items :
    (\E t \in 1..MaxClock : <<i, t>> \in Requests)
      ~> (shuttingDown \/ \E w \in Workers : held[w] = i)
=============================================================================
