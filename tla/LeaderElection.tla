--------------------------- MODULE LeaderElection ---------------------------
(***************************************************************************)
(* Leader election over a lock object (client-go tools/leaderelection,     *)
(* leaderelection.go and resourcelock/leaselock.go).                       *)
(*                                                                         *)
(* Every process runs LeaderElector.Run once: acquire, then renew, then it *)
(* is gone (identities are never reused: a restarted binary is another     *)
(* process, which takes its first step late).  One call of                 *)
(* tryAcquireOrRenew is an attempt: a Get and, unless the lock is held by  *)
(* somebody else, a Create or an Update, each of which travels to the API  *)
(* server, may get lost on the way or back, may be served after the client *)
(* stopped waiting for it, and is answered within RequestTimeout or not at *)
(* all (kube-controller-manager sets it to RenewDeadline).  The API server *)
(* (external) makes writes conditional on the resourceVersion that they    *)
(* replace.                                                                *)
(*                                                                         *)
(* Time is one discrete clock read by everybody: processes are neither     *)
(* paused nor do their clocks run at different rates.  Left out: metrics,  *)
(* events, OnNewLeader and the AcquireTime and LeaderTransitions of the    *)
(* record, which no decision reads.                                        *)
(***************************************************************************)
EXTENDS Integers

CONSTANTS Procs, Nobody,
          LeaseDuration, RenewDeadline, RetryPeriod, \* LeaderElectionConfig
          RequestTimeout,  \* rest.Config.Timeout of the lock's client
          ReleaseOnCancel, \* LeaderElectionConfig.ReleaseOnCancel
          MaxTime          \* bound: the last instant of the clock

\* What NewLeaderElector insists on.
ASSUME ConfigAssumption ==
  /\ LeaseDuration \in Nat /\ RenewDeadline \in Nat /\ RetryPeriod \in Nat
  /\ LeaseDuration > RenewDeadline
  /\ 5 * RenewDeadline > 6 * RetryPeriod
  /\ RetryPeriod >= 1
  /\ RequestTimeout \in Nat
  /\ ReleaseOnCancel \in BOOLEAN
  /\ MaxTime \in Nat
  /\ Nobody \notin Procs

VARIABLES
  now,          \* the clock
  lease,        \* the lock object in the API server; version 0: not found
  net,          \* writes sent and not yet served or refused
  role,         \* in acquire, in renew's loop, in release, or returned from Run
  pc,           \* how far the attempt of each process is
  started,      \* tryAcquireOrRenew's now: when the attempt began
  sentAt,       \* when the attempt sent its write
  wake,         \* when the next attempt may begin
  deadline,     \* timeoutCtx: when a leader gives up
  lock,         \* LeaseLock.lease: the lock object as last read or written
  observed,     \* le.observedRecord
  observedTime, \* le.observedTime
  \* History, not program state: when lease was stored, when the write that a
  \* process waits for was stored, and whether all answers came in time.
  writtenAt, storedAt, timely

clientVars == <<role, pc, started, sentAt, wake, deadline, observed, observedTime>>
answers == <<storedAt, timely>>
vars == <<now, lease, writtenAt, net, role, pc, started, sentAt, wake, deadline,
          lock, observed, observedTime, answers>>

NoLease == [version |-> 0, holder |-> Nobody, renewTime |-> 0]
Holders == Procs \cup {Nobody}
Lease   == [version : Nat, holder : Holders, renewTime : Nat]
Record  == [holder : Holders, renewTime : Nat]
Write   == [proc : Procs, version : Nat, holder : Holders, renewTime : Nat]

TypeOK ==
  /\ now \in Nat
  /\ lease \in Lease
  /\ writtenAt \in Nat
  /\ net \subseteq Write
  /\ role \in [Procs -> {"candidate", "leader", "releasing", "gone"}]
  /\ pc \in [Procs -> {"idle", "get", "got", "put", "ack"}]
  /\ started \in [Procs -> Nat]
  /\ sentAt \in [Procs -> Nat]
  /\ wake \in [Procs -> Nat]
  /\ deadline \in [Procs -> Nat]
  /\ lock \in [Procs -> Lease]
  /\ observed \in [Procs -> Record]
  /\ observedTime \in [Procs -> Nat]
  /\ storedAt \in [Procs -> Nat]
  /\ timely \in BOOLEAN

RecordOf(l) == [holder |-> l.holder, renewTime |-> l.renewTime]
SameRecord(a, b) == a.holder = b.holder /\ a.renewTime = b.renewTime
IsLeader(p) == observed[p].holder = p

-----------------------------------------------------------------------------
(* tryAcquireOrRenew *)

\* A request without a usable answer leaves an empty object in LeaseLock.lease.
RequestFails(p) == lock' = [lock EXCEPT ![p] = NoLease]

\* The attempt returns false.  A candidate waits at least RetryPeriod before
\* the next one (wait.JitterUntil), a leader for the next tick of its poller
\* (wait.PollImmediateUntil).
AttemptFails(p) ==
  /\ pc' = [pc EXCEPT ![p] = "idle"]
  /\ \E t \in IF role[p] = "leader" THEN now + 1 .. now + RetryPeriod
                                    ELSE {now + RetryPeriod} :
       wake' = [wake EXCEPT ![p] = t]

\* The attempt reads the clock and sends its Get.
Attempt(p) ==
  /\ pc[p] = "idle" /\ role[p] \in {"candidate", "leader"} /\ now >= wake[p]
  /\ pc' = [pc EXCEPT ![p] = "get"]
  /\ started' = [started EXCEPT ![p] = now]
  /\ UNCHANGED <<now, lease, writtenAt, net, role, sentAt, wake, deadline, lock,
                 observed, observedTime, answers>>

\* The API server reads the lock object for p.
ServeGet(p) ==
  /\ pc[p] = "get"
  /\ pc' = [pc EXCEPT ![p] = "got"]
  /\ lock' = [lock EXCEPT ![p] = lease]
  /\ UNCHANGED <<now, lease, writtenAt, net, role, started, sentAt, wake, deadline,
                 observed, observedTime, answers>>

\* The Get fails (not with NotFound), or its answer does not come in time.
GetFails(p) ==
  /\ pc[p] \in {"get", "got"}
  /\ AttemptFails(p)
  /\ RequestFails(p)
  /\ UNCHANGED <<now, lease, writtenAt, net, role, started, sentAt, deadline,
                 observed, observedTime, answers>>

\* The attempt sends a Create or an Update of the object it has read.
SendWrite(p) ==
  /\ net' = net \cup {[proc |-> p, version |-> lock[p].version, holder |-> p,
                       renewTime |-> started[p]]}
  /\ sentAt' = [sentAt EXCEPT ![p] = now]
  /\ pc' = [pc EXCEPT ![p] = "put"]
  /\ UNCHANGED wake

\* The Get is answered.  Where there is no object the attempt creates it.
GetNotFound(p) ==
  /\ pc[p] = "got" /\ now <= started[p] + RequestTimeout
  /\ lock[p].version = 0
  /\ SendWrite(p)
  /\ UNCHANGED <<now, lease, writtenAt, role, started, deadline, lock, observed,
                 observedTime, answers>>

\* Mutant of HeldByOther: an expired lease is taken over one instant early.
HeldByOtherEarly(p, obs, obsTime) ==
  /\ lock[p].holder # Nobody
  /\ obsTime + LeaseDuration - 1 > started[p]
  /\ obs.holder # p

\* The lease is held and has not been seen unchanged for a LeaseDuration.
HeldByOther(p, obs, obsTime) ==
  /\ lock[p].holder # Nobody
  /\ obsTime + LeaseDuration > started[p]
  /\ obs.holder # p

\* Otherwise it notes when it first saw this record, and gives up or writes.
GetReply(p) ==
  /\ pc[p] = "got" /\ now <= started[p] + RequestTimeout
  /\ lock[p].version > 0
  /\ LET seen    == SameRecord(observed[p], lock[p])
         obsTime == IF seen THEN observedTime[p] ELSE now
     IN /\ observed' = [observed EXCEPT ![p] = RecordOf(lock[p])]
        /\ observedTime' = [observedTime EXCEPT ![p] = obsTime]
        /\ IF HeldByOther(p, RecordOf(lock[p]), obsTime)
           THEN AttemptFails(p) /\ UNCHANGED <<net, sentAt>>
           ELSE SendWrite(p)
  /\ UNCHANGED <<now, lease, writtenAt, role, started, deadline, lock, answers>>

\* The answer to a write that was stored as l replaces LeaseLock.lease, where the
\* sender still waits for it: the attempt that sent it, or release (whose process
\* may have an attempt under way that has not written yet and will take this l
\* for the object it has read).
Stored(m, l) ==
  \/ /\ pc[m.proc] = "put" /\ m.holder = m.proc /\ m.renewTime = started[m.proc]
     /\ pc' = [pc EXCEPT ![m.proc] = "ack"]
     /\ lock' = [lock EXCEPT ![m.proc] = l]
     /\ storedAt' = [storedAt EXCEPT ![m.proc] = now]
  \/ /\ role[m.proc] = "releasing" /\ pc[m.proc] # "ack" /\ m.holder = Nobody
     /\ lock' = [lock EXCEPT ![m.proc] = l]
     /\ UNCHANGED <<pc, storedAt>>
  \/ /\ ~(pc[m.proc] = "put" /\ m.holder = m.proc /\ m.renewTime = started[m.proc])
     /\ ~(role[m.proc] = "releasing" /\ pc[m.proc] # "ack" /\ m.holder = Nobody)
     /\ UNCHANGED <<pc, lock, storedAt>>

\* Mutant of ServeWrite: the resourceVersion is not compared.
ServeWriteBlindly(m) ==
  /\ m \in net
  /\ lease' = [version |-> lease.version + 1, holder |-> m.holder,
               renewTime |-> m.renewTime]
  /\ writtenAt' = now
  /\ net' = net \ {m}
  /\ Stored(m, lease')
  /\ UNCHANGED <<now, role, started, sentAt, wake, deadline, observed, observedTime, timely>>

\* The API server stores the new object if the one it replaces is current.
ServeWrite(m) ==
  /\ m \in net /\ m.version = lease.version
  /\ lease' = [version |-> lease.version + 1, holder |-> m.holder,
               renewTime |-> m.renewTime]
  /\ writtenAt' = now
  /\ net' = net \ {m}
  /\ Stored(m, lease')
  /\ UNCHANGED <<now, role, started, sentAt, wake, deadline, observed, observedTime, timely>>

\* The API server answers a write of an outdated object with a conflict.
RefuseWrite(m) ==
  /\ m \in net /\ m.version # lease.version
  /\ net' = net \ {m}
  /\ UNCHANGED <<now, lease, writtenAt, lock, clientVars, answers>>

\* The write is known to have failed, or its answer does not come in time; in
\* the latter case it may have been stored, or may be stored later.
WriteFails(p) ==
  /\ pc[p] \in {"put", "ack"}
  /\ AttemptFails(p)
  /\ RequestFails(p)
  /\ UNCHANGED <<now, lease, writtenAt, net, role, started, sentAt, deadline,
                 observed, observedTime, answers>>

\* Counted from when it was stored, an answer that comes now leaves a leader
\* time to give up before somebody else may take over.
InTime(p) == now + RetryPeriod + RenewDeadline < storedAt[p] + LeaseDuration

\* The attempt succeeds.  A candidate becomes the leader and renews for the
\* first time at once, that is, at the next instant; a leader's next renewal
\* begins RetryPeriod later and is given another RenewDeadline.
WriteReply(p) ==
  /\ pc[p] = "ack" /\ now <= sentAt[p] + RequestTimeout
  /\ pc' = [pc EXCEPT ![p] = "idle"]
  /\ observed' = [observed EXCEPT ![p] = [holder |-> p, renewTime |-> started[p]]]
  /\ observedTime' = [observedTime EXCEPT ![p] = now]
  /\ \/ /\ role[p] = "candidate"
        /\ role' = [role EXCEPT ![p] = "leader"]
        /\ wake' = [wake EXCEPT ![p] = now + 1]
        /\ deadline' = [deadline EXCEPT ![p] = now + RenewDeadline]
     \/ /\ role[p] = "leader"
        /\ wake' = [wake EXCEPT ![p] = now + RetryPeriod]
        /\ deadline' = [deadline EXCEPT ![p] = now + RetryPeriod + RenewDeadline]
        /\ UNCHANGED role
     \/ role[p] \in {"releasing", "gone"} /\ UNCHANGED <<role, wake, deadline>>
  /\ timely' = (timely /\ (role[p] \in {"candidate", "leader"} => InTime(p)))
  /\ UNCHANGED <<now, lease, writtenAt, net, started, sentAt, lock, storedAt>>

-----------------------------------------------------------------------------
(* Run *)

\* The loop of renew ends: its deadline has passed or its context was cancelled.
\* An attempt that is under way goes on by itself.  With ReleaseOnCancel, a
\* process that thinks it holds the lease asks for it to be cleared (the client
\* refuses to send an empty object), and waits for the answer.
StopLeading(p) ==
  /\ role[p] = "leader"
  /\ \/ /\ ReleaseOnCancel /\ IsLeader(p) /\ lock[p].version > 0
        /\ role' = [role EXCEPT ![p] = "releasing"]
        /\ net' = net \cup {[proc |-> p, version |-> lock[p].version,
                             holder |-> Nobody, renewTime |-> 0]}
     \/ /\ ~(ReleaseOnCancel /\ IsLeader(p) /\ lock[p].version > 0)
        /\ role' = [role EXCEPT ![p] = "gone"]
        /\ UNCHANGED net
  /\ UNCHANGED <<now, lease, writtenAt, lock, pc, started, sentAt, wake, deadline,
                 observed, observedTime, answers>>

\* release returns, without an answer or with one that may be a success; Run
\* calls OnStoppedLeading only now.
ReleaseEnds(p) ==
  /\ role[p] = "releasing"
  /\ role' = [role EXCEPT ![p] = "gone"]
  /\ \/ UNCHANGED <<observed, observedTime>>
     \/ /\ \A m \in net : ~(m.proc = p /\ m.holder = Nobody)
        /\ observed' = [observed EXCEPT ![p] = RecordOf(NoLease)]
        /\ observedTime' = [observedTime EXCEPT ![p] = now]
  /\ UNCHANGED <<now, lease, writtenAt, net, lock, pc, started, sentAt, wake, deadline, answers>>

\* The context of a candidate is cancelled: acquire returns between two attempts.
Cancelled(p) ==
  /\ role[p] = "candidate" /\ pc[p] = "idle"
  /\ role' = [role EXCEPT ![p] = "gone"]
  /\ UNCHANGED <<now, lease, writtenAt, net, lock, pc, started, sentAt, wake, deadline,
                 observed, observedTime, answers>>

\* The process dies; requests may be on their way.
Crash(p) ==
  /\ role[p] # "gone"
  /\ role' = [role EXCEPT ![p] = "gone"]
  /\ pc' = [pc EXCEPT ![p] = "idle"]
  /\ UNCHANGED <<now, lease, writtenAt, net, lock, started, sentAt, wake, deadline,
                 observed, observedTime, answers>>

\* Mutant of Tick: a leader does not notice that its deadline has passed.
TickPastDeadline ==
  /\ now < MaxTime
  /\ now' = now + 1
  /\ UNCHANGED <<lease, writtenAt, net, lock, clientVars, answers>>

\* Time passes, but no leader misses its deadline.
Tick ==
  /\ now < MaxTime
  /\ \A p \in Procs : role[p] = "leader" => now < deadline[p]
  /\ now' = now + 1
  /\ UNCHANGED <<lease, writtenAt, net, lock, clientVars, answers>>

Init ==
  /\ now = 0
  /\ lease = NoLease
  /\ writtenAt = 0
  /\ net = {}
  /\ role = [p \in Procs |-> "candidate"]
  /\ pc = [p \in Procs |-> "idle"]
  /\ started = [p \in Procs |-> 0]
  /\ sentAt = [p \in Procs |-> 0]
  /\ wake = [p \in Procs |-> 0]
  /\ deadline = [p \in Procs |-> 0]
  /\ lock = [p \in Procs |-> NoLease]
  /\ observed = [p \in Procs |-> RecordOf(NoLease)]
  /\ observedTime = [p \in Procs |-> 0]
  /\ storedAt = [p \in Procs |-> 0]
  /\ timely = TRUE

Next ==
  \/ \E p \in Procs : \/ Attempt(p) \/ ServeGet(p) \/ GetFails(p)
                      \/ GetNotFound(p) \/ GetReply(p)
                      \/ WriteFails(p) \/ WriteReply(p)
                      \/ StopLeading(p) \/ ReleaseEnds(p)
                      \/ Cancelled(p) \/ Crash(p)
  \/ \E m \in net : ServeWrite(m) \/ RefuseWrite(m)
  \/ Tick

Spec == Init /\ [][Next]_vars

-----------------------------------------------------------------------------
(* Properties *)

\* No two processes are in renew's loop, as long as every answer that made or kept
\* one of them the leader came less than LeaseDuration - RenewDeadline - RetryPeriod
\* after the write was stored (3 seconds with the defaults 15, 10 and 2).  Nothing
\* in the code makes sure of that, RequestTimeout may be longer, and the package
\* comment promises no fencing; requests that fail, or are served however late
\* after their sender gave up, do no harm.  Without ReleaseOnCancel that is the time
\* between OnStartedLeading and OnStoppedLeading; with it, the process that clears
\* the lease has not been told to stop yet when the next one may be elected.
AtMostOneLeader ==
  timely => \A p, q \in Procs : role[p] = "leader" /\ role[q] = "leader" => p = q

\* The comment on LeaderElectionConfig.LeaseDuration: a lease passes from its
\* holder to another process only when it has not been renewed for a full
\* LeaseDuration, whatever late writes and releases are on their way and however
\* late answers come.  It is cleared only after its holder has left renew's loop,
\* unless an answer came too late (release updates whatever object an attempt
\* that is still under way has read last, also one that names another holder).
TakeoverWaits ==
  [][lease.holder \notin {Nobody, lease'.holder} =>
       IF lease'.holder = Nobody
       THEN timely => role[lease.holder] \in {"releasing", "gone"}
       ELSE now >= writtenAt + LeaseDuration]_vars

-----------------------------------------------------------------------------
(* The inductive invariant behind them *)

\* Nothing was recorded in the future.
PastTimes ==
  /\ writtenAt <= now
  /\ \A p \in Procs : started[p] <= now /\ sentAt[p] <= now /\ observedTime[p] <= now
  /\ \A m \in net : m.renewTime <= now

\* Versions grow, and a version identifies what was stored under it.
VersionsOrdered ==
  /\ lease.version = 0 => lease = NoLease
  /\ \A p \in Procs : /\ lock[p].version <= lease.version
                      /\ lock[p].version = lease.version => lock[p] = lease
  /\ \A m \in net : m.version <= lease.version

\* Before(p, t): every record p ever wrote is stamped before t.
Before(p, t) ==
  /\ lease.holder = p => lease.renewTime < t
  /\ \A q \in Procs : /\ lock[q].holder = p => lock[q].renewTime < t
                      /\ observed[q].holder = p => observed[q].renewTime < t
  /\ \A m \in net : m.holder = p => m.renewTime < t

\* The stamp of the next record that p can send is a new one.
NextStamp(p) == IF pc[p] = "idle" THEN wake[p]
                ELSE IF pc[p] \in {"put", "ack"} THEN started[p] + 1 ELSE started[p]

StampsNew ==
  \A p \in Procs : role[p] \in {"candidate", "leader"} \/ pc[p] # "idle"
                     => Before(p, NextStamp(p))

\* A record that is still on its way has not been seen by anybody.
WritesUnseen ==
  /\ \A m \in net : m.holder # Nobody =>
       /\ ~SameRecord(m, lease)
       /\ \A q \in Procs : ~SameRecord(m, lock[q]) /\ ~SameRecord(m, observed[q])
  /\ \A m, n \in net : m.holder # Nobody /\ SameRecord(m, n) => m = n
  /\ \A p \in Procs : pc[p] = "ack" =>
       lock[p].holder = p /\ lock[p].renewTime = started[p]

\* Who sees the current record has seen it after it was stored.
ObservedLater ==
  \A q \in Procs : SameRecord(observed[q], lease) /\ lease.holder \notin {Nobody, q}
                     => observedTime[q] >= writtenAt

\* A write that would be accepted was sent by the holder of the lease, or after
\* the lease had expired; a release was sent by a holder that has left renew's loop.
WritesJustified ==
  \A m \in net :
    /\ m.holder \in {m.proc, Nobody}
    /\ m.holder = Nobody => role[m.proc] \in {"releasing", "gone"}
    /\ timely /\ m.version = lease.version /\ m.holder = Nobody => lease.holder = m.proc
    /\ m.version = lease.version /\ m.holder # Nobody
         => \/ lease.holder \in {Nobody, m.proc}
            \/ m.renewTime >= writtenAt + LeaseDuration

\* A success finds the lease as it was written, unless it is late.
AcksCurrent ==
  \A p \in Procs : timely /\ pc[p] = "ack" /\ role[p] \in {"candidate", "leader"}
                     => \/ lease.holder = p /\ storedAt[p] <= writtenAt
                        \/ now >= storedAt[p] + LeaseDuration

\* A leader holds the lease, and gives up before it can expire.
LeadersCovered ==
  \A p \in Procs : role[p] = "leader" =>
    /\ now <= deadline[p]
    /\ timely => lease.holder = p /\ deadline[p] < writtenAt + LeaseDuration

ElectionInv ==
  /\ TypeOK /\ PastTimes /\ VersionsOrdered /\ StampsNew /\ WritesUnseen
  /\ ObservedLater /\ WritesJustified /\ AcksCurrent /\ LeadersCovered
=============================================================================
