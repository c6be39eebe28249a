----------------------- MODULE LeaderElectionProofs -----------------------
(***************************************************************************)
(* Proofs about LeaderElection, for any number of processes, any timings   *)
(* that NewLeaderElector accepts and any RequestTimeout.                   *)
(*                                                                         *)
(* The argument: a leader's deadline is counted from a success whose write *)
(* was stored shortly before it, as long as answers are timely             *)
(* (LeadersCovered).  Another process may only take the lease if it saw    *)
(* its record unchanged for a LeaseDuration, and it cannot have seen the   *)
(* record before it was stored (ObservedLater), because no record is ever  *)
(* written twice (StampsNew, WritesUnseen).  A late write is refused       *)
(* unless nothing was stored since its sender read the lease               *)
(* (VersionsOrdered, WritesJustified).  So the lease that a leader holds   *)
(* is not replaced before its deadline.  One lemma per action shows that   *)
(* it preserves these facts; timely is only used for the leaders and for   *)
(* the releases, not for what a takeover has to wait for.                  *)
(***************************************************************************)
EXTENDS LeaderElection, TLAPS

\* An attempt begins.
LEMMA AttemptInv ==
  ASSUME ElectionInv, NEW p \in Procs, Attempt(p)
  PROVE  ElectionInv'
<1> USE DEF ElectionInv, answers, Attempt
<1>1. TypeOK'
  BY DEF TypeOK
<1>2. PastTimes'
  BY DEF TypeOK, PastTimes
<1>3. VersionsOrdered'
  BY DEF TypeOK, VersionsOrdered
<1>4. StampsNew'
  BY DEF TypeOK, Lease, Record, Write, StampsNew, Before, NextStamp
<1>5. WritesUnseen'
  BY DEF TypeOK, WritesUnseen
<1>6. ObservedLater'
  BY DEF TypeOK, ObservedLater
<1>7. WritesJustified'
  BY DEF TypeOK, WritesJustified
<1>8. AcksCurrent'
  BY DEF TypeOK, AcksCurrent
<1>9. LeadersCovered'
  BY DEF TypeOK, LeadersCovered
<1>10. QED
  BY <1>1, <1>2, <1>3, <1>4, <1>5, <1>6, <1>7, <1>8, <1>9

\* The API server reads the lock object.
LEMMA ServeGetInv ==
  ASSUME ElectionInv, NEW p \in Procs, ServeGet(p)
  PROVE  ElectionInv'
<1> USE DEF ElectionInv, answers, ServeGet
<1>1. TypeOK'
  BY DEF TypeOK
<1>2. PastTimes'
  BY DEF TypeOK, PastTimes
<1>3. VersionsOrdered'
  BY DEF TypeOK, Lease, VersionsOrdered
<1>4. StampsNew'
  BY DEF TypeOK, StampsNew, Before, NextStamp
<1>5. WritesUnseen'
  BY DEF TypeOK, WritesUnseen
<1>6. ObservedLater'
  BY DEF TypeOK, ObservedLater
<1>7. WritesJustified'
  BY DEF TypeOK, WritesJustified
<1>8. AcksCurrent'
  BY DEF TypeOK, AcksCurrent
<1>9. LeadersCovered'
  BY DEF TypeOK, LeadersCovered
<1>10. QED
  BY <1>1, <1>2, <1>3, <1>4, <1>5, <1>6, <1>7, <1>8, <1>9

\* A failed Get ends the attempt.
LEMMA GetFailsInv ==
  ASSUME ElectionInv, NEW p \in Procs, GetFails(p)
  PROVE  ElectionInv'
<1> USE DEF ElectionInv, answers, GetFails, AttemptFails, RequestFails, NoLease
<1>1. TypeOK'
  BY ConfigAssumption DEF TypeOK, Lease, Holders
<1>2. PastTimes'
  BY DEF TypeOK, PastTimes
<1>3. VersionsOrdered'
  BY DEF TypeOK, Lease, VersionsOrdered
<1>4. StampsNew'
  BY ConfigAssumption DEF TypeOK, Lease, Record, Write, StampsNew, Before,
    NextStamp, PastTimes
<1>5. WritesUnseen'
  BY DEF TypeOK, SameRecord, WritesUnseen
<1>6. ObservedLater'
  BY DEF TypeOK, ObservedLater
<1>7. WritesJustified'
  BY DEF TypeOK, WritesJustified
<1>8. AcksCurrent'
  BY DEF TypeOK, AcksCurrent
<1>9. LeadersCovered'
  BY DEF TypeOK, LeadersCovered
<1>10. QED
  BY <1>1, <1>2, <1>3, <1>4, <1>5, <1>6, <1>7, <1>8, <1>9

\* The attempt creates the object: its stamp is new.
LEMMA GetNotFoundInv ==
  ASSUME ElectionInv, NEW p \in Procs, GetNotFound(p)
  PROVE  ElectionInv'
<1> USE DEF ElectionInv, answers, GetNotFound, SendWrite
<1>1. TypeOK'
  BY DEF TypeOK, Write, Holders
<1>2. PastTimes'
  BY DEF TypeOK, PastTimes
<1>3. VersionsOrdered'
  BY DEF TypeOK, VersionsOrdered
<1>4. StampsNew'
  BY DEF TypeOK, Lease, Record, Write, StampsNew, Before, NextStamp
<1>5. WritesUnseen'
  BY DEF TypeOK, SameRecord, WritesUnseen, StampsNew, Before, NextStamp
<1>6. ObservedLater'
  BY DEF TypeOK, ObservedLater
<1>7. WritesJustified'
  BY ConfigAssumption DEF TypeOK, NoLease, WritesJustified, VersionsOrdered,
    PastTimes
<1>8. AcksCurrent'
  BY DEF TypeOK, AcksCurrent
<1>9. LeadersCovered'
  BY DEF TypeOK, LeadersCovered
<1>10. QED
  BY <1>1, <1>2, <1>3, <1>4, <1>5, <1>6, <1>7, <1>8, <1>9

\* The attempt notes what it sees, and gives up or writes: a write that takes
\* over was preceded by a LeaseDuration in which the record did not change.
LEMMA GetReplyInv ==
  ASSUME ElectionInv, NEW p \in Procs, GetReply(p)
  PROVE  ElectionInv'
<1> USE DEF ElectionInv, answers, GetReply, SendWrite, AttemptFails, HeldByOther
<1>1. TypeOK'
  <2>1. observed' \in [Procs -> Record] /\ observedTime' \in [Procs -> Nat]
    BY DEF TypeOK, Lease, Record, RecordOf
  <2>2. /\ net' \subseteq Write /\ sentAt' \in [Procs -> Nat]
        /\ wake' \in [Procs -> Nat]
        /\ pc' \in [Procs -> {"idle", "get", "got", "put", "ack"}]
    <3>1. CASE SendWrite(p)
      BY <3>1 DEF TypeOK, Lease, Write, Holders
    <3>2. CASE AttemptFails(p) /\ UNCHANGED <<net, sentAt>>
      BY <3>2, ConfigAssumption DEF TypeOK
    <3>3. QED
      BY <3>1, <3>2
  <2>3. QED
    BY <2>1, <2>2 DEF TypeOK
<1>2. PastTimes'
  BY DEF TypeOK, PastTimes
<1>3. VersionsOrdered'
  BY DEF TypeOK, VersionsOrdered
<1>4. StampsNew'
  <2> SUFFICES ASSUME NEW q \in Procs, role[q] \in {"candidate", "leader"} \/ pc'[q] # "idle"
               PROVE  Before(q, NextStamp(q))'
    BY DEF StampsNew
  <2>1. Before(q, NextStamp(q)) /\ q # Nobody
    BY ConfigAssumption DEF StampsNew, TypeOK
  <2>2. /\ NextStamp(q) \in Nat /\ NextStamp(q)' \in Nat /\ NextStamp(q)' >= NextStamp(q)
        /\ \A m \in net' : m \in net \/ (m.holder = p /\ m.renewTime = started[p]
                                         /\ (q = p => NextStamp(q)' = started[p] + 1))
    BY ConfigAssumption DEF TypeOK, NextStamp, PastTimes
  <2>3. \A o \in Procs : observed'[o].holder = q => observed'[o].renewTime < NextStamp(q)
    BY <2>1 DEF Before, RecordOf, TypeOK
  <2>4. PICK old, new : old = NextStamp(q) /\ new = NextStamp(q)'
    OBVIOUS
  <2>5. /\ lease.holder = q => lease.renewTime < new
        /\ \A o \in Procs : lock[o].holder = q => lock[o].renewTime < new
    BY <2>1, <2>2, <2>4 DEF Before, TypeOK, Lease
  <2>6. \A o \in Procs : observed'[o].holder = q => observed'[o].renewTime < new
    BY <2>2, <2>3, <2>4, <1>1 DEF TypeOK, Record
  <2>7. \A m \in net' : m.holder = q => m.renewTime < new
    BY <2>1, <2>2, <2>4 DEF Before, TypeOK, Write
  <2>8. lease' = lease /\ lock' = lock
    OBVIOUS
  <2>9. QED
    BY <2>4, <2>5, <2>6, <2>7, <2>8 DEF Before
<1>5. WritesUnseen'
  <2>1. \A n \in net : n.holder # Nobody =>
          /\ ~SameRecord(n, lease)
          /\ \A q \in Procs : ~SameRecord(n, lock[q]) /\ ~SameRecord(n, observed'[q])
    BY DEF WritesUnseen, SameRecord, RecordOf, TypeOK
  <2>2. CASE net' = net
    BY <2>1, <2>2 DEF WritesUnseen, SameRecord, TypeOK
  <2>3. CASE SendWrite(p)
    <3> DEFINE w == [proc |-> p, version |-> lock[p].version, holder |-> p,
                     renewTime |-> started[p]]
    <3>1. Before(p, started[p]) /\ started[p] \in Nat
      BY DEF StampsNew, NextStamp, TypeOK
    <3>2. /\ ~SameRecord(w, lease)
          /\ \A q \in Procs : ~SameRecord(w, lock[q]) /\ ~SameRecord(w, observed'[q])
          /\ \A n \in net : ~SameRecord(w, n) /\ ~SameRecord(n, w)
      BY <3>1 DEF Before, SameRecord, RecordOf, TypeOK, Lease, Record, Write
    <3>3. net' = net \cup {w}
      BY <2>3
    <3> HIDE DEF w
    <3>4. \A n \in net' : n.holder # Nobody =>
            /\ ~SameRecord(n, lease')
            /\ \A q \in Procs : ~SameRecord(n, lock'[q]) /\ ~SameRecord(n, observed'[q])
      BY <2>1, <3>2, <3>3
    <3>5. \A n, o \in net' : n.holder # Nobody /\ SameRecord(n, o) => n = o
      BY <3>2, <3>3 DEF WritesUnseen
    <3>6. \A q \in Procs : pc'[q] = "ack" =>
            lock'[q].holder = q /\ lock'[q].renewTime = started'[q]
      BY <2>3 DEF WritesUnseen, TypeOK
    <3>7. QED
      BY <3>4, <3>5, <3>6 DEF WritesUnseen, SameRecord
  <2>4. QED
    BY <2>2, <2>3
<1>6. ObservedLater'
  BY DEF TypeOK, RecordOf, SameRecord, ObservedLater, PastTimes
<1>7. WritesJustified'
  BY ConfigAssumption DEF TypeOK, RecordOf, WritesJustified, VersionsOrdered,
    PastTimes, ObservedLater
<1>8. AcksCurrent'
  BY DEF TypeOK, AcksCurrent
<1>9. LeadersCovered'
  BY DEF TypeOK, LeadersCovered
<1>10. QED
  BY <1>1, <1>2, <1>3, <1>4, <1>5, <1>6, <1>7, <1>8, <1>9

\* A failed write ends the attempt; the write may still be on its way.
LEMMA WriteFailsInv ==
  ASSUME ElectionInv, NEW p \in Procs, WriteFails(p)
  PROVE  ElectionInv'
<1> USE DEF ElectionInv, answers, WriteFails, AttemptFails, RequestFails, NoLease
<1>1. TypeOK'
  BY ConfigAssumption DEF TypeOK, Lease, Holders
<1>2. PastTimes'
  BY DEF TypeOK, PastTimes
<1>3. VersionsOrdered'
  BY DEF TypeOK, Lease, VersionsOrdered
<1>4. StampsNew'
  BY ConfigAssumption DEF TypeOK, Lease, Record, Write, StampsNew, Before,
    NextStamp, PastTimes
<1>5. WritesUnseen'
  BY DEF TypeOK, SameRecord, WritesUnseen
<1>6. ObservedLater'
  BY DEF TypeOK, ObservedLater
<1>7. WritesJustified'
  BY DEF TypeOK, WritesJustified
<1>8. AcksCurrent'
  BY DEF TypeOK, AcksCurrent
<1>9. LeadersCovered'
  BY DEF TypeOK, LeadersCovered
<1>10. QED
  BY <1>1, <1>2, <1>3, <1>4, <1>5, <1>6, <1>7, <1>8, <1>9

\* The attempt succeeds: unless the answer is late, the lease is still as the
\* process has written it.
LEMMA WriteReplyInv ==
  ASSUME ElectionInv, NEW p \in Procs, WriteReply(p)
  PROVE  ElectionInv'
<1> USE DEF ElectionInv, answers, WriteReply
<1>1. TypeOK'
  BY ConfigAssumption DEF TypeOK, Lease, Record, Write, Holders
<1>2. PastTimes'
  BY DEF TypeOK, PastTimes
<1>3. VersionsOrdered'
  BY DEF TypeOK, VersionsOrdered
<1>4. StampsNew'
  BY ConfigAssumption DEF TypeOK, Lease, Record, Write, StampsNew, Before,
    NextStamp, PastTimes
<1>5. WritesUnseen'
  BY DEF TypeOK, SameRecord, WritesUnseen
<1>6. ObservedLater'
  BY DEF TypeOK, SameRecord, ObservedLater
<1>7. WritesJustified'
  BY DEF TypeOK, Write, WritesJustified
<1>8. AcksCurrent'
  BY DEF TypeOK, AcksCurrent
<1>9. LeadersCovered'
  <2> SUFFICES ASSUME NEW q \in Procs, role'[q] = "leader"
               PROVE  /\ now' <= deadline'[q]
                      /\ timely' => lease'.holder = q /\ deadline'[q] < writtenAt' + LeaseDuration
    BY DEF LeadersCovered
  <2>1. CASE q # p
    BY <2>1 DEF TypeOK, LeadersCovered
  <2>2. CASE q = p
    <3>1. /\ role[p] \in {"candidate", "leader"} /\ now' = now
          /\ deadline'[p] \in {now + RenewDeadline, now + RetryPeriod + RenewDeadline}
      BY <2>2 DEF TypeOK
    <3>2. ASSUME timely' PROVE lease.holder = p /\ deadline'[p] < writtenAt + LeaseDuration
      <4>1. timely /\ now + RetryPeriod + RenewDeadline < storedAt[p] + LeaseDuration
        BY <3>1, <3>2 DEF InTime
      <4>2. lease.holder = p /\ storedAt[p] <= writtenAt
        BY <3>1, <4>1, ConfigAssumption DEF TypeOK, AcksCurrent
      <4>3. QED
        BY <3>1, <4>1, <4>2, ConfigAssumption DEF TypeOK
    <3>3. QED
      BY <2>2, <3>1, <3>2, ConfigAssumption DEF TypeOK
  <2>3. QED
    BY <2>1, <2>2
<1>10. QED
  BY <1>1, <1>2, <1>3, <1>4, <1>5, <1>6, <1>7, <1>8, <1>9

\* The loop of renew ends, and a release is sent, with timely answers by the holder
\* of the lease.
LEMMA StopLeadingInv ==
  ASSUME ElectionInv, NEW p \in Procs, StopLeading(p)
  PROVE  ElectionInv'
<1> USE DEF ElectionInv, answers, StopLeading, IsLeader
<1>1. TypeOK'
  BY DEF TypeOK, Lease, Write, Holders
<1>2. PastTimes'
  BY DEF TypeOK, PastTimes
<1>3. VersionsOrdered'
  BY DEF TypeOK, VersionsOrdered
<1>4. StampsNew'
  BY ConfigAssumption DEF TypeOK, StampsNew, Before, NextStamp
<1>5. WritesUnseen'
  BY DEF TypeOK, SameRecord, WritesUnseen
<1>6. ObservedLater'
  BY DEF TypeOK, ObservedLater
<1>7. WritesJustified'
  <2>1. \A q \in Procs : role[q] \in {"releasing", "gone"} => role'[q] = role[q]
    BY DEF TypeOK
  <2>2. CASE net' = net
    BY <2>1, <2>2 DEF TypeOK, Write, WritesJustified
  <2>3. CASE net' = net \cup {[proc |-> p, version |-> lock[p].version,
                               holder |-> Nobody, renewTime |-> 0]}
             /\ role' = [role EXCEPT ![p] = "releasing"]
    <3>1. \A m \in net : m.proc \in Procs
      BY DEF TypeOK, Write
    <3>2. (timely => lease.holder = p) /\ role'[p] = "releasing"
      BY <2>3 DEF TypeOK, LeadersCovered
    <3>3. QED
      BY <2>1, <2>3, <3>1, <3>2 DEF WritesJustified
  <2>4. QED
    BY <2>2, <2>3
<1>8. AcksCurrent'
  BY DEF TypeOK, AcksCurrent
<1>9. LeadersCovered'
  BY DEF TypeOK, LeadersCovered
<1>10. QED
  BY <1>1, <1>2, <1>3, <1>4, <1>5, <1>6, <1>7, <1>8, <1>9

\* release returns.
LEMMA ReleaseEndsInv ==
  ASSUME ElectionInv, NEW p \in Procs, ReleaseEnds(p)
  PROVE  ElectionInv'
<1>a. /\ observed' \in [Procs -> Record]
      /\ observedTime' \in [Procs -> Nat]
      /\ \A q \in Procs :
           \/ observed'[q] = observed[q] /\ observedTime'[q] = observedTime[q]
           \/ observed'[q].holder = Nobody /\ observedTime'[q] = now
  <2>1. RecordOf(NoLease) \in Record /\ RecordOf(NoLease).holder = Nobody
    BY DEF RecordOf, NoLease, Record, Holders
  <2>2. CASE UNCHANGED <<observed, observedTime>>
    BY <2>2 DEF ElectionInv, TypeOK
  <2>3. CASE /\ observed' = [observed EXCEPT ![p] = RecordOf(NoLease)]
             /\ observedTime' = [observedTime EXCEPT ![p] = now]
    BY <2>1, <2>3 DEF ElectionInv, TypeOK
  <2>4. QED
    BY <2>2, <2>3 DEF ReleaseEnds
<1>b. /\ role' \in [Procs -> {"candidate", "leader", "releasing", "gone"}]
      /\ \A q \in Procs :
           (role'[q] = role[q]) \/ (role[q] = "releasing" /\ role'[q] = "gone")
  BY DEF ElectionInv, ReleaseEnds, TypeOK
<1>c. UNCHANGED <<now, lease, writtenAt, net, lock, pc, started, sentAt, wake, deadline,
                answers>>
  BY DEF ReleaseEnds
<1> USE DEF ElectionInv, answers
<1>1. TypeOK'
  BY <1>a, <1>b, <1>c DEF TypeOK, Record
<1>2. PastTimes'
  BY <1>a, <1>b, <1>c DEF TypeOK, PastTimes
<1>3. VersionsOrdered'
  BY <1>a, <1>b, <1>c DEF TypeOK, VersionsOrdered
<1>4. StampsNew'
  <2> SUFFICES ASSUME NEW o \in Procs,
                      (role[o] \in {"candidate", "leader"} \/ pc[o] # "idle")'
               PROVE  Before(o, NextStamp(o))'
    BY DEF StampsNew
  <2>1. NextStamp(o)' = NextStamp(o)
    BY <1>c DEF NextStamp
  <2>2. Before(o, NextStamp(o))
    BY <1>b, <1>c DEF StampsNew
  <2>3. o # Nobody
    BY ConfigAssumption
  <2>4. QED
    BY <1>a, <1>c, <2>1, <2>2, <2>3 DEF Before
<1>5. WritesUnseen'
  BY <1>a, <1>b, <1>c DEF TypeOK, WritesUnseen, SameRecord
<1>6. ObservedLater'
  BY <1>a, <1>b, <1>c DEF TypeOK, ObservedLater, SameRecord
<1>7. WritesJustified'
  BY <1>a, <1>b, <1>c DEF TypeOK, Write, WritesJustified
<1>8. AcksCurrent'
  BY <1>a, <1>b, <1>c DEF TypeOK, AcksCurrent
<1>9. LeadersCovered'
  BY <1>a, <1>b, <1>c DEF TypeOK, LeadersCovered
<1>10. QED
  BY <1>1, <1>2, <1>3, <1>4, <1>5, <1>6, <1>7, <1>8, <1>9

\* A candidate is told to stop.
LEMMA CancelledInv ==
  ASSUME ElectionInv, NEW p \in Procs, Cancelled(p)
  PROVE  ElectionInv'
<1> USE DEF ElectionInv, answers, Cancelled
<1>1. TypeOK'
  BY DEF TypeOK
<1>2. PastTimes'
  BY DEF TypeOK, PastTimes
<1>3. VersionsOrdered'
  BY DEF TypeOK, VersionsOrdered
<1>4. StampsNew'
  BY DEF TypeOK, StampsNew, Before, NextStamp
<1>5. WritesUnseen'
  BY DEF TypeOK, WritesUnseen
<1>6. ObservedLater'
  BY DEF TypeOK, ObservedLater
<1>7. WritesJustified'
  BY DEF TypeOK, WritesJustified
<1>8. AcksCurrent'
  BY DEF TypeOK, AcksCurrent
<1>9. LeadersCovered'
  BY DEF TypeOK, LeadersCovered
<1>10. QED
  BY <1>1, <1>2, <1>3, <1>4, <1>5, <1>6, <1>7, <1>8, <1>9

\* A process dies.
LEMMA CrashInv ==
  ASSUME ElectionInv, NEW p \in Procs, Crash(p)
  PROVE  ElectionInv'
<1> USE DEF ElectionInv, answers, Crash
<1>1. TypeOK'
  BY DEF TypeOK
<1>2. PastTimes'
  BY DEF TypeOK, PastTimes
<1>3. VersionsOrdered'
  BY DEF TypeOK, VersionsOrdered
<1>4. StampsNew'
  BY DEF TypeOK, StampsNew, Before, NextStamp
<1>5. WritesUnseen'
  BY DEF TypeOK, WritesUnseen
<1>6. ObservedLater'
  BY DEF TypeOK, ObservedLater
<1>7. WritesJustified'
  BY DEF TypeOK, WritesJustified
<1>8. AcksCurrent'
  BY DEF TypeOK, AcksCurrent
<1>9. LeadersCovered'
  BY DEF TypeOK, LeadersCovered
<1>10. QED
  BY <1>1, <1>2, <1>3, <1>4, <1>5, <1>6, <1>7, <1>8, <1>9

\* A write is stored.  This is the step that could take the lease from under a
\* leader.
LEMMA ServeWriteInv ==
  ASSUME ElectionInv, NEW m \in net, ServeWrite(m)
  PROVE  ElectionInv'
<1>a. /\ m \in Write
      /\ lease' \in Lease
      /\ lease'.version = lease.version + 1
      /\ lease'.holder = m.holder
      /\ lease'.renewTime = m.renewTime
  BY DEF ElectionInv, ServeWrite, TypeOK, Lease, Write, Holders
<1>b. \A q \in Procs : lock'[q] = lock[q] \/ (lock'[q] = lease' /\ q = m.proc)
  <2>1. lock' = lock \/ lock' = [lock EXCEPT ![m.proc] = lease']
    BY DEF ServeWrite, Stored
  <2>2. QED
    BY <2>1 DEF ElectionInv, TypeOK
<1> USE DEF ElectionInv, answers, ServeWrite, Stored
<1>1. TypeOK'
  <2>1. net' \subseteq Write /\ now' \in Nat /\ writtenAt' \in Nat
    BY DEF TypeOK
  <2>2. lock' \in [Procs -> Lease]
    BY <1>a DEF TypeOK, Write
  <2>3. (pc \in [Procs -> {"idle", "get", "got", "put", "ack"}])'
    BY <1>a DEF TypeOK, Write
  <2>4. QED
    BY <1>a, <2>1, <2>2, <2>3 DEF TypeOK
<1>2. PastTimes'
  BY DEF TypeOK, PastTimes
<1>3. VersionsOrdered'
  <2>1. \A q \in Procs : /\ lock'[q].version <= lease'.version
                         /\ lock'[q].version = lease'.version => lock'[q] = lease'
    BY <1>a, <1>b DEF TypeOK, Lease, VersionsOrdered
  <2>2. \A n \in net' : n.version <= lease'.version
    BY <1>a DEF TypeOK, Lease, Write, VersionsOrdered
  <2>3. lease'.version # 0
    BY <1>a DEF TypeOK, Lease
  <2>4. QED
    BY <2>1, <2>2, <2>3 DEF VersionsOrdered
<1>4. StampsNew'
  <2> SUFFICES ASSUME NEW p \in Procs, (role[p] \in {"candidate", "leader"} \/ pc[p] # "idle")'
               PROVE  Before(p, NextStamp(p))'
    BY DEF StampsNew
  <2>1. NextStamp(p)' = NextStamp(p) /\ (role[p] \in {"candidate", "leader"} \/ pc[p] # "idle")
    BY <1>a DEF NextStamp, TypeOK, Write
  <2>2. Before(p, NextStamp(p))
    BY <2>1 DEF StampsNew
  <2>3. m.holder = p => m.renewTime < NextStamp(p)
    BY <2>2 DEF Before
  <2>4. \A q \in Procs : lock'[q].holder = p => lock'[q].renewTime < NextStamp(p)
    BY <1>a, <1>b, <2>2, <2>3 DEF Before
  <2>5. QED
    BY <1>a, <2>1, <2>2, <2>3, <2>4 DEF Before
<1>5. WritesUnseen'
  <2>1. \A n \in net' : n \in net /\ n # m
    OBVIOUS
  <2>2. \A n \in net' : n.holder # Nobody => ~SameRecord(n, m)
    BY <2>1 DEF WritesUnseen
  <2>3. \A n \in net' : n.holder # Nobody => ~SameRecord(n, lease')
    BY <1>a, <2>2 DEF SameRecord
  <2>4. \A n \in net' : n.holder # Nobody =>
          \A q \in Procs : ~SameRecord(n, lock'[q]) /\ ~SameRecord(n, observed'[q])
    BY <1>b, <2>1, <2>3 DEF WritesUnseen
  <2>5. \A n, o \in net' : n.holder # Nobody /\ SameRecord(n, o) => n = o
    BY <2>1 DEF WritesUnseen
  <2>6. \A p \in Procs : pc'[p] = "ack" =>
          lock'[p].holder = p /\ lock'[p].renewTime = started'[p]
    BY <1>a DEF TypeOK, Write, WritesUnseen
  <2>7. QED
    BY <2>3, <2>4, <2>5, <2>6 DEF WritesUnseen, SameRecord
<1>6. ObservedLater'
  BY DEF TypeOK, SameRecord, ObservedLater, WritesUnseen, VersionsOrdered
<1>7. WritesJustified'
  BY DEF TypeOK, Lease, WritesJustified, WritesUnseen, VersionsOrdered
<1>8. AcksCurrent'
  BY ConfigAssumption DEF TypeOK, Write, AcksCurrent, WritesJustified,
    LeadersCovered, PastTimes, VersionsOrdered
<1>9. LeadersCovered'
  BY ConfigAssumption DEF TypeOK, Write, LeadersCovered, WritesJustified,
    PastTimes, AcksCurrent, VersionsOrdered
<1>10. QED
  BY <1>1, <1>2, <1>3, <1>4, <1>5, <1>6, <1>7, <1>8, <1>9

\* A write is refused.
LEMMA RefuseWriteInv ==
  ASSUME ElectionInv, NEW m \in net, RefuseWrite(m)
  PROVE  ElectionInv'
<1> USE DEF ElectionInv, answers, RefuseWrite, clientVars
<1>1. TypeOK'
  BY DEF TypeOK
<1>2. PastTimes'
  BY DEF TypeOK, PastTimes
<1>3. VersionsOrdered'
  BY DEF TypeOK, VersionsOrdered
<1>4. StampsNew'
  BY DEF TypeOK, StampsNew, Before, NextStamp
<1>5. WritesUnseen'
  BY DEF TypeOK, WritesUnseen
<1>6. ObservedLater'
  BY DEF TypeOK, ObservedLater
<1>7. WritesJustified'
  BY DEF TypeOK, WritesJustified
<1>8. AcksCurrent'
  BY DEF TypeOK, AcksCurrent
<1>9. LeadersCovered'
  BY DEF TypeOK, LeadersCovered
<1>10. QED
  BY <1>1, <1>2, <1>3, <1>4, <1>5, <1>6, <1>7, <1>8, <1>9

\* Time passes; no leader misses its deadline.
LEMMA TickInv ==
  ASSUME ElectionInv, Tick
  PROVE  ElectionInv'
<1> USE DEF ElectionInv, answers, Tick, clientVars
<1>1. TypeOK'
  BY DEF TypeOK
<1>2. PastTimes'
  BY DEF TypeOK, Write, PastTimes
<1>3. VersionsOrdered'
  BY DEF TypeOK, VersionsOrdered
<1>4. StampsNew'
  BY DEF TypeOK, StampsNew, Before, NextStamp
<1>5. WritesUnseen'
  BY DEF TypeOK, WritesUnseen
<1>6. ObservedLater'
  BY DEF TypeOK, ObservedLater
<1>7. WritesJustified'
  BY DEF TypeOK, WritesJustified
<1>8. AcksCurrent'
  BY ConfigAssumption DEF TypeOK, AcksCurrent
<1>9. LeadersCovered'
  BY DEF TypeOK, LeadersCovered
<1>10. QED
  BY <1>1, <1>2, <1>3, <1>4, <1>5, <1>6, <1>7, <1>8, <1>9

-----------------------------------------------------------------------------
\* The invariant holds initially.
LEMMA InitInv == Init => ElectionInv
<1> SUFFICES ASSUME Init PROVE ElectionInv
  OBVIOUS
<1> USE ConfigAssumption DEF Init, NoLease, RecordOf
<1>1. TypeOK
  BY DEF TypeOK, Lease, Record, Write, Holders
<1>2. PastTimes /\ VersionsOrdered
  BY DEF PastTimes, VersionsOrdered
<1>3. StampsNew
  BY DEF StampsNew, Before
<1>4. WritesUnseen /\ ObservedLater
  BY DEF WritesUnseen, ObservedLater
<1>5. WritesJustified /\ AcksCurrent /\ LeadersCovered
  BY DEF WritesJustified, AcksCurrent, LeadersCovered
<1>6. QED
  BY <1>1, <1>2, <1>3, <1>4, <1>5 DEF ElectionInv

\* Every step preserves it.
LEMMA NextInv ==
  ASSUME ElectionInv, [Next]_vars
  PROVE  ElectionInv'
<1>1. CASE \E p \in Procs : \/ Attempt(p) \/ ServeGet(p) \/ GetFails(p)
                            \/ GetNotFound(p) \/ GetReply(p)
                            \/ WriteFails(p) \/ WriteReply(p)
                            \/ StopLeading(p) \/ ReleaseEnds(p)
                            \/ Cancelled(p) \/ Crash(p)
  BY <1>1, AttemptInv, ServeGetInv, GetFailsInv, GetNotFoundInv, GetReplyInv,
     WriteFailsInv, WriteReplyInv, StopLeadingInv, ReleaseEndsInv, CancelledInv, CrashInv
<1>2. CASE \E m \in net : ServeWrite(m) \/ RefuseWrite(m)
  BY <1>2, ServeWriteInv, RefuseWriteInv
<1>3. CASE Tick
  BY <1>3, TickInv
<1>4. CASE UNCHANGED vars
  BY <1>4 DEF vars, answers, ElectionInv, TypeOK, PastTimes, VersionsOrdered, StampsNew,
     Before, NextStamp, WritesUnseen, ObservedLater, WritesJustified, AcksCurrent,
     LeadersCovered
<1>5. QED
  BY <1>1, <1>2, <1>3, <1>4 DEF Next

\* The invariant of leader election: what tryAcquireOrRenew, renew and release
\* rely on without saying so.  It assumes nothing beyond what NewLeaderElector
\* checks; where it needs timely answers it says so.
THEOREM ElectionInvariant == Spec => []ElectionInv
<1>1. ElectionInv /\ [Next]_vars => ElectionInv'
  BY NextInv
<1>2. QED
  BY InitInv, <1>1, PTL DEF Spec

\* The types of the lock object, the requests on their way and every process's
\* local state.
THEOREM ElectionTypeCorrect == Spec => []TypeOK
<1>1. ElectionInv => TypeOK
  BY DEF ElectionInv
<1>2. QED
  BY ElectionInvariant, <1>1, PTL

\* LeaderElector.Run: as long as the answers that make and keep leaders are timely,
\* no two processes are in renew's loop, because both would hold the lease.
THEOREM OneLeader == Spec => []AtMostOneLeader
<1>1. ElectionInv => AtMostOneLeader
  BY DEF ElectionInv, LeadersCovered, AtMostOneLeader
<1>2. QED
  BY ElectionInvariant, <1>1, PTL

\* The comment on LeaderElectionConfig.LeaseDuration: tryAcquireOrRenew takes the
\* lease from another process only when it was not renewed for that long, however
\* late requests are served and answered.
THEOREM LeaseRespected == Spec => TakeoverWaits
<1> DEFINE Change == lease.holder \notin {Nobody, lease'.holder} =>
                       IF lease'.holder = Nobody
                       THEN timely => role[lease.holder] \in {"releasing", "gone"}
                       ELSE now >= writtenAt + LeaseDuration
<1>1. ElectionInv /\ [Next]_vars => [Change]_vars
  <2> SUFFICES ASSUME ElectionInv, Next PROVE Change
    BY DEF vars
  <2>1. CASE \E m \in net : ServeWrite(m)
    <3>1. PICK m \in net : ServeWrite(m)
      BY <2>1
    <3>2. m.version = lease.version /\ lease'.holder = m.holder
      BY <3>1 DEF ServeWrite
    <3>3. m.renewTime <= now /\ now \in Nat /\ writtenAt \in Nat /\ m \in Write
      BY DEF ElectionInv, PastTimes, TypeOK
    <3>4. QED
      BY <3>2, <3>3, ConfigAssumption DEF ElectionInv, WritesJustified, Write, Holders
  <2>2. CASE UNCHANGED lease
    BY <2>2
  <2>3. QED
    BY <2>1, <2>2 DEF Next, Attempt, ServeGet, GetFails, GetNotFound, GetReply,
       WriteFails, WriteReply, StopLeading, ReleaseEnds, Cancelled, Crash, RefuseWrite, Tick
<1>2. QED
  BY ElectionInvariant, <1>1, PTL DEF Spec, TakeoverWaits
=============================================================================
