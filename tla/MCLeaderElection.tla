-------------------------- MODULE MCLeaderElection --------------------------
(***************************************************************************)
(* A small instance of LeaderElection for TLC.                             *)
(***************************************************************************)
EXTENDS LeaderElection, TLC

Symmetry == Permutations(Procs)

\* What a step can still depend on.  Versions are only compared with the current
\* one and with 0, a write of an outdated object will be refused, a process with
\* no attempt under way does not look at the times of the last one, a record that
\* was replaced is never seen again (unless it is an empty one), and a process
\* that has left renew's loop and has no attempt under way does nothing any more.
Version(v) == IF v = 0 THEN "none" ELSE IF v = lease.version THEN "current" ELSE "old"

Observation(p) ==
  IF observed[p].holder \notin {p, Nobody} /\ observed[p] \in {RecordOf(lease), RecordOf(lock[p])}
  THEN <<observed[p], observedTime[p]>> ELSE <<>>

Client(p) ==
  IF role[p] \in {"releasing", "gone"} /\ pc[p] = "idle" THEN <<>>
  ELSE <<pc[p], IsLeader(p), Observation(p),
         IF pc[p] = "got" \/ role[p] = "leader"
         THEN <<Version(lock[p].version), RecordOf(lock[p])>> ELSE <<>>,
         IF pc[p] = "idle" THEN wake[p] ELSE started[p],
         IF pc[p] \in {"put", "ack"} THEN sentAt[p] ELSE 0,
         IF pc[p] = "ack" THEN storedAt[p] ELSE 0,
         IF role[p] = "leader" THEN deadline[p] ELSE 0>>

View == <<now, timely, Version(lease.version), RecordOf(lease), writtenAt, role,
          {<<m.proc, m.holder, m.renewTime>> : m \in {x \in net : x.version = lease.version}},
          [p \in Procs |-> Client(p)]>>
=============================================================================
