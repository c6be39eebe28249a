----------------------------- MODULE AtomicStore -----------------------------
(***************************************************************************)
(* What storage.Interface (apiserver/pkg/storage/interfaces.go) promises   *)
(* of one key: every Create, GuaranteedUpdate and Delete is one atomic     *)
(* step on the object as it is at some moment between call and return.     *)
(***************************************************************************)
EXTENDS StoreObjects

VARIABLES
    object,     \* the object and its ModRevision, 0 if there is none
    revision,   \* of the last write
    calls,      \* the call of each client
    late        \* operations that were given up and may still take effect

atomicVars == <<object, revision, calls, late>>

NotFound(q) == object.value = Absent /\ ~q.op.ignore
Met(q) == object.value \in q.op.pre
Result(q) == q.op.f[object.value]
Keeps(q) == Result(q) = object.value

\* tryUpdate accepts the object.  The version is of no account if nothing changes.
Accepts(q) == Result(q) # Failed /\ (Expected(q, object.rev) \/ Keeps(q))

Answer(c, a) == calls' = [calls EXCEPT ![c].pc = "done", ![c].answer = a]

Invoke(c) == /\ calls[c].pc = "idle" /\ calls'[c].req \in Request
             /\ calls' = [calls EXCEPT ![c] = [pc |-> "called", req |-> calls'[c].req, answer |-> "none"]]
             /\ UNCHANGED <<object, revision, late>>

\* The effect of a request on the object.
Effect(q) == /\ ~NotFound(q) /\ Met(q) /\ Accepts(q)
             /\ revision' = revision + 1
             /\ object' = [value |-> Result(q), rev |-> IF Result(q) = Absent THEN 0 ELSE revision']

Apply(c) == /\ calls[c].pc = "called" /\ Effect(calls[c].req) /\ Answer(c, "ok")
            /\ UNCHANGED late

\* Nothing is written if nothing changes, or if the request cannot be carried out.
ApplyNothing(c) ==
    LET q == calls[c].req IN
    /\ calls[c].pc = "called"
    /\ \/ ~NotFound(q) /\ Met(q) /\ Accepts(q) /\ Keeps(q) /\ Answer(c, "ok")
       \/ NotFound(q) /\ Answer(c, "notfound")
       \/ ~Met(q) /\ Answer(c, "precondition")
       \/ (Result(q) = Failed \/ ~Expected(q, object.rev)) /\ Answer(c, "refused")
    /\ UNCHANGED <<object, revision, late>>

\* The precondition is looked up in an object that is out of date.
Mistake(c) == /\ calls[c].pc = "idle" /\ calls'[c].req \in Request
              /\ calls'[c].req.op.pre # Values \cup {Absent}
              /\ calls' = [calls EXCEPT ![c] = [pc |-> "done", req |-> calls'[c].req, answer |-> "precondition"]]
              /\ UNCHANGED <<object, revision, late>>

\* The caller is told of an error, and the request is lost or still on its way.
GiveUp(c) == /\ calls[c].pc = "called" /\ Answer(c, "error")
             /\ late' \in {late, late \cup {calls[c].req}}
             /\ UNCHANGED <<object, revision>>

TakeEffectLate(q) == /\ q \in late /\ Effect(q)
                     /\ late' \in {late, late \ {q}}
                     /\ UNCHANGED calls

Disappear(q) == q \in late /\ late' = late \ {q} /\ UNCHANGED <<object, revision, calls>>

Return(c) == /\ calls[c].pc = "done"
             /\ calls' = [calls EXCEPT ![c].pc = "idle"]
             /\ UNCHANGED <<object, revision, late>>

AtomicInit == /\ \/ object = [value |-> Absent, rev |-> 0] /\ revision = 0
                 \/ /\ object \in [value: Values, rev: {1}] /\ revision = 1
              /\ calls = [c \in Clients |-> [pc |-> "idle", req |-> NoRequest, answer |-> "none"]]
              /\ late = {}

AtomicNext == \/ \E c \in Clients : \/ Invoke(c) \/ Apply(c) \/ ApplyNothing(c) \/ Mistake(c) \/ GiveUp(c) \/ Return(c)
              \/ \E q \in late : TakeEffectLate(q) \/ Disappear(q)

AtomicSpec == AtomicInit /\ [][AtomicNext]_atomicVars
=============================================================================
