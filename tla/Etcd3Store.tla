----------------------------- MODULE Etcd3Store -----------------------------
(***************************************************************************)
(* The etcd3 implementation of storage.Interface (apiserver/pkg/storage/   *)
(* etcd3/store.go), for one key: Create, GuaranteedUpdate and Delete send  *)
(* etcd transactions that compare the ModRevision of the object they       *)
(* started from, which may be a suggestion from the watch cache            *)
(* (Cacher.GuaranteedUpdate), and start again after a conflict.            *)
(*                                                                         *)
(* Abstractions.  An object is a value, without its resourceVersion, which *)
(* is not stored; encoding and encryption keep what it is, except that     *)
(* stored data may be stale, that is, encrypted with an old key.  Writes   *)
(* to other keys only advance the revision and are left out, and so are    *)
(* leases, and errors of encoding.  What runs between two requests to etcd *)
(* is part of the action of the first.                                     *)
(*                                                                         *)
(* External to the code: etcd, the callers with their tryUpdate functions. *)
(***************************************************************************)
EXTENDS StoreObjects

CONSTANTS
    MaxCalls,    \* bound on the calls
    MaxFaults    \* bound on requests to etcd that fail

ASSUME BoundAssumption == MaxCalls \in Nat /\ MaxFaults \in Nat

VARIABLES
    object,     \* what etcd stores, and its ModRevision, 0 if there is none
    revision,   \* of the last write
    stale,      \* what is stored was encrypted with an old key
    history,    \* the versions of the object that there were: what a watch cache may have
    store,      \* the calls: where they are, origState, mustCheckData, the answer
    flying,     \* transactions that nobody waits for any more
    ncalls, nfaults

vars == <<object, revision, stale, history, store, flying, ncalls, nfaults>>

\* getState, for what is stored now.
Stored == [value |-> object.value, rev |-> object.rev, stale |-> stale]
State == [value: Values \cup {Absent}, rev: Nat, stale: BOOLEAN]

Nowhere == [value |-> Absent, rev |-> 0, stale |-> FALSE]
NoCall == [pc |-> "idle", req |-> NoRequest, orig |-> Nowhere, must |-> FALSE, answer |-> "none"]

Goto(call, pc, s, must) == [call EXCEPT !.pc = pc, !.orig = s, !.must = must]
Answered(call, a) == [call EXCEPT !.pc = "done", !.answer = a]

\* The UpdateFunc of Store.Update: an object that exists must have the caller's resourceVersion.
tryUpdate(q, s) == IF Expected(q, s.rev) THEN q.op.f[s.value] ELSE Failed

\* Mutant of Loop: an error of tryUpdate always means that the data was out of date.
LoopForever(call, s, must) ==
    LET ret == tryUpdate(call.req, s) IN
    IF s.value = Absent /\ ~call.req.op.ignore THEN Answered(call, "notfound")
    ELSE IF s.value \notin call.req.op.pre THEN Answered(call, "precondition")
    ELSE IF ret = Failed THEN Goto(call, "get", s, FALSE)
    ELSE IF ret = s.value /\ ~s.stale THEN IF must THEN Goto(call, "check", s, must) ELSE Answered(call, "ok")
    ELSE Goto(call, "txn", s, must)

\* Mutant of Loop: the result is not compared with the data it was made from.
LoopWrites(call, s, must) ==
    IF s.value = Absent /\ ~call.req.op.ignore THEN Answered(call, "notfound")
    ELSE IF s.value \notin call.req.op.pre THEN Answered(call, "precondition")
    ELSE IF tryUpdate(call.req, s) # Failed THEN Goto(call, "txn", s, must)
    ELSE IF must THEN Goto(call, "get", s, FALSE) ELSE Answered(call, "refused")

\* The body of the loop, from origState to the next request or the answer.  Delete does
\* the same, with validateDeletion for tryUpdate and no object as the new one.
Loop(call, s, must) ==
    LET ret == tryUpdate(call.req, s)
        found == s.value # Absent \/ call.req.op.ignore
        met == s.value \in call.req.op.pre
    IN CASE ~found -> Answered(call, "notfound")
         [] found /\ ~met -> Answered(call, "precondition")
         [] found /\ met /\ ret = Failed ->
              IF must THEN Goto(call, "get", s, FALSE) ELSE Answered(call, "refused")
         [] found /\ met /\ ret = s.value /\ ~s.stale ->
              IF must THEN Goto(call, "check", s, must) ELSE Answered(call, "ok")
         [] OTHER -> Goto(call, "txn", s, must)

\* A call begins: Create prepares its transaction, GuaranteedUpdate looks at the
\* suggestion if there is one and goes to etcd otherwise, Delete goes to etcd.
Call(c) ==
    /\ store[c].pc = "idle" /\ ncalls < MaxCalls /\ ncalls' = ncalls + 1
    /\ \E o \in Ops, v \in {0} \cup {h.rev : h \in history} :
         LET call == [NoCall EXCEPT !.req = [op |-> o, rv |-> v]] IN
         \/ /\ o.kind = "create" /\ v = 0
            /\ store' = [store EXCEPT ![c] = Goto(call, "txn", Nowhere, FALSE)]
         \/ /\ o.kind = "delete" => v = 0
            /\ o.kind \in {"update", "delete"}
            /\ store' = [store EXCEPT ![c] = Goto(call, "get", Nowhere, FALSE)]
         \/ /\ o.kind = "update"
            /\ \E h \in history : /\ h.value # Absent
                                  /\ store' = [store EXCEPT ![c] =
                                       Loop(call, [value |-> h.value, rev |-> h.rev, stale |-> FALSE], TRUE)]
    /\ UNCHANGED <<object, revision, stale, history, flying, nfaults>>

\* getCurrentState.
Get(c) ==
    /\ store[c].pc = "get"
    /\ store' = [store EXCEPT ![c] = Loop(@, Stored, FALSE)]
    /\ UNCHANGED <<object, revision, stale, history, flying, ncalls, nfaults>>

\* The update would change nothing of the suggestion: is that what is stored?
CheckData(c) ==
    /\ store[c].pc = "check"
    /\ \/ /\ object.value # store[c].orig.value
          /\ store' = [store EXCEPT ![c] = Loop(@, Stored, FALSE)]
       \/ /\ object.value = store[c].orig.value
          /\ store' = [store EXCEPT ![c] = IF stale THEN Goto(@, "txn", Stored, FALSE)
                                                    ELSE Answered(@, "ok")]
    /\ UNCHANGED <<object, revision, stale, history, flying, ncalls, nfaults>>

\* Then of a transaction, for a request that started from the state s.
Put(q, s) ==
    /\ revision' = revision + 1 /\ stale' = FALSE
    /\ object' = [value |-> q.op.f[s.value], rev |-> IF q.op.f[s.value] = Absent THEN 0 ELSE revision']
    /\ history' = history \cup {object'}

\* Mutant of Unchanged: the value is compared and not the revision.
UnchangedValue(s) == object.value = s.value

\* If of a transaction: the object's ModRevision is the one of origState.
Unchanged(s) == object.rev = s.rev

\* Commit.  After a conflict, Create returns an error, and the others start again with
\* what the transaction has read.
Commit(c) ==
    LET call == store[c] IN
    /\ call.pc = "txn"
    /\ \/ /\ Unchanged(call.orig) /\ Put(call.req, call.orig)
          /\ store' = [store EXCEPT ![c] = Answered(@, "ok")]
       \/ /\ ~Unchanged(call.orig)
          /\ store' = [store EXCEPT ![c] = IF call.req.op.kind = "create" THEN Answered(@, "refused")
                                           ELSE Loop(@, Stored, FALSE)]
          /\ UNCHANGED <<object, revision, stale, history>>
    /\ UNCHANGED <<flying, ncalls, nfaults>>

\* A request fails or times out, or the caller's context ends; a transaction may have
\* been sent.
Fail(c) ==
    /\ store[c].pc \in {"get", "check", "txn"} /\ nfaults < MaxFaults /\ nfaults' = nfaults + 1
    /\ store' = [store EXCEPT ![c] = Answered(@, "error")]
    /\ flying' \in {flying} \cup IF store[c].pc = "txn"
                                 THEN {flying \cup {[req |-> store[c].req, orig |-> store[c].orig]}} ELSE {}
    /\ UNCHANGED <<object, revision, stale, history, ncalls>>

\* etcd carries out a transaction that nobody waits for.
Land(t) ==
    /\ flying' = flying \ {t}
    /\ \/ Unchanged(t.orig) /\ Put(t.req, t.orig)
       \/ ~Unchanged(t.orig) /\ UNCHANGED <<object, revision, stale, history>>
    /\ UNCHANGED <<store, ncalls, nfaults>>

Finish(c) ==
    /\ store[c].pc = "done"
    /\ store' = [store EXCEPT ![c].pc = "idle"]
    /\ UNCHANGED <<object, revision, stale, history, flying, ncalls, nfaults>>

Init ==
    /\ \/ object = [value |-> Absent, rev |-> 0] /\ revision = 0
       \/ object \in [value: Values, rev: {1}] /\ revision = 1
    /\ stale \in {FALSE, object.value # Absent}
    /\ history = {object} /\ store = [c \in Clients |-> NoCall] /\ flying = {}
    /\ ncalls = 0 /\ nfaults = 0

Step(c) == Get(c) \/ CheckData(c) \/ Commit(c) \/ Finish(c)

Next == \/ \E c \in Clients : Call(c) \/ Step(c) \/ Fail(c)
        \/ \E t \in flying : Land(t)

Spec == Init /\ [][Next]_vars

\* etcd answers, and the API server's goroutines go on.
FairSpec == Spec /\ \A c \in Clients : WF_vars(Step(c))

-----------------------------------------------------------------------------
\* The type of every variable; the revision is the number of writes, and an object that is
\* stored has a revision up to it.
TypeOK ==
    /\ object \in [value: Values \cup {Absent}, rev: 0..revision] /\ revision \in Nat
    /\ object.rev = 0 <=> object.value = Absent
    /\ stale \in BOOLEAN /\ history \subseteq [value: Values \cup {Absent}, rev: 0..revision]
    /\ store \in [Clients -> [pc: {"idle", "get", "check", "txn", "done"}, req: Request, orig: State,
                             must: BOOLEAN,
                             answer: {"none", "ok", "notfound", "precondition", "refused", "error"}]]
    /\ flying \subseteq [req: Request, orig: State]
    /\ ncalls \in 0..MaxCalls /\ nfaults \in 0..MaxFaults

\* What a caller sees of a call, and the requests that were given up and may still land.
SeenCalls == [c \in Clients |->
                [pc |-> IF store[c].pc \in {"get", "check", "txn"} THEN "called" ELSE store[c].pc,
                 req |-> store[c].req, answer |-> store[c].answer]]
Late == {t.req : t \in flying}

\* Every call is one atomic step on the object as it is between call and return, although
\* it may have started from an old version, met conflicts or been given up.
A == INSTANCE AtomicStore WITH calls <- SeenCalls, late <- Late
Atomic == A!AtomicSpec

\* "If the object to update has the same value as previous, it won't do any update"
\* (interfaces.go): the same value is written again only to encrypt it with the new key.
NoNeedlessWrite == [][revision' # revision /\ object'.value = object.value => stale]_vars

\* "retrying the update until success if there is index conflict" (interfaces.go) ends
\* when the other callers rest.
Returns == \A c \in Clients : store[c].pc # "idle" ~> store[c].pc = "idle"

\* A suggestion is "about the current version of the object to avoid read operation"
\* (interfaces.go) and makes no difference to the answer: a caller whose precondition the
\* object meets is not told that it fails.
PreconditionOfCurrent ==
    [][\A c \in Clients : store'[c].pc = "done" /\ store[c].pc # "done" /\ store'[c].answer = "precondition"
         => object.value \notin store'[c].req.op.pre]_vars
=============================================================================
