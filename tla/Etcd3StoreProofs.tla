-------------------------- MODULE Etcd3StoreProofs --------------------------
(***************************************************************************)
(* Etcd3Store implements AtomicStore, for any clients, objects, operations *)
(* and bounds: proofs of its type invariant, of the refinement and of      *)
(* NoNeedlessWrite.                                                        *)
(*                                                                         *)
(* The argument.  A revision stands for one value only (HistoryOK), so a   *)
(* transaction that finds the revision it started from finds the value it  *)
(* started from (Version), and what was decided about that value when the  *)
(* transaction was prepared (Prepared) still holds when it is carried out, *)
(* however much later that is.                                             *)
(***************************************************************************)
EXTENDS Etcd3Store, TLAPS

Calls == [pc: {"idle", "get", "check", "txn", "done"}, req: Request, orig: State,
          must: BOOLEAN, answer: {"none", "ok", "notfound", "precondition", "refused", "error"}]

\* No two versions of the object have the same revision, 0 is the revision of
\* no object, and no object is never encrypted with an old key.
HistoryOK ==
    /\ object \in history
    /\ \A g, h \in history : g.rev = h.rev => g.value = h.value
    /\ \A h \in history : h.rev = 0 <=> h.value = Absent
    /\ object.rev = 0 => ~stale

\* The state s is one that the object has, had, or would have if it were absent.
Version(s) ==
    /\ s.rev <= revision
    /\ s.rev = 0 <=> s.value = Absent
    /\ \A h \in history : h.rev = s.rev => h.value = s.value
    /\ s.stale /\ s.rev = object.rev => stale
    /\ s.rev = 0 => ~s.stale

Found(q, s) == s.value # Absent \/ q.op.ignore

\* The request q may replace the state s, and changes something by it.
Prepared(q, s) ==
    /\ Version(s)
    /\ Found(q, s) /\ s.value \in q.op.pre
    /\ q.op.f[s.value] # Failed
    /\ Expected(q, s.rev) \/ q.op.f[s.value] = s.value
    /\ q.op.f[s.value] = s.value => s.stale

\* The request q keeps the value of s.
Kept(q, s) ==
    /\ Found(q, s) /\ s.value \in q.op.pre
    /\ q.op.f[s.value] = s.value

CallOK(call) ==
    /\ call.pc = "txn" => Prepared(call.req, call.orig)
    /\ call.pc = "check" => Kept(call.req, call.orig)
    /\ call.pc \in {"get", "check", "txn"} => call.answer = "none"

CallsOK == \A c \in Clients : CallOK(store[c])

FlyingOK == \A t \in flying : Prepared(t.req, t.orig)

StoreInv == TypeOK /\ HistoryOK /\ CallsOK /\ FlyingOK

-----------------------------------------------------------------------------
USE DEF Expected

LEMMA RequestType ==
  ASSUME NEW q \in Request, NEW v \in Values \cup {Absent}
  PROVE  /\ q.op \in Operation
         /\ q.op.f[v] \in Values \cup {Absent, Failed}
         /\ q.rv \in Nat
         /\ v # Failed
         /\ q.op.kind = "create" /\ v # Absent => q.op.f[v] = Failed
         /\ NoRequest \in Request
BY StoreAssumption DEF Request, Operation, NoRequest

\* What Loop decides, by its outcome.
LEMMA LoopOutcome ==
  ASSUME NEW call \in Calls, NEW s \in State, NEW must \in BOOLEAN
  PROVE  LET q == call.req
             r == Loop(call, s, must)
         IN \/ r = Answered(call, "notfound") /\ ~Found(q, s)
            \/ r = Answered(call, "precondition") /\ s.value \notin q.op.pre /\ Found(q, s)
            \/ r = Goto(call, "get", s, FALSE) /\ must
            \/ /\ r = Answered(call, "refused") /\ ~must
               /\ q.op.f[s.value] = Failed \/ ~Expected(q, s.rev)
            \/ r = Goto(call, "check", s, must) /\ must /\ Kept(q, s)
            \/ r = Answered(call, "ok") /\ ~must /\ Kept(q, s)
            \/ /\ r = Goto(call, "txn", s, must)
               /\ Found(q, s) /\ s.value \in q.op.pre
               /\ q.op.f[s.value] # Failed /\ Expected(q, s.rev)
               /\ q.op.f[s.value] = s.value => s.stale
<1> DEFINE q == call.req
           ret == tryUpdate(q, s)
<1>1. q \in Request /\ s.value \in Values \cup {Absent} /\ s.stale \in BOOLEAN
  BY DEF Calls, State
<1>2. /\ q.op.f[s.value] \in Values \cup {Absent, Failed} /\ s.value # Failed
  BY <1>1, RequestType
<1>3. /\ ret = Failed => q.op.f[s.value] = Failed \/ ~Expected(q, s.rev)
      /\ ret # Failed => ret = q.op.f[s.value] /\ Expected(q, s.rev)
  BY <1>2 DEF tryUpdate
<1>4. CASE ~Found(q, s)
  <2>1. Loop(call, s, must) = Answered(call, "notfound")
    BY <1>4 DEF Loop, Found
  <2> QED BY <1>4, <2>1
<1>5. CASE Found(q, s) /\ s.value \notin q.op.pre
  <2>1. Loop(call, s, must) = Answered(call, "precondition")
    BY <1>5 DEF Loop, Found
  <2> QED BY <1>5, <2>1
<1>6. CASE Found(q, s) /\ s.value \in q.op.pre /\ ret = Failed
  <2>1. Loop(call, s, must) = IF must THEN Goto(call, "get", s, FALSE) ELSE Answered(call, "refused")
    BY <1>6, <1>2 DEF Loop, Found
  <2> QED BY <1>6, <1>3, <2>1
<1>7. CASE Found(q, s) /\ s.value \in q.op.pre /\ ret = s.value /\ ~s.stale
  <2>1. Loop(call, s, must) = IF must THEN Goto(call, "check", s, must) ELSE Answered(call, "ok")
    BY <1>7, <1>2 DEF Loop, Found
  <2> QED BY <1>7, <1>3, <1>2, <2>1 DEF Kept
<1>8. CASE Found(q, s) /\ s.value \in q.op.pre /\ ret # Failed /\ ~(ret = s.value /\ ~s.stale)
  <2>1. Loop(call, s, must) = Goto(call, "txn", s, must)
    BY <1>8 DEF Loop, Found
  <2> QED BY <1>8, <1>3, <1>1, <2>1
<1> QED BY <1>4, <1>5, <1>6, <1>7, <1>8

\* From a version of the object, Loop goes on to a call that is prepared.
LEMMA LoopOK ==
  ASSUME NEW call \in Calls, NEW s \in State, NEW must \in BOOLEAN,
         call.answer = "none", Version(s)
  PROVE  Loop(call, s, must) \in Calls /\ CallOK(Loop(call, s, must))
<1>1. \A a \in {"notfound", "precondition", "refused", "ok"} :
         Answered(call, a) \in Calls /\ CallOK(Answered(call, a))
  BY DEF Answered, Calls, CallOK
<1>2. \A pc \in {"get", "check", "txn"}, m \in BOOLEAN :
         /\ Goto(call, pc, s, m) \in Calls
         /\ Goto(call, pc, s, m).pc = pc
         /\ Goto(call, pc, s, m).req = call.req
         /\ Goto(call, pc, s, m).orig = s
         /\ Goto(call, pc, s, m).answer = "none"
  BY DEF Goto, Calls
<1>3. CallOK(Goto(call, "get", s, FALSE))
  BY <1>2 DEF CallOK
<1>4. Kept(call.req, s) => CallOK(Goto(call, "check", s, must))
  BY <1>2 DEF CallOK
<1>5. Prepared(call.req, s) => CallOK(Goto(call, "txn", s, must))
  BY <1>2 DEF CallOK
<1>6. \/ \E a \in {"notfound", "precondition", "refused", "ok"} : Loop(call, s, must) = Answered(call, a)
      \/ Loop(call, s, must) = Goto(call, "get", s, FALSE)
      \/ Loop(call, s, must) = Goto(call, "check", s, must) /\ Kept(call.req, s)
      \/ Loop(call, s, must) = Goto(call, "txn", s, must) /\ Prepared(call.req, s)
  BY LoopOutcome DEF Prepared
<1> QED BY <1>1, <1>2, <1>3, <1>4, <1>5, <1>6

\* What the object's variables are to the invariant, when they do not change.
base == <<object, revision, stale, history>>

LEMMA BaseUnchanged ==
  ASSUME UNCHANGED base
  PROVE  /\ HistoryOK => HistoryOK'
         /\ \A s : Version(s) => Version(s)'
BY DEF base, HistoryOK, Version

\* A call stays prepared if its state stays a version of the object.
LEMMA CallStable ==
  ASSUME NEW call \in Calls, CallOK(call), \A s \in State : Version(s) => Version(s)'
  PROVE  CallOK(call)'
BY DEF CallOK, Prepared, Calls, Kept, Found

LEMMA FlightStable ==
  ASSUME NEW t \in [req: Request, orig: State], Prepared(t.req, t.orig),
         \A s \in State : Version(s) => Version(s)'
  PROVE  Prepared(t.req, t.orig)'
BY DEF Prepared, Found

\* What is stored is a version of the object.
LEMMA StoredVersion ==
  ASSUME TypeOK, HistoryOK
  PROVE  Stored \in State /\ Version(Stored)
BY DEF TypeOK, HistoryOK, Stored, State, Version

\* A revision stands for one value: a transaction that finds its revision
\* finds its value.
LEMMA SameVersion ==
  ASSUME TypeOK, HistoryOK, NEW s \in State, Version(s), Unchanged(s)
  PROVE  s.value = object.value /\ (s.stale => stale)
BY DEF TypeOK, HistoryOK, State, Version, Unchanged

\* A write keeps the versions that calls have started from.
LEMMA PutOK ==
  ASSUME TypeOK, HistoryOK, NEW q \in Request, NEW s \in State, Prepared(q, s), Put(q, s)
  PROVE  /\ object' \in [value: Values \cup {Absent}, rev: 0..revision'] /\ revision' \in Nat
         /\ object'.rev = 0 <=> object'.value = Absent
         /\ stale' \in BOOLEAN /\ history' \subseteq [value: Values \cup {Absent}, rev: 0..revision']
         /\ HistoryOK'
         /\ \A z \in State : Version(z) => Version(z)'
<1>1. q.op.f[s.value] \in Values \cup {Absent}
  BY RequestType DEF State, Prepared
<1>2. /\ revision \in Nat /\ revision' = revision + 1 /\ stale' = FALSE
      /\ object' = [value |-> q.op.f[s.value],
                    rev |-> IF q.op.f[s.value] = Absent THEN 0 ELSE revision + 1]
      /\ history' = history \cup {object'}
      /\ \A h \in history : h \in [value: Values \cup {Absent}, rev: 0..revision]
  BY DEF Put, TypeOK
<1>3. /\ object'.value = q.op.f[s.value]
      /\ object'.rev = IF q.op.f[s.value] = Absent THEN 0 ELSE revision + 1
      /\ object' \in [value: Values \cup {Absent}, rev: 0..(revision + 1)]
  BY <1>1, <1>2
<1>4. object'.rev = 0 <=> object'.value = Absent
  BY <1>2, <1>3
<1>5. history' \subseteq [value: Values \cup {Absent}, rev: 0..revision']
  BY <1>2, <1>3
<1>6. \A h \in history : h.rev = object'.rev => h.value = object'.value
  BY <1>2, <1>3 DEF HistoryOK
<1>7. HistoryOK'
  BY <1>2, <1>4, <1>6 DEF HistoryOK
<1>8. ASSUME NEW z \in State, Version(z) PROVE Version(z)'
  <2>1. z.rev \in Nat /\ z.rev <= revision
    BY <1>8 DEF State, Version
  <2>2. object'.rev = z.rev => z.rev = 0
    BY <1>2, <1>3, <2>1
  <2>3. \A h \in history' : h.rev = z.rev => h.value = z.value
    BY <1>2, <1>4, <1>8, <2>2 DEF Version
  <2>4. z.rev = object'.rev => ~z.stale
    BY <1>8, <2>2 DEF Version
  <2>5. z.rev <= revision'
    BY <1>2, <2>1
  <2> QED BY <1>8, <2>3, <2>4, <2>5 DEF Version
<1>9. \A z \in State : Version(z) => Version(z)'
  BY <1>8
<1>10. /\ object' \in [value: Values \cup {Absent}, rev: 0..revision'] /\ revision' \in Nat
  BY <1>2, <1>3
<1>11. stale' \in BOOLEAN
  BY Zenon DEF Put
<1> QED BY <1>4, <1>5, <1>7, <1>9, <1>10, <1>11

-----------------------------------------------------------------------------
(* The invariant is inductive. *)

Stable == \A s \in State : Version(s) => Version(s)'

\* The call of one client goes on to r, and the others stay as they are.
LEMMA Frame ==
  ASSUME StoreInv, NEW c \in Clients, NEW r \in Calls, CallOK(r)',
         store' = [store EXCEPT ![c] = r], Stable
  PROVE  store' \in [Clients -> Calls] /\ CallsOK'
<1>1. store \in [Clients -> Calls] /\ \A d \in Clients : CallOK(store[d])
  BY DEF StoreInv, TypeOK, Calls, CallsOK
<1>2. store' \in [Clients -> Calls]
  BY <1>1
<1>3. ASSUME NEW d \in Clients PROVE CallOK(store[d])'
  <2>1. CASE d = c
    <3>1. store'[d] = r
      BY <1>1, <2>1
    <3> QED BY <3>1 DEF CallOK, Prepared, Kept, Version, Found
  <2>2. CASE d # c
    <3>1. store'[d] = store[d] /\ store[d] \in Calls
      BY <1>1, <2>2
    <3>2. PICK e \in Calls : e = store[d]
      BY <3>1
    <3>3. CallOK(e)'
      BY <1>1, <3>2, CallStable DEF Stable
    <3> QED BY <3>1, <3>2, <3>3 DEF CallOK, Prepared, Kept, Version, Found
  <2> QED BY <2>1, <2>2
<1> QED BY <1>2, <1>3 DEF CallsOK

LEMMA FlyingStable ==
  ASSUME StoreInv, Stable, flying' \subseteq flying
  PROVE  FlyingOK'
<1>1. ASSUME NEW t \in flying' PROVE Prepared(t.req, t.orig)'
  <2>1. t \in [req: Request, orig: State] /\ Prepared(t.req, t.orig)
    BY <1>1 DEF StoreInv, TypeOK, FlyingOK
  <2> QED BY <2>1, FlightStable DEF Stable
<1> QED BY <1>1 DEF FlyingOK

\* An action that leaves the object and the bounds alone.
LEMMA QuietStep ==
  ASSUME StoreInv, NEW c \in Clients, NEW r \in Calls, CallOK(r),
         store' = [store EXCEPT ![c] = r], UNCHANGED base, flying' \subseteq flying,
         ncalls' \in 0..MaxCalls, nfaults' \in 0..MaxFaults
  PROVE  StoreInv'
<1>1. Stable /\ HistoryOK'
  BY BaseUnchanged DEF Stable, StoreInv
<1>2. CallOK(r)'
  BY <1>1, CallStable DEF Stable
<1>3. store' \in [Clients -> Calls] /\ CallsOK'
  BY <1>1, <1>2, Frame
<1>4. FlyingOK'
  BY <1>1, FlyingStable
<1>5. TypeOK'
  BY <1>3 DEF StoreInv, TypeOK, base, Calls
<1> QED BY <1>1, <1>3, <1>4, <1>5 DEF StoreInv

LEMMA NoCallType ==
  ASSUME NEW q \in Request
  PROVE  [NoCall EXCEPT !.req = q] \in Calls /\ NoCall \in Calls /\ Nowhere \in State
<1>1. NoRequest \in Request
  BY RequestType, StoreAssumption DEF NoRequest, Request
<1> QED BY <1>1 DEF NoCall, Calls, Nowhere, State

LEMMA InitOK == Init => StoreInv
<1> SUFFICES ASSUME Init PROVE StoreInv
  OBVIOUS
<1>1. NoRequest \in Request
  BY StoreAssumption DEF NoRequest, Request
<1>2. NoCall \in Calls /\ NoCall.pc = "idle"
  BY <1>1, NoCallType DEF NoCall
<1>3. store \in [Clients -> Calls] /\ \A c \in Clients : store[c] = NoCall
  BY <1>2 DEF Init
<1>4. CallsOK
  BY <1>2, <1>3 DEF CallsOK, CallOK
<1>5. /\ object \in [value: Values \cup {Absent}, rev: 0..revision] /\ revision \in Nat
      /\ object.rev = 0 <=> object.value = Absent
  BY StoreAssumption DEF Init
<1>6. stale \in BOOLEAN /\ (object.rev = 0 => ~stale)
  BY <1>5 DEF Init
<1>7. HistoryOK
  BY <1>5, <1>6 DEF Init, HistoryOK
<1>8. TypeOK
  BY <1>3, <1>5, <1>6, BoundAssumption DEF Init, TypeOK, Calls
<1> QED BY <1>4, <1>7, <1>8 DEF StoreInv, FlyingOK, Init

\* The call that a request begins with, and where it may go first.
Begin(o, v) == [NoCall EXCEPT !.req = [op |-> o, rv |-> v]]

LEMMA CallBegins ==
  ASSUME StoreInv, NEW o \in Ops, NEW v \in {0} \cup {h.rev : h \in history}
  PROVE  /\ Begin(o, v) \in Calls /\ Begin(o, v).answer = "none"
         /\ Begin(o, v).req = [op |-> o, rv |-> v]
         /\ o.kind = "create" => /\ Goto(Begin(o, v), "txn", Nowhere, FALSE) \in Calls
                                 /\ CallOK(Goto(Begin(o, v), "txn", Nowhere, FALSE))
         /\ Goto(Begin(o, v), "get", Nowhere, FALSE) \in Calls
         /\ CallOK(Goto(Begin(o, v), "get", Nowhere, FALSE))
         /\ \A h \in history : LET r == Loop(Begin(o, v), [value |-> h.value, rev |-> h.rev, stale |-> FALSE], TRUE)
                               IN h.value # Absent => r \in Calls /\ CallOK(r)
<1> DEFINE q == [op |-> o, rv |-> v]
           call == Begin(o, v)
<1>1. v \in Nat /\ q \in Request
  BY DEF StoreInv, TypeOK, Request
<1>2. call \in Calls /\ call.answer = "none" /\ call.req = q
  BY <1>1, NoCallType DEF Begin, NoCall
<1>3. Nowhere \in State
  BY <1>1, NoCallType
<1>4. Goto(call, "get", Nowhere, FALSE) \in Calls /\ CallOK(Goto(call, "get", Nowhere, FALSE))
  BY <1>2, <1>3 DEF Goto, Calls, CallOK
<1>5. ASSUME o.kind = "create"
      PROVE  Goto(call, "txn", Nowhere, FALSE) \in Calls /\ CallOK(Goto(call, "txn", Nowhere, FALSE))
  <2>1. /\ o.ignore /\ o.pre = Values \cup {Absent}
        /\ o.f[Absent] \in Values /\ Absent \notin Values /\ Failed \notin Values
    BY <1>5, StoreAssumption
  <2>2. Version(Nowhere)
    BY DEF Version, Nowhere, StoreInv, HistoryOK, TypeOK
  <2>3. Prepared(q, Nowhere)
    BY <2>1, <2>2 DEF Prepared, Found, Nowhere
  <2> QED BY <1>2, <1>3, <2>3 DEF Goto, Calls, CallOK
<1>6. ASSUME NEW h \in history
      PROVE  LET r == Loop(call, [value |-> h.value, rev |-> h.rev, stale |-> FALSE], TRUE)
             IN r \in Calls /\ CallOK(r)
  <2> DEFINE z == [value |-> h.value, rev |-> h.rev, stale |-> FALSE]
  <2>1. h \in [value: Values \cup {Absent}, rev: 0..revision]
    BY DEF StoreInv, TypeOK
  <2>2. z \in State
    BY <2>1 DEF State, StoreInv, TypeOK
  <2>3. Version(z)
    BY <2>1 DEF Version, StoreInv, HistoryOK, TypeOK
  <2> QED BY <1>2, <2>2, <2>3, LoopOK
<1> QED BY <1>2, <1>4, <1>5, <1>6

LEMMA CallStep ==
  ASSUME StoreInv, NEW c \in Clients, Call(c)
  PROVE  StoreInv'
<1>1. /\ UNCHANGED base /\ flying' \subseteq flying
      /\ ncalls' \in 0..MaxCalls /\ nfaults' \in 0..MaxFaults
  BY BoundAssumption DEF Call, base, StoreInv, TypeOK
<1>2. PICK r \in Calls : CallOK(r) /\ store' = [store EXCEPT ![c] = r]
  BY CallBegins DEF Call, Begin
<1> QED BY <1>1, <1>2, QuietStep

LEMMA GetStep ==
  ASSUME StoreInv, NEW c \in Clients, Get(c)
  PROVE  StoreInv'
<1>1. /\ UNCHANGED base /\ flying' \subseteq flying
      /\ ncalls' \in 0..MaxCalls /\ nfaults' \in 0..MaxFaults
  BY DEF Get, base, StoreInv, TypeOK
<1>2. store[c] \in Calls /\ store[c].answer = "none" /\ store' = [store EXCEPT ![c] = Loop(store[c], Stored, FALSE)]
  BY DEF Get, StoreInv, TypeOK, Calls, CallsOK, CallOK
<1>3. Loop(store[c], Stored, FALSE) \in Calls /\ CallOK(Loop(store[c], Stored, FALSE))
  BY <1>2, LoopOK, StoredVersion DEF StoreInv
<1> QED BY <1>1, <1>2, <1>3, QuietStep

LEMMA CheckStep ==
  ASSUME StoreInv, NEW c \in Clients, CheckData(c)
  PROVE  StoreInv'
<1>1. /\ UNCHANGED base /\ flying' \subseteq flying
      /\ ncalls' \in 0..MaxCalls /\ nfaults' \in 0..MaxFaults
  BY DEF CheckData, base, StoreInv, TypeOK
<1>2. /\ store[c] \in Calls /\ store[c].answer = "none" /\ store[c].pc = "check"
      /\ Kept(store[c].req, store[c].orig)
  BY DEF CheckData, StoreInv, TypeOK, Calls, CallsOK, CallOK
<1>3. Stored \in State /\ Version(Stored)
  BY StoredVersion DEF StoreInv
<1>4. Loop(store[c], Stored, FALSE) \in Calls /\ CallOK(Loop(store[c], Stored, FALSE))
  BY <1>2, <1>3, LoopOK
<1>5. Answered(store[c], "ok") \in Calls /\ CallOK(Answered(store[c], "ok"))
  BY <1>2 DEF Answered, Calls, CallOK
<1>6. ASSUME object.value = store[c].orig.value, stale
      PROVE  Goto(store[c], "txn", Stored, FALSE) \in Calls /\ CallOK(Goto(store[c], "txn", Stored, FALSE))
  <2>1. store[c].req \in Request /\ object.value \in Values \cup {Absent}
    BY <1>2 DEF Calls, StoreInv, TypeOK
  <2>2. Stored.value = object.value /\ Stored.stale
    BY <1>6 DEF Stored
  <2>3. Prepared(store[c].req, Stored)
    BY <1>2, <1>3, <1>6, <2>1, <2>2, RequestType DEF Prepared, Kept, Found
  <2> QED BY <1>2, <1>3, <2>3 DEF Goto, Calls, CallOK
<1>7. PICK r \in Calls : CallOK(r) /\ store' = [store EXCEPT ![c] = r]
  BY <1>4, <1>5, <1>6 DEF CheckData
<1> QED BY <1>1, <1>7, QuietStep

LEMMA FinishStep ==
  ASSUME StoreInv, NEW c \in Clients, Finish(c)
  PROVE  StoreInv'
<1> DEFINE r == [store[c] EXCEPT !.pc = "idle"]
<1>1. /\ UNCHANGED base /\ flying' \subseteq flying
      /\ ncalls' \in 0..MaxCalls /\ nfaults' \in 0..MaxFaults
  BY DEF Finish, base, StoreInv, TypeOK
<1>2. store[c] \in Calls
  BY DEF StoreInv, TypeOK, Calls
<1>3. r \in Calls /\ CallOK(r)
  BY <1>2 DEF Calls, CallOK
<1>4. store' = [store EXCEPT ![c] = r]
  BY DEF Finish
<1> QED BY <1>1, <1>3, <1>4, QuietStep

LEMMA CommitStep ==
  ASSUME StoreInv, NEW c \in Clients, Commit(c)
  PROVE  StoreInv'
<1>1. /\ flying' \subseteq flying /\ UNCHANGED flying
      /\ ncalls' \in 0..MaxCalls /\ nfaults' \in 0..MaxFaults
  BY DEF Commit, StoreInv, TypeOK
<1>2. /\ store[c] \in Calls /\ store[c].answer = "none" /\ store[c].pc = "txn"
      /\ store[c].req \in Request /\ store[c].orig \in State
      /\ Prepared(store[c].req, store[c].orig)
  BY DEF Commit, StoreInv, TypeOK, Calls, CallsOK, CallOK
<1>3. \A a \in {"ok", "refused"} : Answered(store[c], a) \in Calls /\ CallOK(Answered(store[c], a))
                                   /\ Answered(store[c], a).pc = "done"
  BY <1>2 DEF Answered, Calls, CallOK
<1>4. CASE Unchanged(store[c].orig) /\ Put(store[c].req, store[c].orig)
           /\ store' = [store EXCEPT ![c] = Answered(store[c], "ok")]
  <2>1. /\ object' \in [value: Values \cup {Absent}, rev: 0..revision'] /\ revision' \in Nat
        /\ object'.rev = 0 <=> object'.value = Absent
        /\ stale' \in BOOLEAN /\ history' \subseteq [value: Values \cup {Absent}, rev: 0..revision']
        /\ HistoryOK' /\ Stable
    BY <1>2, <1>4, PutOK DEF StoreInv, Stable
  <2>2. PICK r \in Calls : r = Answered(store[c], "ok") /\ CallOK(r)
    BY <1>3
  <2>3. CallOK(r)'
    BY <2>1, <2>2, CallStable DEF Stable
  <2>4. store' \in [Clients -> Calls] /\ CallsOK'
    BY <1>4, <2>1, <2>2, <2>3, Frame
  <2>5. FlyingOK'
    BY <1>1, <2>1, FlyingStable
  <2>6. TypeOK'
    BY <1>1, <2>1, <2>4 DEF StoreInv, TypeOK, Calls
  <2> QED BY <2>1, <2>4, <2>5, <2>6 DEF StoreInv
<1>5. CASE UNCHANGED base /\ store' = [store EXCEPT ![c] =
             IF store[c].req.op.kind = "create" THEN Answered(store[c], "refused")
             ELSE Loop(store[c], Stored, FALSE)]
  <2>1. Loop(store[c], Stored, FALSE) \in Calls /\ CallOK(Loop(store[c], Stored, FALSE))
    BY <1>2, LoopOK, StoredVersion DEF StoreInv
  <2> QED BY <1>1, <1>3, <1>5, <2>1, QuietStep
<1> QED BY <1>4, <1>5 DEF Commit, base

LEMMA FailStep ==
  ASSUME StoreInv, NEW c \in Clients, Fail(c)
  PROVE  StoreInv'
<1> DEFINE call == store[c]
           t == [req |-> call.req, orig |-> call.orig]
<1>1. /\ UNCHANGED base /\ ncalls' \in 0..MaxCalls /\ nfaults' \in 0..MaxFaults
      /\ store' = [store EXCEPT ![c] = Answered(call, "error")]
  BY BoundAssumption DEF Fail, base, StoreInv, TypeOK
<1>2. call \in Calls /\ CallOK(call)
  BY DEF StoreInv, TypeOK, Calls, CallsOK
<1>3. flying' \subseteq flying \/ (flying' = flying \cup {t} /\ call.pc = "txn")
  <2>1. flying' \in {flying} \cup IF call.pc = "txn" THEN {flying \cup {t}} ELSE {}
    BY DEF Fail
  <2>2. CASE call.pc = "txn"
    BY <2>1, <2>2
  <2>3. CASE call.pc # "txn"
    BY <2>1, <2>3
  <2> QED BY <2>2, <2>3
<1>4. PICK r \in Calls : r = Answered(call, "error") /\ CallOK(r)
  <2>1. Answered(call, "error") \in Calls /\ Answered(call, "error").pc = "done"
    BY <1>2 DEF Answered, Calls
  <2>2. CallOK(Answered(call, "error"))
    BY <2>1 DEF CallOK
  <2> QED BY <2>1, <2>2
<1>5. Stable /\ HistoryOK'
  BY <1>1, BaseUnchanged DEF Stable, StoreInv
<1>6. CallOK(r)'
  BY <1>4, <1>5, CallStable DEF Stable
<1>7. store' \in [Clients -> Calls] /\ CallsOK'
  BY <1>1, <1>4, <1>5, <1>6, Frame
<1>8. FlyingOK' /\ flying' \subseteq [req: Request, orig: State]
  <2>1. CASE flying' \subseteq flying
    BY <1>5, <2>1, FlyingStable DEF StoreInv, TypeOK
  <2>2. CASE flying' = flying \cup {t} /\ call.pc = "txn"
    <3>1. /\ t \in [req: Request, orig: State]
          /\ t.req = call.req /\ t.orig = call.orig
          /\ Prepared(call.req, call.orig)
      BY <1>2, <2>2 DEF Calls, CallOK
    <3>2. flying' \subseteq [req: Request, orig: State]
      BY <2>2, <3>1 DEF StoreInv, TypeOK
    <3>3. ASSUME NEW x \in flying' PROVE Prepared(x.req, x.orig)'
      <4>1. x \in [req: Request, orig: State] /\ Prepared(x.req, x.orig)
        BY <2>2, <3>1, <3>2, <3>3 DEF StoreInv, FlyingOK
      <4> QED BY <1>5, <4>1, FlightStable DEF Stable
    <3> QED BY <3>2, <3>3 DEF FlyingOK
  <2> QED BY <1>3, <2>1, <2>2
<1>9. TypeOK'
  BY <1>1, <1>7, <1>8 DEF StoreInv, TypeOK, Calls, base
<1> QED BY <1>5, <1>7, <1>8, <1>9 DEF StoreInv

LEMMA LandStep ==
  ASSUME StoreInv, NEW t \in flying, Land(t)
  PROVE  StoreInv'
<1>1. flying' \subseteq flying /\ UNCHANGED <<store, ncalls, nfaults>>
  BY DEF Land
<1>2. t.req \in Request /\ t.orig \in State /\ Prepared(t.req, t.orig)
  BY DEF StoreInv, TypeOK, FlyingOK
<1>3. /\ object' \in [value: Values \cup {Absent}, rev: 0..revision'] /\ revision' \in Nat
      /\ object'.rev = 0 <=> object'.value = Absent
      /\ stale' \in BOOLEAN /\ history' \subseteq [value: Values \cup {Absent}, rev: 0..revision']
      /\ HistoryOK' /\ Stable
  <2>1. CASE Put(t.req, t.orig)
    BY <1>2, <2>1, PutOK DEF StoreInv, Stable
  <2>2. CASE UNCHANGED base
    <3>1. HistoryOK' /\ Stable
      BY <2>2, BaseUnchanged DEF StoreInv, Stable
    <3> QED BY <2>2, <3>1 DEF StoreInv, TypeOK, base
  <2> QED BY <2>1, <2>2 DEF Land, base
<1>4. CallsOK'
  <2>1. ASSUME NEW d \in Clients PROVE CallOK(store[d])'
    <3>1. store[d] \in Calls /\ CallOK(store[d])
      BY DEF StoreInv, TypeOK, Calls, CallsOK
    <3>2. PICK e \in Calls : e = store[d] /\ CallOK(e)
      BY <3>1
    <3>3. CallOK(e)'
      BY <1>3, <3>2, CallStable DEF Stable
    <3>4. store'[d] = e
      BY <1>1, <3>2
    <3> QED BY <3>3, <3>4 DEF CallOK, Prepared, Kept, Version, Found
  <2> QED BY <2>1 DEF CallsOK
<1>5. FlyingOK'
  BY <1>1, <1>3, FlyingStable
<1>6. TypeOK'
  BY <1>1, <1>3 DEF StoreInv, TypeOK
<1> QED BY <1>3, <1>4, <1>5, <1>6 DEF StoreInv

LEMMA StutterStep ==
  ASSUME StoreInv, UNCHANGED vars
  PROVE  StoreInv'
BY ZenonT(30)
   DEF StoreInv, vars, TypeOK, HistoryOK, CallsOK, CallOK, FlyingOK, Prepared, Kept, Version, Found

\* The inductive invariant of the store: a transaction that finds its revision
\* may do what was decided when it was prepared, whoever else writes meanwhile.
THEOREM StoreInvariant == Spec => []StoreInv
<1>1. StoreInv /\ [Next]_vars => StoreInv'
  BY CallStep, GetStep, CheckStep, CommitStep, FinishStep, FailStep, LandStep, StutterStep
     DEF Next, Step
<1> QED BY <1>1, InitOK, PTL DEF Spec

\* The types of the store's variables; an object that is stored has a revision
\* up to the last one, and there is one if and only if its revision is not 0.
THEOREM StoreTypeCorrect == Spec => []TypeOK
<1>1. StoreInv => TypeOK
  BY DEF StoreInv
<1> QED BY <1>1, StoreInvariant, PTL

-----------------------------------------------------------------------------
(* What transactions do: no needless write, and the effect of the request. *)

\* A transaction that is carried out has the effect of its request on the
\* object as it is then, and changes its value or encrypts it again.
LEMMA TransactionEffect ==
  ASSUME StoreInv, NEW q \in Request, NEW s \in State, Prepared(q, s), Unchanged(s), Put(q, s)
  PROVE  A!Effect(q) /\ (object'.value = object.value => stale)
<1>1. s.value = object.value /\ (s.stale => stale) /\ s.rev = object.rev
  BY SameVersion DEF StoreInv, Prepared, Unchanged
<1>2. object'.value = q.op.f[object.value]
  BY <1>1 DEF Put
<1>3. object'.value = object.value => stale
  BY <1>1, <1>2 DEF Prepared
<1>4. ~A!NotFound(q) /\ A!Met(q) /\ A!Accepts(q)
  BY <1>1 DEF Prepared, Found, A!NotFound, A!Met, A!Result, A!Keeps, A!Accepts, A!Expected
<1>5. /\ revision' = revision + 1
      /\ object' = [value |-> A!Result(q), rev |-> IF A!Result(q) = Absent THEN 0 ELSE revision']
  BY <1>1 DEF Put, A!Result
<1> QED BY <1>3, <1>4, <1>5 DEF A!Effect

\* "If the object to update has the same value as previous, it won't do any
\* update", for any clients, objects, operations and bounds: a write that leaves
\* the value as it was only encrypts it with the new key.
THEOREM NeverWritesNeedlessly == Spec => NoNeedlessWrite
<1>1. StoreInv /\ [Next]_vars => [revision' # revision /\ object'.value = object.value => stale]_vars
  <2> SUFFICES ASSUME StoreInv, Next, revision' # revision
               PROVE  object'.value = object.value => stale
    BY DEF vars
  <2>1. ASSUME NEW c \in Clients, Commit(c) PROVE object'.value = object.value => stale
    <3>1. /\ store[c].req \in Request /\ store[c].orig \in State
          /\ Prepared(store[c].req, store[c].orig)
          /\ Unchanged(store[c].orig) /\ Put(store[c].req, store[c].orig)
      BY <2>1 DEF Commit, StoreInv, TypeOK, CallsOK, CallOK
    <3> QED BY <3>1, TransactionEffect
  <2>2. ASSUME NEW t \in flying, Land(t) PROVE object'.value = object.value => stale
    <3>1. /\ t.req \in Request /\ t.orig \in State
          /\ Prepared(t.req, t.orig) /\ Unchanged(t.orig) /\ Put(t.req, t.orig)
      BY <2>2 DEF Land, StoreInv, TypeOK, FlyingOK
    <3> QED BY <3>1, TransactionEffect
  <2> QED BY <2>1, <2>2 DEF Next, Step, Call, Get, CheckData, Finish, Fail
<1> QED BY <1>1, StoreInvariant, PTL DEF Spec, NoNeedlessWrite

-----------------------------------------------------------------------------
(* The refinement: how a step of a call looks to its caller. *)

Busy == {"get", "check", "txn"}

View(call) == [pc |-> IF call.pc \in Busy THEN "called" ELSE call.pc,
               req |-> call.req, answer |-> call.answer]

LEMMA SeenStep ==
  ASSUME StoreInv, NEW c \in Clients, NEW r \in Calls, store' = [store EXCEPT ![c] = r]
  PROVE  /\ SeenCalls' = [SeenCalls EXCEPT ![c] = View(r)]
         /\ SeenCalls = [d \in Clients |-> View(store[d])]
         /\ SeenCalls[c] = View(store[c])
         /\ SeenCalls'[c] = View(r)
<1>1. store \in [Clients -> Calls]
  BY DEF StoreInv, TypeOK, Calls
<1>2. SeenCalls = [d \in Clients |-> View(store[d])]
  BY DEF SeenCalls, View, Busy
<1>3. SeenCalls' = [d \in Clients |-> View(store'[d])]
  BY DEF SeenCalls, View, Busy
<1>4. SeenCalls' = [SeenCalls EXCEPT ![c] = View(r)]
  BY <1>1, <1>2, <1>3
<1> QED BY <1>1, <1>2, <1>4

\* A call that is under way is answered.
LEMMA SeenAnswer ==
  ASSUME StoreInv, NEW c \in Clients, store[c].pc \in Busy,
         NEW a \in {"ok", "notfound", "precondition", "refused", "error"},
         store' = [store EXCEPT ![c] = Answered(store[c], a)]
  PROVE  A!Answer(c, a) /\ SeenCalls[c].pc = "called" /\ SeenCalls[c].req = store[c].req
<1>1. store[c] \in Calls
  BY DEF StoreInv, TypeOK, Calls
<1>2. Answered(store[c], a) \in Calls
  BY <1>1 DEF Answered, Calls
<1>3. /\ Answered(store[c], a).pc = "done" /\ Answered(store[c], a).answer = a
      /\ Answered(store[c], a).req = store[c].req
  BY <1>1 DEF Answered, Calls
<1>4. View(Answered(store[c], a)) = [pc |-> "done", req |-> store[c].req, answer |-> a]
  BY <1>3 DEF View, Busy
<1>5. View(store[c]) = [pc |-> "called", req |-> store[c].req, answer |-> store[c].answer]
  BY DEF View
<1>6. SeenCalls' = [SeenCalls EXCEPT ![c] = [pc |-> "done", req |-> store[c].req, answer |-> a]]
  BY <1>2, <1>4, SeenStep
<1>7. SeenCalls[c] = [pc |-> "called", req |-> store[c].req, answer |-> store[c].answer]
  BY <1>2, <1>5, SeenStep
<1>8. SeenCalls' = [SeenCalls EXCEPT ![c].pc = "done", ![c].answer = a]
  BY <1>6, <1>7 DEF SeenCalls
<1> QED BY <1>7, <1>8 DEF A!Answer

\* A call goes on, unseen by its caller.
LEMMA SeenNothing ==
  ASSUME StoreInv, NEW c \in Clients, store[c].pc \in Busy, NEW r \in Calls,
         r.pc \in Busy, r.req = store[c].req, r.answer = store[c].answer,
         store' = [store EXCEPT ![c] = r]
  PROVE  SeenCalls' = SeenCalls
<1>1. View(r) = View(store[c])
  BY DEF View
<1>2. /\ SeenCalls' = [SeenCalls EXCEPT ![c] = View(r)]
      /\ SeenCalls = [d \in Clients |-> View(store[d])]
      /\ SeenCalls[c] = View(store[c])
  BY SeenStep
<1> QED BY <1>1, <1>2

\* A call begins.
LEMMA SeenInvoke ==
  ASSUME StoreInv, NEW c \in Clients, store[c].pc = "idle", NEW r \in Calls,
         r.pc \in Busy, r.answer = "none",
         store' = [store EXCEPT ![c] = r], UNCHANGED <<object, revision, flying>>
  PROVE  A!Invoke(c)
<1>1. View(r) = [pc |-> "called", req |-> r.req, answer |-> "none"]
  BY DEF View
<1>2. SeenCalls[c].pc = "idle"
  <2>1. SeenCalls[c] = View(store[c])
    BY SeenStep
  <2>2. View(store[c]) = [pc |-> "idle", req |-> store[c].req, answer |-> store[c].answer]
    BY DEF View, Busy
  <2> QED BY <2>1, <2>2
<1>3. SeenCalls'[c] = View(r) /\ SeenCalls' = [SeenCalls EXCEPT ![c] = View(r)]
  BY SeenStep
<1>4. SeenCalls'[c].req = r.req /\ r.req \in Request
  BY <1>1, <1>3 DEF Calls
<1>5. Late' = Late
  BY DEF Late
<1> QED BY <1>1, <1>2, <1>3, <1>4, <1>5 DEF A!Invoke, A!Request, Request

\* A call is mistaken about its precondition.
LEMMA SeenMistake ==
  ASSUME StoreInv, NEW c \in Clients, store[c].pc = "idle", NEW r \in Calls,
         r.pc = "done", r.answer = "precondition", r.req.op.pre # Values \cup {Absent},
         store' = [store EXCEPT ![c] = r], UNCHANGED <<object, revision, flying>>
  PROVE  A!Mistake(c)
<1>1. View(r) = [pc |-> "done", req |-> r.req, answer |-> "precondition"]
  BY DEF View, Busy
<1>2. SeenCalls[c].pc = "idle"
  <2>1. SeenCalls[c] = View(store[c])
    BY SeenStep
  <2>2. View(store[c]) = [pc |-> "idle", req |-> store[c].req, answer |-> store[c].answer]
    BY DEF View, Busy
  <2> QED BY <2>1, <2>2
<1>3. SeenCalls'[c] = View(r) /\ SeenCalls' = [SeenCalls EXCEPT ![c] = View(r)]
  BY SeenStep
<1>4. SeenCalls'[c].req = r.req /\ r.req \in Request
  BY <1>1, <1>3 DEF Calls
<1>5. Late' = Late
  BY DEF Late
<1> QED BY <1>1, <1>2, <1>3, <1>4, <1>5 DEF A!Mistake, A!Request, Request

\* A call looks at what is stored: it is answered as the stored object
\* justifies, or goes on.
LEMMA LoopSeen ==
  ASSUME StoreInv, NEW c \in Clients, store[c].pc \in Busy,
         store' = [store EXCEPT ![c] = Loop(store[c], Stored, FALSE)],
         UNCHANGED <<object, revision, flying>>
  PROVE  A!ApplyNothing(c) \/ UNCHANGED A!atomicVars
<1> DEFINE q == store[c].req
           r == Loop(store[c], Stored, FALSE)
<1>1. store[c] \in Calls /\ q \in Request
  BY DEF StoreInv, TypeOK, Calls
<1>2. /\ Stored \in State /\ Stored.value = object.value /\ Stored.rev = object.rev
      /\ object.value \in Values \cup {Absent}
  BY StoredVersion DEF StoreInv, Stored, TypeOK
<1>3. Late' = Late
  BY DEF Late
<1>4. object.value # Failed
  BY <1>1, <1>2, RequestType
<1>5. \/ r = Answered(store[c], "notfound") /\ A!NotFound(q)
      \/ r = Answered(store[c], "precondition") /\ ~A!Met(q)
      \/ r = Answered(store[c], "refused") /\ (A!Result(q) = Failed \/ ~A!Expected(q, object.rev))
      \/ r = Answered(store[c], "ok") /\ ~A!NotFound(q) /\ A!Met(q) /\ A!Accepts(q) /\ A!Keeps(q)
      \/ r = Goto(store[c], "txn", Stored, FALSE)
  BY <1>1, <1>2, <1>4, LoopOutcome
     DEF Found, Kept, A!NotFound, A!Met, A!Result, A!Keeps, A!Accepts, A!Expected
<1>6. CASE r = Goto(store[c], "txn", Stored, FALSE)
  <2>1. /\ r \in Calls /\ r.pc \in Busy /\ r.req = q /\ r.answer = store[c].answer
    BY <1>1, <1>2, <1>6 DEF Goto, Calls, Busy
  <2>2. SeenCalls' = SeenCalls
    BY <2>1, SeenNothing
  <2> QED BY <1>3, <2>2 DEF A!atomicVars
<1>7. ASSUME NEW a \in {"ok", "notfound", "precondition", "refused"}, r = Answered(store[c], a)
      PROVE  A!Answer(c, a) /\ SeenCalls[c].pc = "called" /\ SeenCalls[c].req = q
  BY <1>7, SeenAnswer
<1>8. CASE r = Answered(store[c], "notfound") /\ A!NotFound(q)
  BY <1>3, <1>7, <1>8 DEF A!ApplyNothing
<1>9. CASE r = Answered(store[c], "precondition") /\ ~A!Met(q)
  BY <1>3, <1>7, <1>9 DEF A!ApplyNothing
<1>10. CASE r = Answered(store[c], "refused") /\ (A!Result(q) = Failed \/ ~A!Expected(q, object.rev))
  BY <1>3, <1>7, <1>10 DEF A!ApplyNothing
<1>11. CASE r = Answered(store[c], "ok") /\ ~A!NotFound(q) /\ A!Met(q) /\ A!Accepts(q) /\ A!Keeps(q)
  BY <1>3, <1>7, <1>11 DEF A!ApplyNothing
<1> QED BY <1>5, <1>6, <1>8, <1>9, <1>10, <1>11

LEMMA CallRefines ==
  ASSUME StoreInv, NEW c \in Clients, Call(c)
  PROVE  A!Invoke(c) \/ A!Mistake(c)
<1>1. store[c].pc = "idle" /\ UNCHANGED <<object, revision, flying>>
  BY DEF Call
<1>2. ASSUME NEW o \in Ops, NEW v \in {0} \cup {h.rev : h \in history}
      PROVE  /\ Goto(Begin(o, v), "txn", Nowhere, FALSE).pc \in Busy
             /\ Goto(Begin(o, v), "txn", Nowhere, FALSE).answer = "none"
             /\ Goto(Begin(o, v), "get", Nowhere, FALSE).pc \in Busy
             /\ Goto(Begin(o, v), "get", Nowhere, FALSE).answer = "none"
  BY DEF Begin, NoCall, Goto, Busy
<1>3. ASSUME NEW o \in Ops, NEW v \in {0} \cup {h.rev : h \in history}, NEW h \in history,
             h.value # Absent
      PROVE  LET r == Loop(Begin(o, v), [value |-> h.value, rev |-> h.rev, stale |-> FALSE], TRUE)
             IN \/ r.pc \in Busy /\ r.answer = "none"
                \/ r.pc = "done" /\ r.answer = "precondition" /\ r.req.op.pre # Values \cup {Absent}
  <2> DEFINE z == [value |-> h.value, rev |-> h.rev, stale |-> FALSE]
             call == Begin(o, v)
             r == Loop(call, z, TRUE)
  <2>1. h \in [value: Values \cup {Absent}, rev: 0..revision] /\ revision \in Nat
    BY DEF StoreInv, TypeOK
  <2>2. z \in State /\ z.value = h.value
    BY <2>1 DEF State
  <2>3. call \in Calls /\ call.answer = "none"
    BY CallBegins
  <2>4. \/ r = Answered(call, "precondition") /\ h.value \notin call.req.op.pre
        \/ r \in {Goto(call, "get", z, FALSE), Goto(call, "check", z, TRUE), Goto(call, "txn", z, TRUE)}
    BY <1>3, <2>2, <2>3, LoopOutcome DEF Found
  <2>5. CASE r = Answered(call, "precondition") /\ h.value \notin call.req.op.pre
    <3>1. r.pc = "done" /\ r.answer = "precondition" /\ r.req = call.req
      BY <2>3, <2>5 DEF Answered, Calls
    <3> QED BY <2>1, <2>5, <3>1
  <2>6. CASE r \in {Goto(call, "get", z, FALSE), Goto(call, "check", z, TRUE), Goto(call, "txn", z, TRUE)}
    BY <2>3, <2>6 DEF Goto, Calls, Busy
  <2> QED BY <2>4, <2>5, <2>6
<1>4. PICK r \in Calls :
         /\ store' = [store EXCEPT ![c] = r]
         /\ \/ r.pc \in Busy /\ r.answer = "none"
            \/ r.pc = "done" /\ r.answer = "precondition" /\ r.req.op.pre # Values \cup {Absent}
  <2>1. PICK o \in Ops, v \in {0} \cup {h.rev : h \in history} :
           \/ o.kind = "create" /\ store' = [store EXCEPT ![c] = Goto(Begin(o, v), "txn", Nowhere, FALSE)]
           \/ store' = [store EXCEPT ![c] = Goto(Begin(o, v), "get", Nowhere, FALSE)]
           \/ \E h \in history : /\ h.value # Absent
                                 /\ store' = [store EXCEPT ![c] =
                                      Loop(Begin(o, v), [value |-> h.value, rev |-> h.rev, stale |-> FALSE], TRUE)]
    BY DEF Call, Begin
  <2>2. CASE o.kind = "create" /\ store' = [store EXCEPT ![c] = Goto(Begin(o, v), "txn", Nowhere, FALSE)]
    <3>1. /\ Goto(Begin(o, v), "txn", Nowhere, FALSE) \in Calls
          /\ Goto(Begin(o, v), "txn", Nowhere, FALSE).pc \in Busy
          /\ Goto(Begin(o, v), "txn", Nowhere, FALSE).answer = "none"
      BY <1>2, <2>2, CallBegins
    <3> QED BY <2>2, <3>1
  <2>3. CASE store' = [store EXCEPT ![c] = Goto(Begin(o, v), "get", Nowhere, FALSE)]
    <3>1. /\ Goto(Begin(o, v), "get", Nowhere, FALSE) \in Calls
          /\ Goto(Begin(o, v), "get", Nowhere, FALSE).pc \in Busy
          /\ Goto(Begin(o, v), "get", Nowhere, FALSE).answer = "none"
      BY <1>2, <2>3, CallBegins
    <3> QED BY <2>3, <3>1
  <2>4. ASSUME NEW h \in history, h.value # Absent,
               store' = [store EXCEPT ![c] =
                  Loop(Begin(o, v), [value |-> h.value, rev |-> h.rev, stale |-> FALSE], TRUE)]
        PROVE  \E r \in Calls :
                 /\ store' = [store EXCEPT ![c] = r]
                 /\ \/ r.pc \in Busy /\ r.answer = "none"
                    \/ r.pc = "done" /\ r.answer = "precondition" /\ r.req.op.pre # Values \cup {Absent}
    <3> DEFINE r == Loop(Begin(o, v), [value |-> h.value, rev |-> h.rev, stale |-> FALSE], TRUE)
    <3>1. r \in Calls
      BY <2>4, CallBegins
    <3>2. \/ r.pc \in Busy /\ r.answer = "none"
          \/ r.pc = "done" /\ r.answer = "precondition" /\ r.req.op.pre # Values \cup {Absent}
      BY <1>3, <2>4
    <3>3. store' = [store EXCEPT ![c] = r]
      BY <2>4
    <3> HIDE DEF r
    <3> QED BY <3>1, <3>2, <3>3
  <2> QED BY <2>1, <2>2, <2>3, <2>4
<1>5. CASE r.pc \in Busy /\ r.answer = "none"
  BY <1>1, <1>4, <1>5, SeenInvoke
<1>6. CASE r.pc = "done" /\ r.answer = "precondition" /\ r.req.op.pre # Values \cup {Absent}
  BY <1>1, <1>4, <1>6, SeenMistake
<1> QED BY <1>4, <1>5, <1>6

LEMMA CheckRefines ==
  ASSUME StoreInv, NEW c \in Clients, CheckData(c)
  PROVE  A!ApplyNothing(c) \/ UNCHANGED A!atomicVars
<1> DEFINE q == store[c].req
<1>1. /\ store[c] \in Calls /\ store[c].pc \in Busy /\ store[c].pc = "check"
      /\ q \in Request /\ Kept(q, store[c].orig) /\ store[c].answer = "none"
      /\ UNCHANGED <<object, revision, flying>> /\ Late' = Late
  BY DEF CheckData, StoreInv, TypeOK, Calls, CallsOK, CallOK, Busy, Late
<1>2. CASE store' = [store EXCEPT ![c] = Loop(store[c], Stored, FALSE)]
  BY <1>1, <1>2, LoopSeen
<1>3. CASE store' = [store EXCEPT ![c] = Goto(store[c], "txn", Stored, FALSE)]
  <2>1. Stored \in State
    BY StoredVersion DEF StoreInv
  <2>2. PICK r \in Calls : /\ r = Goto(store[c], "txn", Stored, FALSE)
                           /\ r.pc \in Busy /\ r.req = q /\ r.answer = store[c].answer
    <3> DEFINE g == Goto(store[c], "txn", Stored, FALSE)
    <3>1. g \in Calls /\ g.pc \in Busy /\ g.req = q /\ g.answer = store[c].answer
      BY <1>1, <2>1 DEF Goto, Calls, Busy
    <3> HIDE DEF g
    <3> QED BY <3>1 DEF g
  <2>3. SeenCalls' = SeenCalls
    BY <1>1, <1>3, <2>2, SeenNothing
  <2> QED BY <1>1, <2>3 DEF A!atomicVars
<1>4. CASE /\ object.value = store[c].orig.value
           /\ store' = [store EXCEPT ![c] = Answered(store[c], "ok")]
  <2>1. object.value \in Values \cup {Absent} /\ object.value # Failed
    BY <1>1, RequestType DEF StoreInv, TypeOK
  <2>2. ~A!NotFound(q) /\ A!Met(q) /\ A!Accepts(q) /\ A!Keeps(q)
    BY <1>1, <1>4, <2>1 DEF Kept, Found, A!NotFound, A!Met, A!Result, A!Keeps, A!Accepts
  <2>3. A!Answer(c, "ok") /\ SeenCalls[c].pc = "called" /\ SeenCalls[c].req = q
    BY <1>1, <1>4, SeenAnswer
  <2> QED BY <1>1, <2>2, <2>3 DEF A!ApplyNothing
<1>5. \/ store' = [store EXCEPT ![c] = Loop(store[c], Stored, FALSE)]
      \/ store' = [store EXCEPT ![c] = Goto(store[c], "txn", Stored, FALSE)]
      \/ /\ object.value = store[c].orig.value
         /\ store' = [store EXCEPT ![c] = Answered(store[c], "ok")]
  BY DEF CheckData
<1> QED BY <1>2, <1>3, <1>4, <1>5

LEMMA CommitRefines ==
  ASSUME StoreInv, NEW c \in Clients, Commit(c)
  PROVE  A!Apply(c) \/ A!ApplyNothing(c) \/ UNCHANGED A!atomicVars
<1> DEFINE q == store[c].req
           s == store[c].orig
<1>1. /\ store[c] \in Calls /\ store[c].pc \in Busy /\ q \in Request /\ s \in State
      /\ Prepared(q, s) /\ UNCHANGED flying /\ Late' = Late
  BY DEF Commit, StoreInv, TypeOK, Calls, CallsOK, CallOK, Busy, Late
<1>2. CASE Unchanged(s) /\ Put(q, s) /\ store' = [store EXCEPT ![c] = Answered(store[c], "ok")]
  <2>1. A!Effect(q)
    BY <1>1, <1>2, TransactionEffect
  <2>2. A!Answer(c, "ok") /\ SeenCalls[c].pc = "called" /\ SeenCalls[c].req = q
    BY <1>1, <1>2, SeenAnswer
  <2> QED BY <1>1, <2>1, <2>2 DEF A!Apply
<1>3. CASE /\ ~Unchanged(s) /\ q.op.kind = "create" /\ UNCHANGED <<object, revision>>
           /\ store' = [store EXCEPT ![c] = Answered(store[c], "refused")]
  <2>1. s.value = Absent /\ s.rev = 0
    BY <1>1, <1>3, RequestType DEF Prepared, State, Version
  <2>2. object.value \in Values
    BY <1>3, <2>1 DEF Unchanged, StoreInv, TypeOK
  <2>3. A!Result(q) = Failed
    BY <1>1, <1>3, <2>2, RequestType, StoreAssumption DEF A!Result
  <2>4. A!Answer(c, "refused") /\ SeenCalls[c].pc = "called" /\ SeenCalls[c].req = q
    BY <1>1, <1>3, SeenAnswer
  <2> QED BY <1>1, <1>3, <2>3, <2>4 DEF A!ApplyNothing
<1>4. CASE /\ UNCHANGED <<object, revision>>
           /\ store' = [store EXCEPT ![c] = Loop(store[c], Stored, FALSE)]
  BY <1>1, <1>4, LoopSeen
<1>5. \/ Unchanged(s) /\ Put(q, s) /\ store' = [store EXCEPT ![c] = Answered(store[c], "ok")]
      \/ /\ ~Unchanged(s) /\ q.op.kind = "create" /\ UNCHANGED <<object, revision>>
         /\ store' = [store EXCEPT ![c] = Answered(store[c], "refused")]
      \/ /\ UNCHANGED <<object, revision>>
         /\ store' = [store EXCEPT ![c] = Loop(store[c], Stored, FALSE)]
  BY DEF Commit
<1> QED BY <1>2, <1>3, <1>4, <1>5

LEMMA FailRefines ==
  ASSUME StoreInv, NEW c \in Clients, Fail(c)
  PROVE  A!GiveUp(c)
<1> DEFINE t == [req |-> store[c].req, orig |-> store[c].orig]
<1>1. /\ store[c].pc \in Busy /\ UNCHANGED <<object, revision>>
      /\ store' = [store EXCEPT ![c] = Answered(store[c], "error")]
  BY DEF Fail, Busy
<1>2. A!Answer(c, "error") /\ SeenCalls[c].pc = "called" /\ SeenCalls[c].req = store[c].req
  BY <1>1, SeenAnswer
<1>3. flying' = flying \/ flying' = flying \cup {t}
  <2>1. flying' \in {flying} \cup IF store[c].pc = "txn" THEN {flying \cup {t}} ELSE {}
    BY DEF Fail
  <2> QED BY <2>1
<1>4. flying' = flying => Late' = Late
  BY DEF Late
<1>5. flying' = flying \cup {t} => Late' = Late \cup {store[c].req}
  <2>1. t.req = store[c].req
    OBVIOUS
  <2> HIDE DEF t
  <2> QED BY <2>1 DEF Late
<1> QED BY <1>1, <1>2, <1>3, <1>4, <1>5 DEF A!GiveUp

LEMMA LandRefines ==
  ASSUME StoreInv, NEW t \in flying, Land(t)
  PROVE  \/ \E q \in Late : A!TakeEffectLate(q) \/ A!Disappear(q)
         \/ UNCHANGED A!atomicVars
<1>1. /\ t.req \in Late /\ SeenCalls' = SeenCalls /\ flying' = flying \ {t}
      /\ t.req \in Request /\ t.orig \in State /\ Prepared(t.req, t.orig)
  BY DEF Land, Late, SeenCalls, StoreInv, TypeOK, FlyingOK
<1>2. Late' = Late \/ Late' = Late \ {t.req}
  <2>1. CASE \E u \in flying \ {t} : u.req = t.req
    BY <1>1, <2>1 DEF Late
  <2>2. CASE ~\E u \in flying \ {t} : u.req = t.req
    BY <1>1, <2>2 DEF Late
  <2> QED BY <2>1, <2>2
<1>3. CASE Unchanged(t.orig) /\ Put(t.req, t.orig)
  <2>1. A!Effect(t.req)
    BY <1>1, <1>3, TransactionEffect
  <2> QED BY <1>1, <1>2, <2>1 DEF A!TakeEffectLate
<1>4. CASE UNCHANGED <<object, revision>>
  BY <1>1, <1>2, <1>4 DEF A!Disappear, A!atomicVars
<1> QED BY <1>3, <1>4 DEF Land

LEMMA FinishRefines ==
  ASSUME StoreInv, NEW c \in Clients, Finish(c)
  PROVE  A!Return(c)
<1> DEFINE r == [store[c] EXCEPT !.pc = "idle"]
<1>1. /\ store[c] \in Calls /\ store[c].pc = "done" /\ store' = [store EXCEPT ![c] = r]
      /\ UNCHANGED <<object, revision>> /\ Late' = Late
  BY DEF Finish, StoreInv, TypeOK, Calls, Late
<1>2. r \in Calls
  BY <1>1 DEF Calls
<1>3. View(r) = [pc |-> "idle", req |-> store[c].req, answer |-> store[c].answer]
  BY <1>1 DEF View, Busy, Calls
<1>4. View(store[c]) = [pc |-> "done", req |-> store[c].req, answer |-> store[c].answer]
  BY <1>1 DEF View, Busy
<1>5. /\ SeenCalls' = [SeenCalls EXCEPT ![c] = View(r)]
      /\ SeenCalls[c] = View(store[c])
  BY <1>1, <1>2, SeenStep
<1>6. SeenCalls' = [SeenCalls EXCEPT ![c].pc = "idle"]
  <2>1. SeenCalls[c] = [pc |-> "done", req |-> store[c].req, answer |-> store[c].answer]
    BY <1>4, <1>5
  <2>2. SeenCalls' = [SeenCalls EXCEPT ![c] = [pc |-> "idle", req |-> store[c].req, answer |-> store[c].answer]]
    BY <1>3, <1>5
  <2> QED BY <2>1, <2>2 DEF SeenCalls
<1>7. SeenCalls[c].pc = "done"
  BY <1>4, <1>5
<1> QED BY <1>1, <1>6, <1>7 DEF A!Return

\* Every Create, GuaranteedUpdate and Delete of the etcd3 store is one atomic step
\* on the object as it is at some moment between call and return, although it may
\* start from an old object, meet conflicts, or land after it was given up: for any
\* clients, objects, operations and bounds.
THEOREM StoreIsAtomic == Spec => Atomic
<1>1. Init => A!AtomicInit
  <2> SUFFICES ASSUME Init PROVE A!AtomicInit
    OBVIOUS
  <2>1. SeenCalls = [c \in Clients |-> [pc |-> "idle", req |-> NoRequest, answer |-> "none"]]
    BY DEF Init, SeenCalls, NoCall
  <2>2. Late = {}
    BY DEF Init, Late
  <2> QED BY <2>1, <2>2 DEF Init, A!AtomicInit, A!NoRequest, NoRequest
<1>2. StoreInv /\ [Next]_vars => [A!AtomicNext]_(A!atomicVars)
  <2> SUFFICES ASSUME StoreInv, [Next]_vars PROVE A!AtomicNext \/ UNCHANGED A!atomicVars
    OBVIOUS
  <2>1. CASE UNCHANGED vars
    BY <2>1 DEF vars, A!atomicVars, SeenCalls, Late
  <2>2. ASSUME NEW c \in Clients, Get(c) PROVE A!ApplyNothing(c) \/ UNCHANGED A!atomicVars
    BY <2>2, LoopSeen DEF Get, Busy
  <2>3. ASSUME NEW c \in Clients, Call(c) \/ Step(c) \/ Fail(c)
        PROVE  A!AtomicNext \/ UNCHANGED A!atomicVars
    BY <2>2, <2>3, CallRefines, CheckRefines, CommitRefines, FinishRefines, FailRefines
       DEF A!AtomicNext, Step
  <2>4. ASSUME NEW t \in flying, Land(t) PROVE A!AtomicNext \/ UNCHANGED A!atomicVars
    BY <2>4, LandRefines DEF A!AtomicNext
  <2> QED BY <2>1, <2>3, <2>4 DEF Next
<1> QED BY <1>1, <1>2, StoreInvariant, PTL DEF Spec, Atomic, A!AtomicSpec
=============================================================================
