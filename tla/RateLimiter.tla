---------------------------- MODULE RateLimiter ----------------------------
(***************************************************************************)
(* The rate limiters of util/workqueue/default_rate_limiters.go: how long  *)
(* an item that has failed has to wait.  A delay is a time.Duration, a     *)
(* signed integer of Width bits (64 in the code).                          *)
(*                                                                         *)
(* The limiter modelled is a MaxOfRateLimiter over any list of the three   *)
(* kinds: exponential, fast/slow and token bucket.  It has no lock: a call *)
(* of its When or Forget asks the limiters one after the other, each of    *)
(* which takes a lock of its own, so that calls of several goroutines,     *)
(* also about one item, interleave between the limiters.                   *)
(***************************************************************************)
EXTENDS Integers, Sequences, FiniteSets

CONSTANTS Items,        \* the keys that may be retried
          Callers,      \* the goroutines that call When and Forget
          limiters,     \* r.limiters of the MaxOfRateLimiter: the kind of each
          Width,        \* the number of bits of a time.Duration
          BaseDelay, MaxDelay,                   \* of an exponential limiter
          FastDelay, SlowDelay, MaxFastAttempts, \* of a fast/slow limiter
          BucketDelays, \* what a token bucket may answer
          MaxFailures   \* bound: how often an item fails in a row

MaxInt == 2^(Width - 1) - 1

ASSUME RateLimiterAssumption ==
  /\ limiters \in Seq({"exponential", "fastSlow", "bucket"})
  /\ Width \in Nat \ {0} /\ MaxFailures \in Nat /\ MaxFastAttempts \in Nat
  /\ {BaseDelay, MaxDelay, FastDelay, SlowDelay} \subseteq 0..MaxInt
  /\ BucketDelays \subseteq 0..MaxInt

VARIABLES failures,  \* r.failures of each limiter; a missing entry is 0
          call,      \* the call each caller is in: next is the limiter to ask
                     \* next, ret the variable ret of MaxOfRateLimiter.When
          \* History, not program state: what each limiter answered last, and
          \* the failures of an item that were reported one after the other,
          \* each by a call of When that began when the one before it had
          \* returned, and with no Forget of the item since.
          answer, inRow

limiterVars == <<failures, call, answer, inRow>>

Idle == [op |-> "none"]

-----------------------------------------------------------------------------
\* float64(math.MaxInt64): a float64 has fewer digits than an int64, and the
\* nearest number it has is one more.
FloatMaxInt == MaxInt + 1

\* time.Duration(backoff) is exact for a float that fits.  For one that does
\* not fit the machine decides: amd64 yields the smallest integer, arm64 the
\* largest.
ToDuration(f) == IF f <= MaxInt THEN {f} ELSE {-MaxInt - 1, MaxInt}

\* Mutant of Exponential: the float is converted before it is compared.
ExponentialUnchecked(exp) ==
  {IF d > MaxDelay THEN MaxDelay ELSE d : d \in ToDuration(BaseDelay * 2^exp)}

\* ItemExponentialFailureRateLimiter.When for an item that failed exp times
\* before.
Exponential(exp) ==
  LET backoff == BaseDelay * 2^exp
  IN IF backoff > FloatMaxInt THEN {MaxDelay}
     ELSE {IF d > MaxDelay THEN MaxDelay ELSE d : d \in ToDuration(backoff)}

\* ItemFastSlowRateLimiter.When for an item that failed exp times before.
FastSlow(exp) ==
  IF exp + 1 <= MaxFastAttempts THEN FastDelay ELSE SlowDelay

\* What limiter.When answers.
Answers(kind, exp) ==
  CASE kind = "exponential" -> Exponential(exp)
    [] kind = "fastSlow"    -> {FastSlow(exp)}
    [] OTHER                -> BucketDelays

\* Both item limiters count failures, a token bucket does not.
Counts(k) == limiters[k] # "bucket"

-----------------------------------------------------------------------------
(* MaxOfRateLimiter.When *)

Forgetting(i) == \E w \in Callers : call[w].op = "Forget" /\ call[w].item = i

\* row: how many failures in a row precede this one; -1 when a Forget of the
\* item overlaps the call.
StartWhen(w, i) ==
  /\ call[w] = Idle
  /\ \A k \in DOMAIN limiters : failures[k][i] + Cardinality(Callers) <= MaxFailures
  /\ call' = [call EXCEPT ![w] =
                [op |-> "When", item |-> i, next |-> 1, ret |-> 0,
                 row |-> IF Forgetting(i) THEN -1 ELSE inRow[i]]]
  /\ UNCHANGED <<failures, answer, inRow>>

\* Mutant of Worse: the answer of the last limiter wins.
LastAnswer(ret, curr) == curr

\* if curr > ret { ret = curr }
Worse(ret, curr) == IF curr > ret THEN curr ELSE ret

\* One turn of the loop: curr := limiter.When(item).
Ask(w) ==
  /\ call[w].op = "When" /\ call[w].next <= Len(limiters)
  /\ LET k == call[w].next
         i == call[w].item
     IN /\ failures[k][i] < MaxFailures
        /\ \E curr \in Answers(limiters[k], failures[k][i]) :
             /\ call' = [call EXCEPT ![w] = [op |-> "When", item |-> i, next |-> k + 1,
                                            ret |-> Worse(call[w].ret, curr),
                                            row |-> call[w].row]]
             /\ answer' = [answer EXCEPT ![k][i] = curr]
        /\ failures' = IF Counts(k) THEN [failures EXCEPT ![k][i] = @ + 1] ELSE failures
  /\ UNCHANGED inRow

\* All limiters have been asked.
Returning(w) == call[w].op = "When" /\ call[w].next > Len(limiters)

WhenReturns(w) ==
  /\ Returning(w)
  /\ inRow' = [inRow EXCEPT ![call[w].item] = IF call[w].row + 1 > @ THEN call[w].row + 1 ELSE @]
  /\ call' = [call EXCEPT ![w] = Idle]
  /\ UNCHANGED <<failures, answer>>

-----------------------------------------------------------------------------
(* MaxOfRateLimiter.Forget *)

StartForget(w, i) ==
  /\ call[w] = Idle
  /\ call' = [v \in Callers |->
                IF v = w THEN [op |-> "Forget", item |-> i, next |-> 1]
                ELSE IF call[v].op = "When" /\ call[v].item = i
                     THEN [call[v] EXCEPT !.row = -1] ELSE call[v]]
  /\ inRow' = [inRow EXCEPT ![i] = 0]
  /\ UNCHANGED <<failures, answer>>

\* One turn of the loop: the limiter deletes the item's entry, if it has any.
ForgetNext(w) ==
  /\ call[w].op = "Forget" /\ call[w].next <= Len(limiters)
  /\ LET k == call[w].next
         i == call[w].item
     IN /\ failures' = [failures EXCEPT ![k][i] = 0]
        /\ answer' = [answer EXCEPT ![k][i] = 0]
        /\ call' = [call EXCEPT ![w] = [op |-> "Forget", item |-> i, next |-> k + 1]]
  /\ UNCHANGED inRow

ForgetReturns(w) ==
  /\ call[w].op = "Forget" /\ call[w].next > Len(limiters)
  /\ call' = [call EXCEPT ![w] = Idle]
  /\ UNCHANGED <<failures, answer, inRow>>

-----------------------------------------------------------------------------
Init ==
  /\ failures = [k \in DOMAIN limiters |-> [i \in Items |-> 0]]
  /\ answer = [k \in DOMAIN limiters |-> [i \in Items |-> 0]]
  /\ call = [w \in Callers |-> Idle]
  /\ inRow = [i \in Items |-> 0]

Next == \E w \in Callers :
          \/ \E i \in Items : StartWhen(w, i) \/ StartForget(w, i)
          \/ Ask(w) \/ WhenReturns(w)
          \/ ForgetNext(w) \/ ForgetReturns(w)

Spec == Init /\ [][Next]_limiterVars

-----------------------------------------------------------------------------
(* Properties *)

\* baseDelay*2^<num-failures>, cut off at maxDelay.
Backoff(n) == IF BaseDelay * 2^n > MaxDelay THEN MaxDelay ELSE BaseDelay * 2^n

\* The comment on the exponential limiter, "a simple baseDelay*2^<num-failures>
\* limit": the answer is exactly that, cut off at maxDelay, however large the
\* power gets, and it starts from baseDelay again after Forget.
BackoffExact ==
  \A k \in DOMAIN limiters, i \in Items :
    limiters[k] = "exponential" /\ failures[k][i] > 0
      => answer[k][i] = Backoff(failures[k][i] - 1)

\* "The backoff is capped such that 'calculated' value never overflows"
\* (default_rate_limiters.go:96): no item is told to wait a negative time.
NeverOverflows == \A k \in DOMAIN limiters, i \in Items : answer[k][i] >= 0

\* MaxOfRateLimiter, "calls every RateLimiter and returns the worst case response":
\* when n failures of an item have been reported one after the other and When is
\* called again, it returns a delay no shorter than any item limiter asks for after
\* at least n failures, wherever that limiter is in the list and however the calls
\* of other goroutines, about this and other items, interleave with this one (unless
\* one of them is a Forget of this item).
WorstCase ==
  \A w \in Callers : Returning(w) /\ call[w].row >= 0 =>
    \A k \in DOMAIN limiters :
      /\ limiters[k] = "fastSlow" /\ call[w].row >= MaxFastAttempts => call[w].ret >= SlowDelay
      /\ limiters[k] = "exponential"
           => \E n \in call[w].row .. MaxFailures : call[w].ret >= Backoff(n)
=============================================================================
