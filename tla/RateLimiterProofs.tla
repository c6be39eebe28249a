------------------------- MODULE RateLimiterProofs --------------------------
(***************************************************************************)
(* Theorems about the rate limiters, for every set of items, every set of  *)
(* callers, every list of limiters, every width of a time.Duration, all    *)
(* delays that fit it and every number of failures.                        *)
(***************************************************************************)
EXTENDS RateLimiter, TLAPS

-----------------------------------------------------------------------------
(* Numbers *)

LEMMA Numbers ==
  /\ MaxInt \in Int /\ MaxInt >= 0 /\ FloatMaxInt = MaxInt + 1
  /\ BaseDelay \in Nat /\ MaxDelay \in 0 .. MaxInt
  /\ FastDelay \in Nat /\ SlowDelay \in Nat /\ \A b \in BucketDelays : b \in Nat
  /\ MaxFailures \in Nat /\ MaxFastAttempts \in Nat
<1>1. 2^(Width - 1) \in Int
  <2>1. Width - 1 \in Nat
    BY RateLimiterAssumption
  <2>2. \A n \in Nat : 2^n \in Int
    OBVIOUS
  <2>3. QED
    BY <2>1, <2>2
<1>2. MaxInt \in Int
  BY <1>1 DEF MaxInt
<1>3. QED
  BY <1>2, RateLimiterAssumption DEF FloatMaxInt

LEMMA BackoffType ==
  ASSUME NEW n \in Nat PROVE BaseDelay * 2^n \in Int /\ Backoff(n) \in Int
<1>1. 2^n \in Int
  OBVIOUS
<1>2. QED
  BY <1>1, Numbers DEF Backoff

\* The limiters, one by one.
LEMMA Kinds ==
  /\ Len(limiters) \in Nat /\ DOMAIN limiters = 1 .. Len(limiters)
  /\ \A k \in DOMAIN limiters : limiters[k] \in {"exponential", "fastSlow", "bucket"}
BY RateLimiterAssumption

\* Every answer is a number.
LEMMA AnswersType ==
  ASSUME NEW k \in DOMAIN limiters, NEW n \in Nat, NEW d \in Answers(limiters[k], n)
  PROVE  d \in Int
<1> DEFINE backoff == BaseDelay * 2^n
<1>1. backoff \in Int
  BY BackoffType
<1>2. CASE limiters[k] = "exponential"
  <2>1. d \in Exponential(n)
    BY <1>2 DEF Answers
  <2>2. d = MaxDelay \/ d \in {IF e > MaxDelay THEN MaxDelay ELSE e : e \in ToDuration(backoff)}
    BY <2>1 DEF Exponential, backoff
  <2> HIDE DEF backoff
  <2>3. \A e \in ToDuration(backoff) : e \in Int
    BY <1>1, Numbers DEF ToDuration
  <2>4. QED
    BY <2>2, <2>3, Numbers
<1>3. CASE limiters[k] = "fastSlow"
  BY <1>3, Numbers DEF Answers, FastSlow
<1>4. CASE limiters[k] = "bucket"
  BY <1>4, Numbers DEF Answers
<1>5. QED
  BY <1>2, <1>3, <1>4, Kinds

\* No backoff is exactly the one float that When takes for a time.Duration and
\* that does not fit one.  It is so for every base delay that is not a power of
\* two (the default is 5 ms, 5000000 ns).
NeverJustTooLong == \A n \in 0 .. MaxFailures : BaseDelay * 2^n # FloatMaxInt

\* The exponential limiter's When cuts the power off at maxDelay.
LEMMA ExponentialExact ==
  ASSUME NeverJustTooLong, NEW n \in 0 .. MaxFailures, NEW d \in Exponential(n)
  PROVE  d = Backoff(n)
<1> DEFINE backoff == BaseDelay * 2^n
<1>1. backoff \in Int /\ backoff # FloatMaxInt
  <2>1. n \in Nat
    BY Numbers
  <2>2. QED
    BY <2>1, BackoffType DEF NeverJustTooLong
<1>2. d \in IF backoff > FloatMaxInt THEN {MaxDelay}
            ELSE {IF e > MaxDelay THEN MaxDelay ELSE e : e \in ToDuration(backoff)}
  BY DEF Exponential
<1>3. Backoff(n) = IF backoff > MaxDelay THEN MaxDelay ELSE backoff
  BY DEF Backoff
<1> HIDE DEF backoff
<1>4. backoff <= FloatMaxInt => ToDuration(backoff) = {backoff}
  BY <1>1, Numbers DEF ToDuration
<1>5. QED
  BY <1>1, <1>2, <1>3, <1>4, Numbers

-----------------------------------------------------------------------------
(* The invariant *)

WhenCall == [op : {"When"}, item : Items, next : Nat \ {0}, ret : Int, row : Nat \cup {-1}]
ForgetCall == [op : {"Forget"}, item : Items, next : Nat \ {0}]

LimiterTypeOK ==
  /\ failures \in [DOMAIN limiters -> [Items -> 0 .. MaxFailures]]
  /\ answer \in [DOMAIN limiters -> [Items -> Int]]
  /\ call \in [Callers -> WhenCall \cup ForgetCall \cup {Idle}]
  /\ inRow \in [Items -> Nat]

\* A limiter has counted at least the failures in a row, and while an item is
\* being forgotten there are none.
RowCounted ==
  /\ \A k \in DOMAIN limiters, i \in Items : Counts(k) => failures[k][i] >= inRow[i]
  /\ \A w \in Callers : call[w].op = "Forget" => inRow[call[w].item] = 0

\* It has counted those that precede a call, and the call's own once it was asked.
CallCounted ==
  \A w \in Callers : call[w].op = "When" /\ call[w].row >= 0 =>
    /\ \A v \in Callers : call[v].op = "Forget" => call[v].item # call[w].item
    /\ \A k \in DOMAIN limiters : Counts(k) =>
         /\ failures[k][call[w].item] >= call[w].row
         /\ k < call[w].next => failures[k][call[w].item] >= call[w].row + 1

\* ret is no shorter than what the limiters that were asked have answered.
Enough(k, row, ret) ==
  /\ limiters[k] = "fastSlow" /\ row >= MaxFastAttempts => ret >= SlowDelay
  /\ limiters[k] = "exponential" => \E n \in row .. MaxFailures : ret >= Backoff(n)

RetCovers ==
  \A w \in Callers : call[w].op = "When" /\ call[w].row >= 0 =>
    \A k \in DOMAIN limiters : k < call[w].next => Enough(k, call[w].row, call[w].ret)

LimiterInv == LimiterTypeOK /\ RowCounted /\ CallCounted /\ RetCovers /\ BackoffExact

LEMMA LimiterInitInv == Init => LimiterInv
<1> SUFFICES ASSUME Init PROVE LimiterInv
  OBVIOUS
<1>1. LimiterTypeOK
  BY Numbers, Kinds DEF Init, LimiterTypeOK
<1>2. \A w \in Callers : call[w].op = "none"
  BY DEF Init, Idle
<1>3. RowCounted /\ CallCounted /\ RetCovers
  BY <1>2, Kinds DEF Init, RowCounted, CallCounted, RetCovers
<1>4. BackoffExact
  BY Kinds DEF Init, BackoffExact
<1>5. QED
  BY <1>1, <1>3, <1>4 DEF LimiterInv

\* What a call is, by its op.
LEMMA CallType ==
  ASSUME LimiterTypeOK, NEW w \in Callers
  PROVE  /\ call[w].op = "When" => call[w] \in WhenCall
         /\ call[w].op = "Forget" => call[w] \in ForgetCall
         /\ call[w].op \in {"When", "Forget", "none"}
BY DEF LimiterTypeOK, WhenCall, ForgetCall, Idle

LEMMA StartWhenInv ==
  ASSUME LimiterInv, NEW w \in Callers, NEW i \in Items, StartWhen(w, i)
  PROVE  LimiterInv'
<1> USE DEF LimiterInv
<1> DEFINE new == [op |-> "When", item |-> i, next |-> 1, ret |-> 0,
                   row |-> IF Forgetting(i) THEN -1 ELSE inRow[i]]
<1>1. /\ failures' = failures /\ answer' = answer /\ inRow' = inRow
      /\ call' = [call EXCEPT ![w] = new]
  BY DEF StartWhen
<1>2. inRow[i] \in Nat
  BY DEF LimiterTypeOK
<1>3. /\ new \in WhenCall /\ new.op = "When" /\ new.item = i /\ new.next = 1
      /\ new.row >= 0 => ~Forgetting(i) /\ new.row = inRow[i]
  BY <1>2 DEF WhenCall
<1> HIDE DEF new
<1>4. \A v \in Callers : call'[v] = IF v = w THEN new ELSE call[v]
  BY <1>1 DEF LimiterTypeOK
<1>5. LimiterTypeOK'
  BY <1>1, <1>3 DEF LimiterTypeOK
<1>6. \A u \in Callers : call'[u].op = "Forget"
         => call[u].op = "Forget" /\ call[u].item = call'[u].item
  BY <1>3, <1>4 DEF Forgetting
<1>7. RowCounted'
  BY <1>1, <1>3, <1>4 DEF RowCounted
<1>8. CallCounted'
  <2>1. ASSUME NEW v \in Callers, call'[v].op = "When", call'[v].row >= 0
        PROVE  /\ \A u \in Callers : call'[u].op = "Forget" => call'[u].item # call'[v].item
               /\ \A k \in DOMAIN limiters : Counts(k) =>
                    /\ failures[k][call'[v].item] >= call'[v].row
                    /\ k < call'[v].next => failures[k][call'[v].item] >= call'[v].row + 1
    <3>1. CASE v = w
      BY <2>1, <3>1, <1>3, <1>4, Kinds DEF RowCounted, Forgetting
    <3>2. CASE v # w
      BY <2>1, <3>2, <1>4, <1>6 DEF CallCounted
    <3>3. QED
      BY <3>1, <3>2
  <2>2. QED
    BY <2>1, <1>1 DEF CallCounted, Counts
<1>9. RetCovers'
  <2>1. ASSUME NEW v \in Callers, call'[v].op = "When", call'[v].row >= 0,
               NEW k \in DOMAIN limiters, k < call'[v].next
        PROVE  Enough(k, call'[v].row, call'[v].ret)
    <3>1. v # w
      BY <2>1, <1>3, <1>4, Kinds
    <3>2. QED
      BY <2>1, <3>1, <1>4 DEF RetCovers
  <2>2. QED
    BY <2>1 DEF RetCovers, Enough
<1>10. BackoffExact'
  BY <1>1 DEF BackoffExact
<1>11. QED
  BY <1>5, <1>7, <1>8, <1>9, <1>10

LEMMA AskInv ==
  ASSUME NeverJustTooLong, LimiterInv, NEW w \in Callers, Ask(w)
  PROVE  LimiterInv'
<1> USE DEF LimiterInv
<1>1. call[w] \in WhenCall
  BY CallType DEF Ask
<1>2. PICK k, i, old : k = call[w].next /\ i = call[w].item /\ old = call[w]
  OBVIOUS
<1>3. k \in DOMAIN limiters /\ i \in Items /\ k \in Nat /\ k + 1 \in Nat \ {0}
      /\ old.ret \in Int /\ old.row \in Nat \cup {-1}
  BY <1>1, <1>2, Kinds DEF Ask, WhenCall
<1>4. failures[k][i] \in 0 .. MaxFailures /\ failures[k][i] < MaxFailures /\ failures[k][i] \in Nat
  BY <1>2, <1>3, Numbers DEF Ask, LimiterTypeOK
<1>5. PICK curr \in Answers(limiters[k], failures[k][i]) :
        /\ call' = [call EXCEPT ![w] = [op |-> "When", item |-> i, next |-> k + 1,
                                        ret |-> Worse(old.ret, curr), row |-> old.row]]
        /\ answer' = [answer EXCEPT ![k][i] = curr]
  BY <1>2 DEF Ask
<1>6. curr \in Int
  BY <1>3, <1>4, AnswersType
<1>7. PICK ret : ret = Worse(old.ret, curr)
  OBVIOUS
<1>8. ret \in Int /\ ret >= curr /\ ret >= old.ret
  BY <1>3, <1>6, <1>7 DEF Worse
<1>9. PICK new : new = [op |-> "When", item |-> i, next |-> k + 1, ret |-> ret, row |-> old.row]
  OBVIOUS
<1>10. /\ new \in WhenCall /\ new.op = "When" /\ new.item = i /\ new.next = k + 1
       /\ new.ret = ret /\ new.row = old.row
  BY <1>3, <1>8, <1>9 DEF WhenCall
<1>11. \A v \in Callers : call'[v] = IF v = w THEN new ELSE call[v]
  BY <1>5, <1>7, <1>9 DEF LimiterTypeOK
<1>12. inRow' = inRow
  BY DEF Ask
<1>13. \A l \in DOMAIN limiters, j \in Items :
         failures'[l][j] = IF l = k /\ j = i /\ Counts(k) THEN failures[k][i] + 1 ELSE failures[l][j]
  BY <1>2, <1>3 DEF Ask, LimiterTypeOK
<1>14. \A l \in DOMAIN limiters, j \in Items :
         answer'[l][j] = IF l = k /\ j = i THEN curr ELSE answer[l][j]
  BY <1>3, <1>5 DEF LimiterTypeOK
<1>15. \A l \in DOMAIN limiters, j \in Items :
         failures[l][j] \in Nat /\ failures'[l][j] \in Nat /\ failures'[l][j] >= failures[l][j]
  BY <1>4, <1>13, Numbers DEF LimiterTypeOK
<1>16. LimiterTypeOK'
  <2>1. failures' \in [DOMAIN limiters -> [Items -> 0 .. MaxFailures]]
    <3>1. failures[k][i] + 1 \in 0 .. MaxFailures
      BY <1>4, Numbers
    <3>2. CASE Counts(k)
      <4>1. failures' = [failures EXCEPT ![k][i] = failures[k][i] + 1]
        BY <1>2, <3>2 DEF Ask
      <4>2. QED
        BY <3>1, <4>1, <1>3 DEF LimiterTypeOK
    <3>3. CASE ~Counts(k)
      BY <1>2, <3>3 DEF Ask, LimiterTypeOK
    <3>4. QED
      BY <3>2, <3>3
  <2>2. answer' \in [DOMAIN limiters -> [Items -> Int]]
    BY <1>3, <1>5, <1>6 DEF LimiterTypeOK
  <2>3. call' \in [Callers -> WhenCall \cup ForgetCall \cup {Idle}]
    BY <1>5, <1>7, <1>9, <1>10 DEF LimiterTypeOK
  <2>4. QED
    BY <2>1, <2>2, <2>3, <1>12 DEF LimiterTypeOK
<1>17. old.op = "When"
  BY <1>2 DEF Ask
<1>18. \A u \in Callers : call'[u].op = "Forget"
         => call[u].op = "Forget" /\ call[u].item = call'[u].item
  BY <1>10, <1>11 DEF Forgetting
<1>19. RowCounted'
  <2>1. ASSUME NEW l \in DOMAIN limiters, NEW j \in Items, Counts(l)
        PROVE  failures'[l][j] >= inRow[j]
    <3>1. failures[l][j] >= inRow[j] /\ inRow[j] \in Nat
      BY <2>1 DEF RowCounted, LimiterTypeOK
    <3>2. QED
      BY <3>1, <1>15
  <2>2. \A v \in Callers : call'[v].op = "Forget" => inRow[call'[v].item] = 0
    BY <1>10, <1>11 DEF RowCounted
  <2>3. QED
    BY <2>1, <2>2, <1>12 DEF RowCounted, Counts
<1>20. CallCounted'
  <2>1. ASSUME NEW v \in Callers, call'[v].op = "When", call'[v].row >= 0,
               NEW l \in DOMAIN limiters, Counts(l)
        PROVE  /\ failures'[l][call'[v].item] >= call'[v].row
               /\ l < call'[v].next => failures'[l][call'[v].item] >= call'[v].row + 1
    <3>1. CASE v = w
      <4>1. old.row \in Nat /\ failures[l][i] >= old.row
            /\ (l < k => failures[l][i] >= old.row + 1)
        BY <2>1, <3>1, <1>2, <1>3, <1>10, <1>11, <1>17 DEF CallCounted
      <4>2. failures'[l][i] >= old.row
        BY <4>1, <1>3, <1>15
      <4>3. l < k + 1 => failures'[l][i] >= old.row + 1
        <5>1. CASE l = k
          BY <5>1, <4>1, <1>3, <1>4, <1>13, <2>1
        <5>2. CASE l # k
          <6>1. l < k + 1 => l < k
            BY <5>2, <1>3, Kinds
          <6>2. QED
            BY <6>1, <4>1, <1>3, <1>15
        <5>3. QED
          BY <5>1, <5>2
      <4>4. QED
        BY <3>1, <4>2, <4>3, <1>10, <1>11
    <3>2. CASE v # w
      <4>1. /\ call[v] \in WhenCall /\ call'[v] = call[v]
        BY <2>1, <3>2, <1>11, CallType
      <4>2. /\ call[v].item \in Items /\ call[v].row \in Nat
            /\ failures[l][call[v].item] >= call[v].row
            /\ l < call[v].next => failures[l][call[v].item] >= call[v].row + 1
        BY <2>1, <4>1 DEF CallCounted, WhenCall
      <4>3. QED
        BY <4>1, <4>2, <1>15
    <3>3. QED
      BY <3>1, <3>2
  <2>2. ASSUME NEW v \in Callers, call'[v].op = "When", call'[v].row >= 0
        PROVE  \A u \in Callers : call'[u].op = "Forget" => call'[u].item # call'[v].item
    <3>1. call[v].op = "When" /\ call[v].row >= 0 /\ call[v].item = call'[v].item
      BY <2>2, <1>2, <1>10, <1>11, <1>17
    <3>2. QED
      BY <3>1, <1>18 DEF CallCounted
  <2>3. QED
    BY <2>1, <2>2 DEF CallCounted, Counts
<1>21. RetCovers'
  <2>1. ASSUME NEW v \in Callers, call'[v].op = "When", call'[v].row >= 0,
               NEW l \in DOMAIN limiters, l < call'[v].next
        PROVE  Enough(l, call'[v].row, call'[v].ret)
    <3>1. CASE v # w
      BY <2>1, <3>1, <1>11 DEF RetCovers
    <3>2. CASE v = w
      <4>1. /\ old.row \in Nat /\ call'[v].row = old.row /\ call'[v].ret = ret
            /\ old.op = "When" /\ old.row >= 0 /\ l < k + 1
        BY <2>1, <3>2, <1>3, <1>10, <1>11, <1>17
      <4>2. CASE l # k
        <5>1. Enough(l, old.row, old.ret)
          <6>1. l < old.next
            BY <4>1, <4>2, <1>2, <1>3, Kinds
          <6>2. QED
            BY <6>1, <4>1, <1>2 DEF RetCovers
        <5>2. \A n \in old.row .. MaxFailures : Backoff(n) \in Int
          BY <4>1, BackoffType
        <5>3. Enough(l, old.row, ret)
          BY <5>1, <5>2, <1>3, <1>8, Numbers DEF Enough
        <5>4. QED
          BY <5>3, <4>1
      <4>3. CASE l = k
        <5>1. CASE limiters[k] = "fastSlow"
          <6>1. curr = FastSlow(failures[k][i])
            BY <5>1 DEF Answers
          <6>2. failures[k][i] >= old.row
            BY <4>1, <5>1, <1>2, <1>3 DEF CallCounted, Counts
          <6>3. old.row >= MaxFastAttempts => curr = SlowDelay
            BY <6>1, <6>2, <4>1, <1>4, Numbers DEF FastSlow
          <6>4. QED
            BY <6>3, <5>1, <4>1, <4>3, <1>6, <1>8, Numbers DEF Enough
        <5>2. CASE limiters[k] = "exponential"
          <6>1. curr \in Exponential(failures[k][i])
            BY <5>2 DEF Answers
          <6>2. curr = Backoff(failures[k][i])
            BY <6>1, <1>4, ExponentialExact
          <6>3. failures[k][i] >= old.row
            BY <4>1, <5>2, <1>2, <1>3 DEF CallCounted, Counts
          <6>4. failures[k][i] \in old.row .. MaxFailures
            BY <6>3, <4>1, <1>4, Numbers
          <6>5. \E n \in old.row .. MaxFailures : ret >= Backoff(n)
            BY <6>2, <6>4, <1>8
          <6>6. QED
            BY <6>5, <5>2, <4>1, <4>3 DEF Enough
        <5>3. CASE limiters[k] = "bucket"
          BY <5>3, <4>3 DEF Enough
        <5>4. QED
          BY <5>1, <5>2, <5>3, <1>3, Kinds
      <4>4. QED
        BY <4>2, <4>3
    <3>3. QED
      BY <3>1, <3>2
  <2>2. QED
    BY <2>1 DEF RetCovers, Enough
<1>22. BackoffExact'
  <2>1. ASSUME NEW l \in DOMAIN limiters, NEW j \in Items,
               limiters[l] = "exponential", failures'[l][j] > 0
        PROVE  answer'[l][j] = Backoff(failures'[l][j] - 1)
    <3>1. CASE l = k /\ j = i
      <4>1. curr \in Exponential(failures[k][i])
        BY <2>1, <3>1 DEF Answers
      <4>2. curr = Backoff(failures[k][i])
        BY <4>1, <1>4, ExponentialExact
      <4>3. failures'[l][j] - 1 = failures[k][i]
        BY <2>1, <3>1, <1>3, <1>4, <1>13 DEF Counts
      <4>4. QED
        BY <4>2, <4>3, <3>1, <1>3, <1>14
    <3>2. CASE ~(l = k /\ j = i)
      <4>1. failures'[l][j] = failures[l][j] /\ answer'[l][j] = answer[l][j]
        BY <3>2, <1>13, <1>14
      <4>2. QED
        BY <2>1, <4>1 DEF BackoffExact
    <3>3. QED
      BY <3>1, <3>2
  <2>2. QED
    BY <2>1 DEF BackoffExact, Backoff
<1>23. QED
  BY <1>16, <1>19, <1>20, <1>21, <1>22

LEMMA WhenReturnsInv ==
  ASSUME LimiterInv, NEW w \in Callers, WhenReturns(w)
  PROVE  LimiterInv'
<1> USE DEF LimiterInv
<1>1. call[w] \in WhenCall /\ call[w].op = "When"
  BY CallType DEF WhenReturns, Returning
<1>2. PICK i, r : i = call[w].item /\ r = call[w].row
  OBVIOUS
<1>3. i \in Items /\ r \in Nat \cup {-1} /\ inRow[i] \in Nat
  BY <1>1, <1>2 DEF WhenCall, LimiterTypeOK
<1>4. /\ failures' = failures /\ answer' = answer
      /\ inRow' = [inRow EXCEPT ![i] = IF r + 1 > inRow[i] THEN r + 1 ELSE inRow[i]]
      /\ call' = [call EXCEPT ![w] = Idle]
  BY <1>2 DEF WhenReturns
<1>5. \A v \in Callers : call'[v] = IF v = w THEN Idle ELSE call[v]
  BY <1>4 DEF LimiterTypeOK
<1>6. Idle.op = "none"
  BY DEF Idle
<1>7. \A j \in Items : inRow'[j] = IF j = i /\ r + 1 > inRow[i] THEN r + 1 ELSE inRow[j]
  BY <1>3, <1>4 DEF LimiterTypeOK
<1>8. LimiterTypeOK'
  BY <1>3, <1>4 DEF LimiterTypeOK
<1>9. \A u \in Callers : call'[u].op = "Forget"
         => call[u].op = "Forget" /\ call[u].item = call'[u].item
  BY <1>5, <1>6 DEF Forgetting
<1>10. RowCounted'
  <2>1. ASSUME NEW k \in DOMAIN limiters, NEW j \in Items, Counts(k)
        PROVE  failures[k][j] >= inRow'[j]
    <3>1. CASE j = i /\ r + 1 > inRow[i]
      <4>1. k < call[w].next
        BY <1>1, Kinds DEF WhenReturns, Returning, WhenCall
      <4>2. r >= 0
        BY <1>3, <3>1
      <4>3. failures[k][i] >= r + 1
        BY <4>1, <4>2, <2>1, <1>1, <1>2 DEF CallCounted
      <4>4. QED
        BY <4>3, <3>1, <1>7
    <3>2. CASE ~(j = i /\ r + 1 > inRow[i])
      BY <2>1, <3>2, <1>7 DEF RowCounted
    <3>3. QED
      BY <3>1, <3>2
  <2>2. ASSUME NEW v \in Callers, call'[v].op = "Forget"
        PROVE  inRow'[call'[v].item] = 0
    <3>1. v # w /\ call'[v] = call[v] /\ call[v] \in ForgetCall /\ inRow[call[v].item] = 0
      BY <2>2, <1>5, <1>6, CallType DEF RowCounted
    <3>2. call[v].item \in Items
      BY <3>1 DEF ForgetCall
    <3>3. call[v].item = i => ~(r >= 0)
      BY <3>1, <2>2, <1>1, <1>2 DEF CallCounted
    <3>4. QED
      BY <3>1, <3>2, <3>3, <1>3, <1>7
  <2>3. QED
    BY <2>1, <2>2, <1>4 DEF RowCounted, Counts
<1>11. CallCounted'
  <2>1. ASSUME NEW v \in Callers, call'[v].op = "When", call'[v].row >= 0
        PROVE  /\ \A u \in Callers : call'[u].op = "Forget" => call'[u].item # call'[v].item
               /\ \A k \in DOMAIN limiters : Counts(k) =>
                    /\ failures[k][call'[v].item] >= call'[v].row
                    /\ k < call'[v].next => failures[k][call'[v].item] >= call'[v].row + 1
    <3>1. v # w /\ call'[v] = call[v]
      BY <2>1, <1>5, <1>6
    <3>2. QED
      BY <2>1, <3>1, <1>9 DEF CallCounted
  <2>2. QED
    BY <2>1, <1>4 DEF CallCounted, Counts
<1>12. RetCovers'
  <2>1. ASSUME NEW v \in Callers, call'[v].op = "When", call'[v].row >= 0,
               NEW k \in DOMAIN limiters, k < call'[v].next
        PROVE  Enough(k, call'[v].row, call'[v].ret)
    BY <2>1, <1>5, <1>6 DEF RetCovers
  <2>2. QED
    BY <2>1 DEF RetCovers, Enough
<1>13. BackoffExact'
  BY <1>4 DEF BackoffExact
<1>14. QED
  BY <1>8, <1>10, <1>11, <1>12, <1>13

LEMMA StartForgetInv ==
  ASSUME LimiterInv, NEW w \in Callers, NEW i \in Items, StartForget(w, i)
  PROVE  LimiterInv'
<1> USE DEF LimiterInv
<1>1. failures' = failures /\ answer' = answer /\ inRow' = [inRow EXCEPT ![i] = 0]
  BY DEF StartForget
<1>2. PICK f : f = [op |-> "Forget", item |-> i, next |-> 1]
  OBVIOUS
<1>3. f \in ForgetCall /\ f.op = "Forget" /\ f.item = i
  BY <1>2 DEF ForgetCall
<1>4. /\ call' \in [Callers -> WhenCall \cup ForgetCall \cup {Idle}]
      /\ \A v \in Callers :
           \/ v = w /\ call'[v] = f
           \/ v # w /\ call'[v] = call[v] /\ ~(call[v].op = "When" /\ call[v].item = i)
           \/ v # w /\ call'[v].op = "When" /\ call'[v].item = i /\ call'[v].row = -1
  <2>1. call' = [v \in Callers |->
                   IF v = w THEN f
                   ELSE IF call[v].op = "When" /\ call[v].item = i
                        THEN [call[v] EXCEPT !.row = -1] ELSE call[v]]
    BY <1>2 DEF StartForget
  <2>2. ASSUME NEW v \in Callers, call[v].op = "When", call[v].item = i
        PROVE  /\ [call[v] EXCEPT !.row = -1] \in WhenCall
               /\ [call[v] EXCEPT !.row = -1].op = "When"
               /\ [call[v] EXCEPT !.row = -1].item = i
               /\ [call[v] EXCEPT !.row = -1].row = -1
    <3>1. call[v] \in WhenCall
      BY <2>2, CallType
    <3>2. QED
      BY <3>1, <2>2 DEF WhenCall
  <2>3. \A v \in Callers : call[v] \in WhenCall \cup ForgetCall \cup {Idle}
    BY DEF LimiterTypeOK
  <2>4. QED
    BY <2>1, <2>2, <2>3, <1>3
<1>5. \A j \in Items : inRow'[j] = IF j = i THEN 0 ELSE inRow[j]
  BY <1>1 DEF LimiterTypeOK
<1>6. LimiterTypeOK'
  BY <1>1, <1>4 DEF LimiterTypeOK
<1>7. \A u \in Callers : call'[u].op = "Forget"
        => call'[u].item = i \/ (call[u].op = "Forget" /\ call[u].item = call'[u].item)
  BY <1>3, <1>4 DEF Forgetting
<1>8. RowCounted'
  <2>1. ASSUME NEW k \in DOMAIN limiters, NEW j \in Items, Counts(k)
        PROVE  failures[k][j] >= inRow'[j]
    BY <2>1, <1>5 DEF RowCounted, LimiterTypeOK
  <2>2. ASSUME NEW v \in Callers, call'[v].op = "Forget" PROVE inRow'[call'[v].item] = 0
    <3>1. call'[v] \in ForgetCall
      BY <2>2, <1>4 DEF WhenCall, ForgetCall, Idle
    <3>2. call'[v].item \in Items
      BY <3>1 DEF ForgetCall
    <3>3. call'[v].item = i \/ inRow[call'[v].item] = 0
      BY <2>2, <1>3, <1>4 DEF RowCounted
    <3>4. QED
      BY <3>2, <3>3, <1>5
  <2>3. QED
    BY <2>1, <2>2, <1>1 DEF RowCounted, Counts
<1>9. \A v \in Callers : call'[v].op = "When" /\ call'[v].row >= 0
                            => call'[v] = call[v] /\ call[v].item # i
  BY <1>3, <1>4
<1>10. CallCounted'
  <2>1. ASSUME NEW v \in Callers, call'[v].op = "When", call'[v].row >= 0
        PROVE  /\ \A u \in Callers : call'[u].op = "Forget" => call'[u].item # call'[v].item
               /\ \A k \in DOMAIN limiters : Counts(k) =>
                    /\ failures[k][call'[v].item] >= call'[v].row
                    /\ k < call'[v].next => failures[k][call'[v].item] >= call'[v].row + 1
    BY <2>1, <1>7, <1>9 DEF CallCounted
  <2>2. QED
    BY <2>1, <1>1 DEF CallCounted, Counts
<1>11. RetCovers'
  <2>1. ASSUME NEW v \in Callers, call'[v].op = "When", call'[v].row >= 0,
               NEW k \in DOMAIN limiters, k < call'[v].next
        PROVE  Enough(k, call'[v].row, call'[v].ret)
    BY <2>1, <1>9 DEF RetCovers
  <2>2. QED
    BY <2>1 DEF RetCovers, Enough
<1>12. BackoffExact'
  BY <1>1 DEF BackoffExact
<1>13. QED
  BY <1>6, <1>8, <1>10, <1>11, <1>12

LEMMA ForgetNextInv ==
  ASSUME LimiterInv, NEW w \in Callers, ForgetNext(w)
  PROVE  LimiterInv'
<1> USE DEF LimiterInv
<1>1. call[w] \in ForgetCall /\ call[w].op = "Forget"
  BY CallType DEF ForgetNext
<1>2. PICK k, i : k = call[w].next /\ i = call[w].item
  OBVIOUS
<1>3. k \in DOMAIN limiters /\ k \in Nat /\ i \in Items
  BY <1>1, <1>2, Kinds DEF ForgetNext, ForgetCall
<1>4. /\ failures' = [failures EXCEPT ![k][i] = 0]
      /\ answer' = [answer EXCEPT ![k][i] = 0]
      /\ inRow' = inRow
  BY <1>2 DEF ForgetNext
<1>5. PICK f : f = [op |-> "Forget", item |-> i, next |-> k + 1]
  OBVIOUS
<1>6. f \in ForgetCall /\ f.op = "Forget" /\ f.item = i
  BY <1>3, <1>5 DEF ForgetCall
<1>7. call' = [call EXCEPT ![w] = f]
  BY <1>2, <1>5 DEF ForgetNext
<1>8. \A v \in Callers : call'[v] = IF v = w THEN f ELSE call[v]
  BY <1>7 DEF LimiterTypeOK
<1>9. \A l \in DOMAIN limiters, j \in Items :
        /\ failures'[l][j] = IF l = k /\ j = i THEN 0 ELSE failures[l][j]
        /\ answer'[l][j] = IF l = k /\ j = i THEN 0 ELSE answer[l][j]
  BY <1>3, <1>4 DEF LimiterTypeOK
<1>10. LimiterTypeOK'
  BY <1>3, <1>4, <1>6, <1>7, Numbers DEF LimiterTypeOK
<1>11. \A u \in Callers : call'[u].op = "Forget"
         => call[u].op = "Forget" /\ call[u].item = call'[u].item
  BY <1>1, <1>2, <1>6, <1>8 DEF Forgetting
<1>12. inRow[i] = 0
  BY <1>1, <1>2 DEF RowCounted
<1>13. RowCounted'
  <2>1. ASSUME NEW l \in DOMAIN limiters, NEW j \in Items, Counts(l)
        PROVE  failures'[l][j] >= inRow[j]
    BY <2>1, <1>9, <1>12 DEF RowCounted
  <2>2. \A v \in Callers : call'[v].op = "Forget" => inRow[call'[v].item] = 0
    BY <1>6, <1>8, <1>12 DEF RowCounted
  <2>3. QED
    BY <2>1, <2>2, <1>4 DEF RowCounted, Counts
<1>14. \A v \in Callers : call'[v].op = "When" /\ call'[v].row >= 0
                             => call'[v] = call[v] /\ call[v].item \in Items \ {i}
  <2>1. ASSUME NEW v \in Callers, call'[v].op = "When", call'[v].row >= 0
        PROVE  call'[v] = call[v] /\ call[v].item \in Items \ {i}
    <3>1. v # w /\ call'[v] = call[v]
      BY <2>1, <1>6, <1>8
    <3>2. call[v].item # i
      BY <3>1, <2>1, <1>1, <1>2 DEF CallCounted
    <3>3. call[v] \in WhenCall
      BY <3>1, <2>1, CallType
    <3>4. QED
      BY <3>1, <3>2, <3>3 DEF WhenCall
  <2>2. QED
    BY <2>1
<1>15. CallCounted'
  <2>1. ASSUME NEW v \in Callers, call'[v].op = "When", call'[v].row >= 0
        PROVE  /\ \A u \in Callers : call'[u].op = "Forget" => call'[u].item # call'[v].item
               /\ \A l \in DOMAIN limiters : Counts(l) =>
                    /\ failures'[l][call'[v].item] >= call'[v].row
                    /\ l < call'[v].next => failures'[l][call'[v].item] >= call'[v].row + 1
    <3>1. call'[v] = call[v] /\ call[v].item \in Items \ {i}
      BY <2>1, <1>14
    <3>2. \A l \in DOMAIN limiters : failures'[l][call[v].item] = failures[l][call[v].item]
      BY <3>1, <1>9
    <3>3. QED
      BY <2>1, <3>1, <3>2, <1>11 DEF CallCounted
  <2>2. QED
    BY <2>1 DEF CallCounted, Counts
<1>16. RetCovers'
  <2>1. ASSUME NEW v \in Callers, call'[v].op = "When", call'[v].row >= 0,
               NEW l \in DOMAIN limiters, l < call'[v].next
        PROVE  Enough(l, call'[v].row, call'[v].ret)
    BY <2>1, <1>14 DEF RetCovers
  <2>2. QED
    BY <2>1 DEF RetCovers, Enough
<1>17. BackoffExact'
  BY <1>9 DEF BackoffExact, Backoff
<1>18. QED
  BY <1>10, <1>13, <1>15, <1>16, <1>17

LEMMA ForgetReturnsInv ==
  ASSUME LimiterInv, NEW w \in Callers, ForgetReturns(w)
  PROVE  LimiterInv'
<1> USE DEF LimiterInv
<1>1. failures' = failures /\ answer' = answer /\ inRow' = inRow /\ call' = [call EXCEPT ![w] = Idle]
  BY DEF ForgetReturns
<1>2. \A v \in Callers : call'[v] = IF v = w THEN Idle ELSE call[v]
  BY <1>1 DEF LimiterTypeOK
<1>3. Idle.op = "none"
  BY DEF Idle
<1>4. LimiterTypeOK'
  BY <1>1 DEF LimiterTypeOK
<1>5. \A u \in Callers : call'[u].op = "Forget"
         => call[u].op = "Forget" /\ call[u].item = call'[u].item
  BY <1>2, <1>3 DEF Forgetting
<1>6. RowCounted'
  BY <1>1, <1>2, <1>3 DEF RowCounted
<1>7. CallCounted'
  <2>1. ASSUME NEW v \in Callers, call'[v].op = "When", call'[v].row >= 0
        PROVE  /\ \A u \in Callers : call'[u].op = "Forget" => call'[u].item # call'[v].item
               /\ \A k \in DOMAIN limiters : Counts(k) =>
                    /\ failures[k][call'[v].item] >= call'[v].row
                    /\ k < call'[v].next => failures[k][call'[v].item] >= call'[v].row + 1
    BY <2>1, <1>2, <1>3, <1>5 DEF CallCounted
  <2>2. QED
    BY <2>1, <1>1 DEF CallCounted, Counts
<1>8. RetCovers'
  <2>1. ASSUME NEW v \in Callers, call'[v].op = "When", call'[v].row >= 0,
               NEW k \in DOMAIN limiters, k < call'[v].next
        PROVE  Enough(k, call'[v].row, call'[v].ret)
    BY <2>1, <1>2, <1>3 DEF RetCovers
  <2>2. QED
    BY <2>1 DEF RetCovers, Enough
<1>9. BackoffExact'
  BY <1>1 DEF BackoffExact
<1>10. QED
  BY <1>4, <1>6, <1>7, <1>8, <1>9

LEMMA LimiterNextInv ==
  ASSUME NeverJustTooLong
  PROVE  LimiterInv /\ [Next]_limiterVars => LimiterInv'
<1> SUFFICES ASSUME LimiterInv, [Next]_limiterVars PROVE LimiterInv'
  OBVIOUS
<1>1. CASE Next
  BY <1>1, StartWhenInv, AskInv, WhenReturnsInv, StartForgetInv, ForgetNextInv,
     ForgetReturnsInv DEF Next
<1>2. CASE UNCHANGED limiterVars
  BY <1>2 DEF limiterVars, LimiterInv, LimiterTypeOK, RowCounted, CallCounted, RetCovers,
     BackoffExact, Counts, Enough, Forgetting, Backoff
<1>3. QED
  BY <1>1, <1>2

-----------------------------------------------------------------------------
(* The theorems *)

\* MaxOfRateLimiter.When answers the worst case: an item that is reported again
\* after n failures in a row waits at least as long as each of its limiters asks
\* for after n failures, wherever the limiter stands in the list, whatever the
\* token buckets say and however calls of When and Forget of other goroutines
\* interleave between the limiters.
THEOREM WorstCaseAnswered ==
  ASSUME NeverJustTooLong
  PROVE  Spec => []WorstCase
<1>1. LimiterInv => WorstCase
  <2>1. SUFFICES ASSUME LimiterInv, NEW w \in Callers, Returning(w), call[w].row >= 0,
                        NEW k \in DOMAIN limiters
                 PROVE  Enough(k, call[w].row, call[w].ret)
    BY DEF WorstCase, Enough
  <2>2. call[w] \in WhenCall
    BY <2>1, CallType DEF LimiterInv, Returning
  <2>3. k < call[w].next
    BY <2>1, <2>2, Kinds DEF Returning, WhenCall
  <2>4. QED
    BY <2>1, <2>3 DEF LimiterInv, RetCovers, Returning
<1>2. LimiterInv /\ [Next]_limiterVars => LimiterInv'
  BY LimiterNextInv
<1>3. QED
  BY <1>1, <1>2, LimiterInitInv, PTL DEF Spec

\* ItemExponentialFailureRateLimiter answers exactly baseDelay*2^<num-failures>,
\* cut off at maxDelay, however large the power gets, and starts over after
\* Forget, provided that no backoff is exactly 2^(Width - 1): the one value that
\* slips past the comparison with math.MaxInt64.
THEOREM BackoffIsExact ==
  ASSUME NeverJustTooLong
  PROVE  Spec => []BackoffExact
<1>1. LimiterInv => BackoffExact
  BY DEF LimiterInv
<1>2. LimiterInv /\ [Next]_limiterVars => LimiterInv'
  BY LimiterNextInv
<1>3. QED
  BY <1>1, <1>2, LimiterInitInv, PTL DEF Spec
=============================================================================
