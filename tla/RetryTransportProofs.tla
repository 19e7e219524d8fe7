------------------------ MODULE RetryTransportProofs ------------------------
(***************************************************************************)
(* Theorems about RetryTransport, for any number of requests on the client *)
(* and every value of the retry limits, delays and breaker settings.       *)
(***************************************************************************)
EXTENDS RetryTransport, DataInduction

---------------------------------------------------------------------------
(* The circuit breaker.                                                    *)

\* The breaker never knows of more failures than there were since the last
\* success, and is open only with enough of them.
BreakerInvariant ==
  /\ now \in Nat /\ failures \in Nat /\ bad \in Nat
  /\ lastFailure \in Nat /\ lastBad \in Nat
  /\ failures <= bad /\ lastFailure = lastBad
  /\ open => failures >= Threshold
  /\ result \in [Requests -> Results]

\* What a step does to the breaker.
LEMMA BreakerSteps ==
  ASSUME BreakerInvariant, [Next]_vars
  PROVE  /\ now' \in Nat /\ now <= now'
         /\ \/ UNCHANGED breakerVars
            \/ RecordSuccess
            \/ RecordFailure
            \/ AskIfOpen
<1> USE DEF BreakerInvariant
<1>1. CASE Tick
  BY <1>1 DEF Tick
<1>2. ASSUME NEW r \in Requests, Begin(r) PROVE now' = now /\ AskIfOpen
  BY <1>2 DEF Begin
<1>3. ASSUME NEW r \in Requests, Send(r) \/ GetBodyFails(r) \/ Wake(r) \/ Cancel(r)
      PROVE  now' = now /\ UNCHANGED breakerVars
  BY <1>3 DEF Send, GetBodyFails, Wake, Cancel
<1>4. ASSUME NEW r \in Requests, Answer(r)
      PROVE  now' = now /\ (UNCHANGED breakerVars \/ RecordSuccess \/ RecordFailure)
  <2>1. CASE Succeed(r)
    BY <2>1 DEF Succeed
  <2>2. CASE RateLimited(r)
    BY <2>2 DEF RateLimited
  <2>3. CASE Broken(r)
    BY <2>3 DEF Broken
  <2>4. ASSUME NEW res, ServerError(r, res) PROVE now' = now /\ RecordFailure
    BY <2>4 DEF ServerError
  <2>5. ASSUME NEW res, ClientError(r, res) PROVE now' = now /\ UNCHANGED breakerVars
    BY <2>5 DEF ClientError
  <2> QED
    BY <1>4, <2>1, <2>2, <2>3, <2>4, <2>5 DEF Answer
<1>5. CASE UNCHANGED vars
  BY <1>5 DEF vars, breakerVars
<1> QED
  BY <1>1, <1>2, <1>3, <1>4, <1>5 DEF Next, Proceed

\* A result is one of Results.
LEMMA ResultType ==
  ASSUME BreakerInvariant, [Next]_vars
  PROVE  result' \in [Requests -> Results]
<1> USE DEF BreakerInvariant
<1>0. ASSUME NEW r \in Requests, NEW res \in Results, Return(r, res)
      PROVE  result' \in [Requests -> Results]
  BY <1>0 DEF Return
<1>1. CASE Tick
  BY <1>1 DEF Tick
<1>2. ASSUME NEW r \in Requests, Proceed(r) \/ Cancel(r)
      PROVE  result' \in [Requests -> Results]
  <2> USE DEF Results, AllAnswers
  <2>1. CASE Begin(r)
    BY <2>1, <1>0 DEF Begin
  <2>2. CASE Send(r) \/ Wake(r)
    BY <2>2 DEF Send, Wake
  <2>3. CASE Cancel(r)
    BY <2>3 DEF Cancel
  <2>g. CASE GetBodyFails(r)
    BY <2>g, <1>0 DEF GetBodyFails
  <2>4. CASE Succeed(r)
    BY <2>4, <1>0 DEF Succeed
  <2>5. CASE RateLimited(r)
    BY <2>5, <1>0 DEF RateLimited
  <2>6. CASE Broken(r)
    BY <2>6, <1>0 DEF Broken
  <2>7. ASSUME NEW res \in {"serverError", "gatewayError"}, ServerError(r, res)
        PROVE  result' \in [Requests -> Results]
    BY <2>7, <1>0 DEF ServerError
  <2>8. ASSUME NEW res \in {"quota", "denied"}, ClientError(r, res)
        PROVE  result' \in [Requests -> Results]
    BY <2>8, <1>0 DEF ClientError
  <2> QED
    BY <1>2, <2>1, <2>2, <2>3, <2>g, <2>4, <2>5, <2>6, <2>7, <2>8 DEF Proceed, Answer
<1>3. CASE UNCHANGED vars
  BY <1>3 DEF vars
<1> QED
  BY <1>1, <1>2, <1>3 DEF Next

LEMMA BreakerInductive ==
  /\ Init => BreakerInvariant
  /\ BreakerInvariant /\ [Next]_vars => BreakerInvariant'
<1>1. Init => BreakerInvariant
  BY RetryAssumption DEF Init, BreakerInvariant, Results
<1>2. ASSUME BreakerInvariant, [Next]_vars PROVE BreakerInvariant'
  <2> USE RetryAssumption DEF BreakerInvariant
  <2>1. now' \in Nat /\ result' \in [Requests -> Results]
    BY <1>2, BreakerSteps, ResultType
  <2>2. CASE UNCHANGED breakerVars
    BY <1>2, <2>1, <2>2 DEF breakerVars
  <2>3. CASE RecordSuccess
    BY <1>2, <2>1, <2>3 DEF RecordSuccess
  <2>4. CASE RecordFailure
    <3>1. /\ failures' = failures + 1 /\ bad' = bad + 1
          /\ lastFailure' = now /\ lastBad' = now
      BY <2>4 DEF RecordFailure
    <3>2. open' => open \/ failures + 1 >= Threshold
      BY <2>4 DEF RecordFailure
    <3>3. open' => failures' >= Threshold
      BY <1>2, <3>1, <3>2
    <3> QED
      BY <1>2, <2>1, <3>1, <3>3, BreakerSteps
  <2>5. CASE AskIfOpen
    BY <1>2, <2>1, <2>5 DEF AskIfOpen
  <2> QED
    BY <1>2, <2>2, <2>3, <2>4, <2>5, BreakerSteps
<1> QED
  BY <1>1, <1>2

(* A request is turned away only while the service is failing: Threshold      *)
(* server errors without a success in between, the last within the cool-down, *)
(* whatever other requests have done to the breaker meanwhile.                *)
THEOREM TurnedAwayOnlyWhenFailing == Spec => RejectedOnlyWhenFailing
<1> DEFINE Justified == \A r \in Requests :
             result'[r] = "rejected" /\ result[r] # "rejected" =>
               bad >= Threshold /\ now - lastBad <= ResetTime
<1>1. BreakerInvariant /\ [Next]_vars => [Justified]_vars
  <2> SUFFICES ASSUME BreakerInvariant, Next,
                      NEW r \in Requests, result'[r] = "rejected", result[r] # "rejected"
               PROVE  bad >= Threshold /\ now - lastBad <= ResetTime
    OBVIOUS
  <2> USE DEF BreakerInvariant
  <2>1. ASSUME NEW q \in Requests, NEW res, Return(q, res), res # "rejected" PROVE FALSE
    BY <2>1 DEF Return
  <2>2. PICK q \in Requests : Begin(q)
    <3>1. ~Tick
      BY DEF Tick
    <3>2. ASSUME NEW q \in Requests, Send(q) \/ GetBodyFails(q) \/ Wake(q) \/ Cancel(q)
          PROVE  FALSE
      BY <2>1, <3>2 DEF Send, GetBodyFails, Wake, Cancel
    <3>3. ASSUME NEW q \in Requests, Answer(q) PROVE FALSE
      <4>1. CASE Succeed(q)
        BY <4>1, <2>1 DEF Succeed
      <4>2. CASE RateLimited(q)
        BY <4>2, <2>1 DEF RateLimited
      <4>3. CASE Broken(q)
        BY <4>3, <2>1 DEF Broken
      <4>4. ASSUME NEW res \in {"serverError", "gatewayError"}, ServerError(q, res) PROVE FALSE
        BY <4>4, <2>1 DEF ServerError
      <4>5. ASSUME NEW res \in {"quota", "denied"}, ClientError(q, res) PROVE FALSE
        BY <4>5, <2>1 DEF ClientError
      <4> QED
        BY <3>3, <4>1, <4>2, <4>3, <4>4, <4>5 DEF Answer
    <3> QED
      BY <3>1, <3>2, <3>3 DEF Next, Proceed
  <2>3. IsOpen
    BY <2>1, <2>2 DEF Begin
  <2> QED
    BY <2>3, RetryAssumption DEF IsOpen, CoolDownOver
<1> QED
  BY <1>1, BreakerInductive, PTL DEF Spec, RejectedOnlyWhenFailing

---------------------------------------------------------------------------
(* The nested retries.                                                     *)

PerCall == 1 + MaxRetries429 + MaxRetries5xx   \* attempts of one RoundTrip
Harm    == 1 + MaxRetries5xx                   \* of them, carried out

Used(r) == attempt[r] * PerCall
Harmed(r) == attempt[r] * Harm

\* What a request has used up: the calls of retryOnQuota before this one, and in
\* this one an attempt for each retry counted, and one more once it is out.
Budget(r) ==
  /\ attempt[r] = 0 \/ (r \in QuotaRequests /\ attempt[r] <= MaxRetries)
  /\ retries429[r] <= MaxRetries429 /\ retries5xx[r] <= MaxRetries5xx
  /\ pc[r] \in {"new", "backoff"} => retries429[r] = 0 /\ retries5xx[r] = 0
  /\ pc[r] \in {"new", "backoff", "ready", "asleep"} =>
       /\ sent[r] <= Used(r) + retries429[r] + retries5xx[r]
       /\ effects[r] <= Harmed(r) + retries5xx[r]
  /\ pc[r] = "sent" =>
       /\ sent[r] <= Used(r) + retries429[r] + retries5xx[r] + 1
       /\ effects[r] <= Harmed(r) + retries5xx[r]
  /\ sent[r] <= Used(r) + PerCall /\ effects[r] <= Harmed(r) + Harm

Counters ==
  /\ pc \in [Requests -> {"new", "ready", "sent", "asleep", "backoff", "done"}]
  /\ attempt \in [Requests -> Nat]
  /\ retries429 \in [Requests -> Nat] /\ retries5xx \in [Requests -> Nat]
  /\ sent \in [Requests -> Nat] /\ effects \in [Requests -> Nat]

BudgetInvariant == Counters /\ \A r \in Requests : Budget(r)

LEMMA OneMore == \A n, k \in Nat : n * k \in Nat /\ (n + 1) * k = n * k + k
  OBVIOUS

LEMMA CallsBound == \A m, n, k \in Nat : m <= n => m * k + k <= (1 + n) * k
<1> SUFFICES ASSUME NEW m \in Nat, NEW n \in Nat, NEW k \in Nat, m <= n
             PROVE  m * k + k <= (1 + n) * k
  OBVIOUS
<1>1. (n - m) \in Nat /\ n = m + (n - m)
  OBVIOUS
<1>2. (n - m) * k \in Nat /\ n * k = m * k + (n - m) * k
  BY <1>1
<1> QED
  BY <1>2, OneMore

\* A call that ends, or goes into its next round, stays within the budget.
LEMMA ReturnBudget ==
  ASSUME BudgetInvariant, NEW r \in Requests, NEW res, Return(r, res),
         sent' \in [Requests -> Nat], effects' \in [Requests -> Nat],
         sent'[r] <= Used(r) + PerCall, effects'[r] <= Harmed(r) + Harm
  PROVE  /\ Counters' /\ Budget(r)'
         /\ \A q \in Requests \ {r} :
              UNCHANGED <<pc[q], attempt[q], retries429[q], retries5xx[q]>>
<1> USE RetryAssumption DEF BudgetInvariant, Counters
<1>0. Budget(r) /\ PerCall \in Nat /\ Harm \in Nat
  BY DEF PerCall, Harm
<1>1. CASE r \in QuotaRequests /\ Retryable(res) /\ attempt[r] < MaxRetries
  <2>1. /\ pc' = [pc EXCEPT ![r] = "backoff"] /\ attempt' = [attempt EXCEPT ![r] = attempt[r] + 1]
        /\ retries429' = [retries429 EXCEPT ![r] = 0] /\ retries5xx' = [retries5xx EXCEPT ![r] = 0]
    BY <1>1 DEF Return, Goto
  <2>2. Used(r)' = Used(r) + PerCall /\ Harmed(r)' = Harmed(r) + Harm
        /\ Used(r) \in Nat /\ Harmed(r) \in Nat
    BY <1>0, <2>1, OneMore DEF Used, Harmed, PerCall, Harm
  <2> QED
    BY <1>0, <1>1, <2>1, <2>2 DEF Budget, PerCall, Harm
<1>2. CASE ~(r \in QuotaRequests /\ Retryable(res) /\ attempt[r] < MaxRetries)
  <2>1. /\ pc' = [pc EXCEPT ![r] = "done"] /\ UNCHANGED <<attempt, retries429, retries5xx>>
    BY <1>2 DEF Return, Goto
  <2> QED
    BY <1>0, <2>1 DEF Budget, PerCall, Harm, Used, Harmed
<1> QED
  BY <1>1, <1>2

\* Steps that leave the other requests' counters alone leave their budget alone.
LEMMA OthersKeepBudget ==
  ASSUME BudgetInvariant, NEW r \in Requests, Counters', Budget(r)',
         \A q \in Requests \ {r} :
           UNCHANGED <<pc[q], attempt[q], retries429[q], retries5xx[q], sent[q], effects[q]>>
  PROVE  BudgetInvariant'
<1>1. ASSUME NEW q \in Requests, q # r PROVE Budget(q)'
  <2>1. Budget(q)
    BY DEF BudgetInvariant
  <2> QED
    BY <1>1, <2>1 DEF Budget, Used, Harmed
<1> QED
  BY <1>1 DEF BudgetInvariant

\* A step of a request stays within its budget.
LEMMA ProceedBudget ==
  ASSUME BudgetInvariant, NEW r \in Requests, Proceed(r) \/ Cancel(r)
  PROVE  BudgetInvariant'
<1> USE RetryAssumption
<1>0. /\ Counters /\ Budget(r) /\ PerCall \in Nat /\ Harm \in Nat
      /\ Used(r) \in Nat /\ Harmed(r) \in Nat
      /\ PerCall = 1 + MaxRetries429 + MaxRetries5xx /\ Harm = 1 + MaxRetries5xx
  BY OneMore DEF BudgetInvariant, Counters, PerCall, Harm, Used, Harmed
<1>u. UNCHANGED attempt => Used(r)' = Used(r) /\ Harmed(r)' = Harmed(r)
  BY DEF Used, Harmed
<1>r. ASSUME NEW res, Return(r, res), sent' = sent, effects' \in [Requests -> Nat],
             \A q \in Requests \ {r} : effects'[q] = effects[q],
             effects'[r] <= Harmed(r) + Harm
      PROVE  BudgetInvariant'
  <2>1. sent' \in [Requests -> Nat] /\ sent'[r] <= Used(r) + PerCall
    BY <1>0, <1>r DEF Budget, Counters
  <2> QED
    BY <1>r, <2>1, ReturnBudget, OthersKeepBudget
<1>1. CASE Begin(r)
  <2>1. CASE \E res : Return(r, res)
    BY <1>0, <1>1, <1>r, <2>1 DEF Begin, serverVars, Budget, Counters
  <2>2. CASE Goto(r, "ready") /\ UNCHANGED <<attempt, retries429, retries5xx>>
    <3>1. Counters' /\ Budget(r)'
      BY <1>0, <1>u, <1>1, <2>2 DEF Begin, Goto, serverVars, Budget, Counters
    <3> QED
      BY <1>0, <1>1, <2>2, <3>1, OthersKeepBudget DEF Begin, Goto, serverVars, Counters
  <2> QED
    BY <1>1, <2>1, <2>2 DEF Begin
<1>2. CASE Send(r)
  <2>1. Counters' /\ Budget(r)'
    BY <1>0, <1>u, <1>2 DEF Send, Goto, Budget, Counters
  <2> QED
    BY <1>0, <1>2, <2>1, OthersKeepBudget DEF Send, Goto, Counters
<1>g. CASE GetBodyFails(r)
  BY <1>0, <1>g, <1>r DEF GetBodyFails, serverVars, Budget, Counters
<1>3. CASE Wake(r) \/ Cancel(r)
  <2>1. Counters' /\ Budget(r)'
    BY <1>0, <1>u, <1>3 DEF Wake, Cancel, Goto, serverVars, Budget, Counters
  <2> QED
    BY <1>0, <1>3, <2>1, OthersKeepBudget DEF Wake, Cancel, Goto, serverVars, Counters
<1>c. ASSUME NEW carried \in BOOLEAN, CarriedOut(r, carried), pc[r] = "sent"
      PROVE  /\ effects' \in [Requests -> Nat] /\ effects'[r] <= Harmed(r) + retries5xx[r] + 1
             /\ effects'[r] <= Harmed(r) + Harm
             /\ \A q \in Requests \ {r} : effects'[q] = effects[q]
  BY <1>0, <1>c DEF CarriedOut, Budget, Counters, Harm
<1>4. CASE Succeed(r)
  BY <1>4, <1>c, <1>r DEF Succeed
<1>5. CASE RateLimited(r)
  <2>1. CASE Return(r, "limited")
    BY <1>0, <1>5, <1>r, <2>1 DEF RateLimited, Budget, Counters
  <2>2. CASE /\ RetriesLeft(retries429[r], MaxRetries429) /\ \E d : Sleep(r, d)
             /\ retries429' = [retries429 EXCEPT ![r] = retries429[r] + 1]
             /\ UNCHANGED <<retries5xx, attempt>>
    <3>1. pc' = [pc EXCEPT ![r] = "asleep"] \/ pc' = [pc EXCEPT ![r] = "ready"]
      BY <2>2 DEF Sleep, Goto
    <3>2. Counters' /\ Budget(r)'
      BY <1>0, <1>u, <1>5, <2>2, <3>1 DEF RateLimited, RetriesLeft, Budget, Counters
    <3> QED
      BY <1>0, <1>5, <2>2, <3>1, <3>2, OthersKeepBudget DEF RateLimited, Counters
  <2> QED
    BY <1>5, <2>1, <2>2 DEF RateLimited
<1>6. ASSUME NEW res, ServerError(r, res) PROVE BudgetInvariant'
  <2>0. PICK carried \in BOOLEAN : CarriedOut(r, carried)
    BY <1>6 DEF ServerError
  <2>1. CASE Return(r, res)
    BY <1>6, <1>c, <1>r, <2>0, <2>1 DEF ServerError
  <2>2. CASE /\ RetriesLeft(retries5xx[r], MaxRetries5xx) /\ Sleep(r, ServerErrorRetryDelay)
             /\ retries5xx' = [retries5xx EXCEPT ![r] = retries5xx[r] + 1]
             /\ UNCHANGED <<retries429, attempt>>
    <3>1. pc' = [pc EXCEPT ![r] = "asleep"] \/ pc' = [pc EXCEPT ![r] = "ready"]
      BY <2>2 DEF Sleep, Goto
    <3>2. Counters' /\ Budget(r)'
      BY <1>0, <1>u, <1>6, <1>c, <2>0, <2>2, <3>1
      DEF ServerError, RetriesLeft, Budget, Counters
    <3> QED
      BY <1>0, <1>6, <1>c, <2>0, <2>2, <3>1, <3>2, OthersKeepBudget DEF ServerError, Counters
  <2> QED
    BY <1>6, <2>1, <2>2 DEF ServerError
<1>7. ASSUME NEW res, ClientError(r, res) PROVE BudgetInvariant'
  BY <1>0, <1>7, <1>r DEF ClientError, serverVars, Budget, Counters
<1>8. CASE Broken(r)
  BY <1>8, <1>c, <1>r DEF Broken
<1> QED
  BY <1>1, <1>2, <1>g, <1>3, <1>4, <1>5, <1>6, <1>7, <1>8 DEF Proceed, Answer

LEMMA BudgetInductive ==
  /\ Init => BudgetInvariant
  /\ BudgetInvariant /\ [Next]_vars => BudgetInvariant'
<1>1. ASSUME Init PROVE BudgetInvariant
  BY <1>1, RetryAssumption
  DEF Init, BudgetInvariant, Counters, Budget, Used, Harmed, PerCall, Harm
<1>2. ASSUME BudgetInvariant, Tick \/ UNCHANGED vars PROVE BudgetInvariant'
  BY <1>2 DEF Tick, vars, serverVars, BudgetInvariant, Counters, Budget, Used, Harmed
<1> QED
  BY <1>1, <1>2, ProceedBudget DEF Next

(* However the retries of the transport and of retryOnQuota are nested, a      *)
(* request goes out a bounded number of times and is carried out at most once  *)
(* for each attempt that a server error may follow: 429 answers add nothing.   *)
THEOREM RetriesAreBounded == Spec => []AttemptsBounded
<1>1. BudgetInvariant => AttemptsBounded
  <2> SUFFICES ASSUME BudgetInvariant, NEW r \in Requests
               PROVE  LET calls == IF r \in QuotaRequests THEN 1 + MaxRetries ELSE 1 IN
                      /\ sent[r] <= calls * (1 + MaxRetries429 + MaxRetries5xx)
                      /\ effects[r] <= calls * (1 + MaxRetries5xx)
    BY DEF AttemptsBounded
  <2> DEFINE more == IF r \in QuotaRequests THEN MaxRetries ELSE 0
  <2>1. /\ more \in Nat /\ PerCall \in Nat /\ Harm \in Nat
        /\ attempt[r] \in Nat /\ attempt[r] <= more
        /\ sent[r] \in Nat /\ effects[r] \in Nat
        /\ sent[r] <= Used(r) + PerCall /\ effects[r] <= Harmed(r) + Harm
    BY RetryAssumption DEF BudgetInvariant, Counters, Budget, PerCall, Harm
  <2>2. Used(r) + PerCall <= (1 + more) * PerCall /\ Harmed(r) + Harm <= (1 + more) * Harm
    BY <2>1, CallsBound DEF Used, Harmed
  <2>3. /\ Used(r) \in Nat /\ Harmed(r) \in Nat
        /\ (1 + more) * PerCall \in Nat /\ (1 + more) * Harm \in Nat
    BY <2>1, OneMore DEF Used, Harmed
  <2>4. sent[r] <= (1 + more) * PerCall /\ effects[r] <= (1 + more) * Harm
    BY <2>1, <2>2, <2>3
  <2> QED
    BY <2>4 DEF PerCall, Harm
<1> QED
  BY <1>1, BudgetInductive, PTL DEF Spec

---------------------------------------------------------------------------
(* The Retry-After header.                                                 *)

LEMMA WrappedIsExact == ASSUME NEW d \in 0..MaxDuration PROVE Wrapped(d) = d
<1>1. /\ d + MaxDuration + 1 \in Nat /\ 2 * (MaxDuration + 1) \in Nat
      /\ d + MaxDuration + 1 < 2 * (MaxDuration + 1)
  BY RetryAssumption
<1>2. \A a, b \in Nat : a < b => a % b = a
  OBVIOUS
<1> QED
  BY <1>1, <1>2, RetryAssumption DEF Wrapped

LEMMA ShiftedType == Shifted \in [Nat -> Nat]
<1> DEFINE double == [n \in Nat |-> [x \in Nat |-> 2 * x]]
           Equation(g) == g = [n \in Nat |-> IF n = 0 THEN 1 ELSE 2 * g[n - 1]]
           T == {n \in Nat : Shifted[n] \in Nat}
<1>1. double \in [Nat -> [Nat -> Nat]] /\ \A n, x \in Nat : double[n][x] = 2 * x
  OBVIOUS
<1> HIDE DEF double
<1>2. PICK f \in [Nat -> Nat] : Recursion(f, 1, double)
  BY <1>1, RecursiveFunction
<1>3. ASSUME NEW n \in Nat, n # 0 PROVE double[n - 1][f[n - 1]] = 2 * f[n - 1]
  <2>1. n - 1 \in Nat /\ f[n - 1] \in Nat
    BY <1>2, <1>3
  <2> QED
    BY <1>1, <2>1
<1>4. Equation(f)
  BY <1>2, <1>3 DEF Recursion
<1>5. Equation(Shifted)
  <2>1. Shifted = CHOOSE g : Equation(g)
    BY DEF Shifted
  <2> HIDE DEF Equation
  <2> QED
    BY <1>4, <2>1
<1>6. 0 \in T /\ \A n \in Nat : n \in T => n + 1 \in T
  BY <1>5
<1>7. Nat \subseteq T
  <2> HIDE DEF T
  <2> QED
    BY <1>6, SetInduction
<1> QED
  BY <1>5, <1>7

\* A header that fits into a Duration is waited for, and a delay is never negative.
LEMMA BackoffBounds ==
  ASSUME NEW n \in Nat, NEW header \in RetryAfters \cup {NoHeader},
         NEW d \in CalculateBackoff(n, header)
  PROVE  d \in Nat /\ (header # NoHeader /\ header <= MaxDuration => d = header)
<1>1. header \in Nat \cup {NoHeader} /\ NoHeader \notin Nat
  BY RetryAssumption DEF NoHeader
<1>2. \A k \in Int : Wrapped(k) \in Int /\ NonNegative(k) \in Nat
  BY RetryAssumption DEF Wrapped, NonNegative
<1>3. CASE header = NoHeader
  <2>1. BaseDelay * Shifted[n] \in Int
    BY RetryAssumption, ShiftedType
  <2>2. \A k \in Nat : Jittered(k) \subseteq Nat
    BY DEF Jittered
  <2> QED
    BY <1>2, <1>3, <2>1, <2>2 DEF CalculateBackoff
<1>4. CASE header # NoHeader
  <2>1. header \in Nat /\ d = NonNegative(Wrapped(header))
    BY <1>1, <1>4 DEF CalculateBackoff
  <2>2. header <= MaxDuration => Wrapped(header) = header
    BY <2>1, WrappedIsExact, RetryAssumption
  <2>3. header <= MaxDuration => d = header
    BY <2>1, <2>2 DEF NonNegative
  <2> QED
    BY <1>2, <2>1, <2>3
<1> QED
  BY <1>3, <1>4

LEMMA QuotaDelayType == ASSUME NEW n \in Nat PROVE QuotaDelay(n) \subseteq Nat
<1>1. QuotaBaseDelay * Shifted[n] \in Nat
  BY RetryAssumption, ShiftedType
<1> QED
  BY <1>1, RetryAssumption DEF QuotaDelay, NonNegative

\* Whoever has been told to wait in this call of RoundTrip sleeps until then, or
\* the moment has come; in the first call nobody else has been told.
Waits(r) ==
  /\ retries429[r] > 0 =>
       /\ pc[r] = "asleep" => wake[r] >= due[r]
       /\ pc[r] \in {"ready", "sent"} => now >= due[r]
  /\ retries429[r] = 0 /\ attempt[r] = 0 /\ pc[r] # "done" => due[r] = 0

WaitInvariant ==
  /\ BudgetInvariant
  /\ now \in Nat /\ wake \in [Requests -> Nat] /\ due \in [Requests -> Nat]
  /\ \A r \in Requests : Waits(r)

\* RoundTrip returns: there is nothing to wait for.
LEMMA ReturnWaits ==
  ASSUME WaitInvariant, NEW r \in Requests, NEW res, Return(r, res), UNCHANGED now,
         due' \in [Requests -> Nat], \A q \in Requests \ {r} : due'[q] = due[q]
  PROVE  wake' \in [Requests -> Nat] /\ \A q \in Requests : Waits(q)'
<1> USE DEF WaitInvariant, BudgetInvariant, Counters
<1>1. CASE r \in QuotaRequests /\ Retryable(res) /\ attempt[r] < MaxRetries
  <2>1. PICK d \in QuotaDelay(attempt[r]) : wake' = [wake EXCEPT ![r] = now + d]
    BY <1>1 DEF Return
  <2>2. d \in Nat
    BY <2>1, QuotaDelayType
  <2>3. /\ pc' = [pc EXCEPT ![r] = "backoff"] /\ retries429' = [retries429 EXCEPT ![r] = 0]
        /\ attempt' = [attempt EXCEPT ![r] = attempt[r] + 1] /\ attempt[r] + 1 # 0
    BY <1>1 DEF Return, Goto
  <2> QED
    BY <2>1, <2>2, <2>3 DEF Waits
<1>2. CASE ~(r \in QuotaRequests /\ Retryable(res) /\ attempt[r] < MaxRetries)
  BY <1>2 DEF Return, Goto, Waits
<1> QED
  BY <1>1, <1>2

LEMMA ProceedWaits ==
  ASSUME WaitInvariant, NEW r \in Requests, Proceed(r) \/ Cancel(r)
  PROVE  WaitInvariant'
<1>0. BudgetInvariant' /\ now' \in Nat /\ now' = now
  BY ProceedBudget DEF WaitInvariant, Proceed, Begin, Send, GetBodyFails, Wake, Cancel, Answer,
     Succeed, RateLimited, Broken, ServerError, ClientError
<1>a. ASSUME NEW res, Return(r, res), UNCHANGED due PROVE WaitInvariant'
  BY <1>0, <1>a, ReturnWaits DEF WaitInvariant
<1> USE DEF WaitInvariant, BudgetInvariant, Counters
<1>1. CASE Begin(r)
  <2>1. CASE \E res : Return(r, res)
    BY <1>1, <1>a, <2>1 DEF Begin, serverVars
  <2>2. CASE Goto(r, "ready") /\ UNCHANGED <<wake, retries429, attempt>>
    <3>1. pc[r] = "new" /\ retries429[r] = 0 /\ UNCHANGED due
      BY <1>1 DEF Begin, Budget, serverVars
    <3> QED
      BY <1>0, <2>2, <3>1 DEF Goto, Waits
  <2> QED
    BY <1>1, <2>1, <2>2 DEF Begin
<1>2. CASE Send(r)
  BY <1>0, <1>2 DEF Send, Goto, Waits
<1>g. CASE GetBodyFails(r)
  BY <1>g, <1>a DEF GetBodyFails, serverVars
<1>3. CASE Wake(r) \/ Cancel(r)
  BY <1>0, <1>3 DEF Wake, Cancel, Goto, serverVars, Waits
<1>4. CASE Succeed(r)
  BY <1>4, <1>a DEF Succeed
<1>5. CASE RateLimited(r)
  <2>1. PICK header \in RetryAfters \cup {NoHeader} :
          /\ due' = [due EXCEPT ![r] =
                      IF header = NoHeader \/ header > MaxDuration THEN 0 ELSE now + header]
          /\ IF RetriesLeft(retries429[r], MaxRetries429)
               THEN /\ \E d \in CalculateBackoff(retries429[r], header) : Sleep(r, d)
                    /\ retries429' = [retries429 EXCEPT ![r] = retries429[r] + 1]
                    /\ UNCHANGED attempt
               ELSE Return(r, "limited")
    BY <1>5 DEF RateLimited
  <2>2. header = NoHeader \/ header \in Nat
    BY RetryAssumption
  <2>3. due' \in [Requests -> Nat] /\ \A q \in Requests \ {r} : due'[q] = due[q]
    BY <2>1, <2>2
  <2>4. CASE Return(r, "limited")
    BY <1>0, <2>3, <2>4, ReturnWaits
  <2>5. CASE RetriesLeft(retries429[r], MaxRetries429)
    <3>1. PICK d \in CalculateBackoff(retries429[r], header) : Sleep(r, d)
      BY <2>1, <2>5
    <3>2. d \in Nat /\ (header # NoHeader /\ header <= MaxDuration => d = header)
      BY <3>1, BackoffBounds
    <3>3. due'[r] <= now + d /\ (d = 0 => due'[r] <= now)
      BY <2>1, <2>2, <3>2, RetryAssumption
    <3>4. /\ wake' = [wake EXCEPT ![r] = now + d]
          /\ pc' = [pc EXCEPT ![r] = IF d > 0 THEN "asleep" ELSE "ready"]
          /\ retries429' = [retries429 EXCEPT ![r] = retries429[r] + 1]
          /\ UNCHANGED attempt
      BY <2>1, <2>5, <3>1 DEF Sleep, Goto
    <3> QED
      BY <1>0, <2>3, <3>2, <3>3, <3>4 DEF Waits
  <2> QED
    BY <2>1, <2>4, <2>5
<1>6. ASSUME NEW res, ServerError(r, res) PROVE WaitInvariant'
  <2>1. CASE Return(r, res)
    BY <1>6, <1>a, <2>1 DEF ServerError
  <2>2. CASE Sleep(r, ServerErrorRetryDelay) /\ UNCHANGED <<retries429, attempt>>
    <3>1. /\ wake' = [wake EXCEPT ![r] = now + ServerErrorRetryDelay]
          /\ pc' = [pc EXCEPT ![r] = IF ServerErrorRetryDelay > 0 THEN "asleep" ELSE "ready"]
          /\ pc[r] = "sent" /\ UNCHANGED due
      BY <1>6, <2>2 DEF Sleep, Goto, ServerError
    <3> QED
      BY <1>0, <2>2, <3>1, RetryAssumption DEF Waits
  <2> QED
    BY <1>6, <2>1, <2>2 DEF ServerError
<1>7. ASSUME NEW res, ClientError(r, res) PROVE WaitInvariant'
  BY <1>7, <1>a DEF ClientError, serverVars
<1>8. CASE Broken(r)
  BY <1>8, <1>a DEF Broken
<1> QED
  BY <1>1, <1>2, <1>g, <1>3, <1>4, <1>5, <1>6, <1>7, <1>8 DEF Proceed, Answer

LEMMA WaitInductive ==
  /\ Init => WaitInvariant
  /\ WaitInvariant /\ [Next]_vars => WaitInvariant'
<1>1. ASSUME Init PROVE WaitInvariant
  BY <1>1, BudgetInductive DEF Init, WaitInvariant, Waits
<1>2. ASSUME WaitInvariant, Tick \/ UNCHANGED vars PROVE WaitInvariant'
  <2>1. BudgetInvariant'
    BY <1>2, BudgetInductive DEF WaitInvariant, Next
  <2> QED
    BY <1>2, <2>1 DEF Tick, vars, serverVars, WaitInvariant, Waits, BudgetInvariant, Counters
<1> QED
  BY <1>1, <1>2, ProceedWaits DEF Next

(* RoundTrip's own retries do not go out before the moment the server asked   *)
(* to wait for, whatever header it sends and however many server errors come  *)
(* in between; only a later call of retryOnQuota forgets what the last 429 of *)
(* the call before asked for.                                                 *)
THEOREM RetryAfterIsWaitedFor == Spec => RespectsRetryAfter
<1> DEFINE Respected == \A r \in Requests :
             pc[r] = "ready" /\ pc'[r] = "sent" /\ now < due[r] =>
               attempt[r] > 0 /\ retries429[r] = 0
<1>1. WaitInvariant /\ [Next]_vars => [Respected]_vars
  <2>1. SUFFICES ASSUME WaitInvariant, NEW r \in Requests, pc[r] = "ready", now < due[r]
                 PROVE  attempt[r] > 0 /\ retries429[r] = 0
    OBVIOUS
  <2>2. /\ now \in Nat /\ due[r] \in Nat /\ attempt[r] \in Nat /\ retries429[r] \in Nat
        /\ Waits(r)
    BY <2>1, RetryAssumption DEF WaitInvariant, BudgetInvariant, Counters
  <2>3. retries429[r] = 0
    BY <2>1, <2>2 DEF Waits
  <2>4. attempt[r] # 0
    BY <2>1, <2>2, <2>3 DEF Waits
  <2> QED
    BY <2>2, <2>3, <2>4
<1> QED
  BY <1>1, WaitInductive, PTL DEF Spec, RespectsRetryAfter
---------------------------------------------------------------------------
(* The body of the request.                                                *)

\* Inside the loop of RoundTrip a request can give its body again, and no
\* attempt has gone out with less than the whole of it.
BodyInvariant ==
  /\ BudgetInvariant
  /\ body \in [Requests -> {"whole", "read"}] /\ getBody \in [Requests -> BOOLEAN]
  /\ partial = FALSE
  /\ \A r \in Requests : pc[r] \in {"ready", "sent", "asleep"} => getBody[r]

\* The next call of retryOnQuota begins outside the loop, with a new body.
LEMMA ReturnBody ==
  ASSUME BodyInvariant, NEW r \in Requests, NEW res, Return(r, res), UNCHANGED partial,
         BudgetInvariant'
  PROVE  BodyInvariant'
<1> USE DEF BodyInvariant, BudgetInvariant, Counters
<1>1. CASE r \in QuotaRequests /\ Retryable(res) /\ attempt[r] < MaxRetries
  BY <1>1 DEF Return, Goto
<1>2. CASE ~(r \in QuotaRequests /\ Retryable(res) /\ attempt[r] < MaxRetries)
  BY <1>2 DEF Return, Goto
<1> QED
  BY <1>1, <1>2

LEMMA ProceedBody ==
  ASSUME BodyInvariant, NEW r \in Requests, Proceed(r) \/ Cancel(r)
  PROVE  BodyInvariant'
<1>0. BudgetInvariant'
  BY ProceedBudget DEF BodyInvariant
<1>a. ASSUME NEW res, Return(r, res), UNCHANGED partial PROVE BodyInvariant'
  BY <1>0, <1>a, ReturnBody
<1>b. ASSUME pc[r] = "sent", UNCHANGED <<body, getBody, partial>>,
             NEW d, Sleep(r, d)
      PROVE  BodyInvariant'
  BY <1>0, <1>b DEF BodyInvariant, BudgetInvariant, Counters, Sleep, Goto
<1>1. CASE Begin(r)
  <2>1. CASE \E res : Return(r, res)
    BY <1>1, <1>a, <2>1 DEF Begin, serverVars
  <2>2. CASE Goto(r, "ready") /\ getBody' = [getBody EXCEPT ![r] = TRUE] /\ UNCHANGED body
    BY <1>0, <1>1, <2>2 DEF BodyInvariant, BudgetInvariant, Counters, Begin, Goto, serverVars
  <2> QED
    BY <1>1, <2>1, <2>2 DEF Begin
<1>2. CASE Send(r)
  <2>1. ResetBody(r) = "whole"
    BY <1>2 DEF BodyInvariant, Send, ResetBody
  <2> QED
    BY <1>0, <1>2, <2>1 DEF BodyInvariant, BudgetInvariant, Counters, Send, Goto
<1>3. CASE Wake(r) \/ Cancel(r)
  BY <1>0, <1>3 DEF BodyInvariant, BudgetInvariant, Counters, Wake, Cancel, Goto, serverVars
<1>4. CASE GetBodyFails(r)
  BY <1>4, <1>a DEF GetBodyFails, serverVars
<1>5. CASE Succeed(r)
  BY <1>5, <1>a DEF Succeed
<1>6. CASE RateLimited(r)
  BY <1>6, <1>a, <1>b DEF RateLimited
<1>7. CASE Broken(r)
  BY <1>7, <1>a DEF Broken
<1>8. ASSUME NEW res, ServerError(r, res) PROVE BodyInvariant'
  BY <1>8, <1>a, <1>b DEF ServerError
<1>9. ASSUME NEW res, ClientError(r, res) PROVE BodyInvariant'
  BY <1>9, <1>a DEF ClientError, serverVars
<1> QED
  BY <1>1, <1>2, <1>3, <1>4, <1>5, <1>6, <1>7, <1>8, <1>9 DEF Proceed, Answer

LEMMA BodyInductive ==
  /\ Init => BodyInvariant
  /\ BodyInvariant /\ [Next]_vars => BodyInvariant'
<1>1. ASSUME Init PROVE BodyInvariant
  BY <1>1, BudgetInductive DEF Init, BodyInvariant
<1>2. ASSUME BodyInvariant, Tick \/ UNCHANGED vars PROVE BodyInvariant'
  <2>1. BudgetInvariant'
    BY <1>2, BudgetInductive DEF BodyInvariant, Next
  <2> QED
    BY <1>2, <2>1 DEF Tick, vars, serverVars, BodyInvariant
<1> QED
  BY <1>1, <1>2, ProceedBody DEF Next

(* Every attempt, of the transport and of retryOnQuota around it, sends the   *)
(* whole body, also that of a request which came without a GetBody.           *)
THEOREM BodyIsSentWhole == Spec => []WholeBodySent
<1>1. BodyInvariant => WholeBodySent
  BY DEF BodyInvariant, WholeBodySent
<1> QED
  BY <1>1, BodyInductive, PTL DEF Spec

---------------------------------------------------------------------------
(* Types.                                                                  *)

\* The breaker has not seen the future.
Past ==
  /\ now \in Nat /\ open \in BOOLEAN
  /\ lastFailure \in 0..now /\ lastBad \in 0..now

LEMMA PastKept == ASSUME BreakerInvariant, Past, [Next]_vars PROVE Past'
<1>1. now' \in Nat /\ now <= now'
  BY BreakerSteps
<1>2. lastFailure' \in {now, lastFailure} /\ lastBad' \in {now, lastBad}
  BY BreakerSteps DEF breakerVars, RecordSuccess, RecordFailure, AskIfOpen
<1>3. open' \in BOOLEAN
  <2>1. CASE UNCHANGED breakerVars
    BY <2>1 DEF Past, breakerVars
  <2>2. CASE RecordSuccess
    BY <2>2 DEF RecordSuccess
  <2>3. CASE RecordFailure
    BY <2>3 DEF RecordFailure
  <2>4. CASE AskIfOpen
    BY <2>4 DEF AskIfOpen, Past
  <2> QED
    BY <2>1, <2>2, <2>3, <2>4, BreakerSteps
<1> QED
  BY <1>1, <1>2, <1>3 DEF Past

(* Every variable keeps its type: no counter passes its limit, and no delay   *)
(* is negative, whatever the Retry-After headers and the jitter.              *)
THEOREM TypesCorrect == Spec => []TypeOK
<1>1. Init => Past
  <2> SUFFICES ASSUME Init PROVE Past
    OBVIOUS
  <2>1. open \in BOOLEAN
    BY DEF Init
  <2>2. now = 0 /\ lastFailure = 0 /\ lastBad = 0
    BY DEF Init
  <2> QED
    BY <2>1, <2>2 DEF Past
<1>2. BreakerInvariant /\ Past /\ [Next]_vars => Past'
  BY PastKept
<1>3. BreakerInvariant /\ WaitInvariant /\ BodyInvariant /\ Past => TypeOK
  <2> SUFFICES ASSUME BreakerInvariant, WaitInvariant, BodyInvariant, Past PROVE TypeOK
    OBVIOUS
  <2>1. \A r \in Requests : /\ attempt[r] \in 0..MaxRetries
                            /\ retries429[r] \in 0..MaxRetries429
                            /\ retries5xx[r] \in 0..MaxRetries5xx
    BY RetryAssumption DEF BodyInvariant, BudgetInvariant, Counters, Budget
  <2>2. /\ attempt \in [Requests -> 0..MaxRetries]
        /\ retries429 \in [Requests -> 0..MaxRetries429]
        /\ retries5xx \in [Requests -> 0..MaxRetries5xx]
    BY <2>1 DEF BodyInvariant, BudgetInvariant, Counters
  <2>3. /\ sent \in [Requests -> Nat] /\ effects \in [Requests -> Nat]
        /\ pc \in [Requests -> {"new", "ready", "sent", "asleep", "backoff", "done"}]
    BY DEF BodyInvariant, BudgetInvariant, Counters
  <2> QED
    BY <2>2, <2>3 DEF BreakerInvariant, WaitInvariant, BodyInvariant, Past, TypeOK
<1> QED
  BY <1>1, <1>2, <1>3, BreakerInductive, WaitInductive, BodyInductive, PTL DEF Spec
=============================================================================
