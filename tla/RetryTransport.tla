--------------------------- MODULE RetryTransport ---------------------------
(***************************************************************************)
(* The HTTP transport of every Google API client: RetryTransport           *)
(* (internal/googleapi/transport.go) with its CircuitBreaker               *)
(* (circuitbreaker.go), used by several requests at a time, and the retry  *)
(* loop of `docs sed` around it (internal/cmd/docs_sed_retry.go).          *)
(*                                                                         *)
(* Time is counted in units of one second.  The server answers each        *)
(* attempt with one of Answers; what it did before answering is observed   *)
(* in `effects`.                                                           *)
(***************************************************************************)
EXTENDS Integers, FiniteSets

CONSTANTS
  Requests,        \* requests of one client, possibly at the same time
  QuotaRequests,   \* those made through retryOnQuota
  StreamRequests,  \* those whose body can be read once only (no GetBody)
  MaxRetries429, MaxRetries5xx, BaseDelay, ServerErrorRetryDelay,
  Threshold, ResetTime,      \* the circuit breaker's
  MaxRetries, QuotaBaseDelay, QuotaMaxDelay,    \* retryOnQuota's
  RetryAfters,     \* Retry-After headers a 429 may carry, in seconds
  MaxDuration,     \* the largest time.Duration, in seconds
  Answers,         \* the answers the server may give
  MaxTime          \* bound

AllAnswers == {"ok", "limited",               \* below 400; 429
               "quota", "denied",             \* 403 rateLimitExceeded; other 4xx
               "serverError", "gatewayError", \* 500, 502, 503; other 5xx
               "broken"}                      \* the round trip fails

NoHeader == -1

ASSUME RetryAssumption ==
  /\ QuotaRequests \subseteq Requests /\ StreamRequests \subseteq Requests
  /\ MaxRetries429 \in Nat /\ MaxRetries5xx \in Nat /\ MaxRetries \in Nat
  /\ BaseDelay \in Nat /\ ServerErrorRetryDelay \in Nat
  /\ QuotaBaseDelay \in Nat /\ QuotaMaxDelay \in Nat
  /\ Threshold \in Nat \ {0} /\ ResetTime \in Nat
  /\ RetryAfters \subseteq Nat /\ MaxDuration \in Nat
  /\ Answers \subseteq AllAnswers
  /\ MaxTime \in Nat

VARIABLES
  now,
  failures, open, lastFailure,   \* the circuit breaker
  pc,        \* "new", "ready", "sent", "asleep", "backoff" or "done"
  retries429, retries5xx,        \* counters of the RoundTrip loop
  attempt,   \* counter of the retryOnQuota loop
  wake,      \* when the sleep ends
  body,      \* what is left of the request's body: "whole" or "read"
  getBody,   \* whether req.GetBody is set: it gives the body again
  result,
  sent,      \* observer: attempts that went out
  effects,   \* observer: times the server has carried out the request
  due,       \* observer: the server has asked not to be called before
  partial,   \* observer: an attempt went out with a body already read
  bad, lastBad  \* observers: server errors since the last success, the last one

vars == <<now, failures, open, lastFailure, pc, retries429, retries5xx, attempt,
          wake, body, getBody, result, sent, effects, due, partial, bad, lastBad>>

breakerVars == <<failures, open, lastFailure, bad, lastBad>>
serverVars  == <<sent, effects, due, partial>>

---------------------------------------------------------------------------
(* Delays.                                                                 *)

\* Arithmetic of a time.Duration: it wraps around.
Wrapped(d) == ((d + MaxDuration + 1) % (2 * (MaxDuration + 1))) - (MaxDuration + 1)

NonNegative(d) == IF d > 0 THEN d ELSE 0

\* 1 << n.
Shifted[n \in Nat] == IF n = 0 THEN 1 ELSE 2 * Shifted[n - 1]

\* An exponential delay with up to half of itself as jitter.
Jittered(d) == IF d \div 2 > 0 THEN d .. (d + (d \div 2) - 1) ELSE {d}

\* Mutant: the header is not looked at.
IgnoreRetryAfter(n, header) == Jittered(NonNegative(Wrapped(BaseDelay * Shifted[n])))

\* calculateBackoff: the Retry-After header wins over the exponential delay.
CalculateBackoff(n, header) ==
  IF header # NoHeader THEN {NonNegative(Wrapped(header))}
  ELSE Jittered(NonNegative(Wrapped(BaseDelay * Shifted[n])))

\* The delay of retryOnQuota: between a half and the whole, capped.
QuotaDelay(n) ==
  LET full == QuotaBaseDelay * Shifted[n]
      d    == IF full > QuotaMaxDelay THEN QuotaMaxDelay ELSE full
  IN  (d \div 2) .. NonNegative(d - 1)

---------------------------------------------------------------------------
(* The circuit breaker.                                                    *)

RecordFailure ==
  /\ failures' = failures + 1
  /\ lastFailure' = now
  /\ open' = (open \/ failures + 1 >= Threshold)
  /\ bad' = bad + 1 /\ lastBad' = now

\* Mutant: a success closes the breaker but keeps the count.
RecordSuccessKeepCount ==
  /\ open' = FALSE /\ bad' = 0
  /\ UNCHANGED <<failures, lastFailure, lastBad>>

RecordSuccess ==
  /\ failures' = 0
  /\ open' = FALSE
  /\ bad' = 0
  /\ UNCHANGED <<lastFailure, lastBad>>

CoolDownOver == now - lastFailure > ResetTime

\* CircuitBreaker.IsOpen: asking after the cool-down closes the breaker.
IsOpen == open /\ ~CoolDownOver

AskIfOpen ==
  /\ IF open /\ CoolDownOver
       THEN open' = FALSE /\ failures' = 0
       ELSE UNCHANGED <<open, failures>>
  /\ UNCHANGED <<lastFailure, bad, lastBad>>

---------------------------------------------------------------------------
Goto(r, next) == pc' = [pc EXCEPT ![r] = next]

\* isRetryableError.
Retryable(res) == res \in {"limited", "quota", "serverError"}

\* RoundTrip returns.  retryOnQuota may call again; every call is a new
\* request with its own body and its own counters.
Return(r, res) ==
  /\ IF r \in QuotaRequests /\ Retryable(res) /\ attempt[r] < MaxRetries
       THEN /\ Goto(r, "backoff")
            /\ \E d \in QuotaDelay(attempt[r]) : wake' = [wake EXCEPT ![r] = now + d]
            /\ attempt' = [attempt EXCEPT ![r] = attempt[r] + 1]
            /\ retries429' = [retries429 EXCEPT ![r] = 0]
            /\ retries5xx' = [retries5xx EXCEPT ![r] = 0]
            /\ body' = [body EXCEPT ![r] = "whole"]
            /\ getBody' = [getBody EXCEPT ![r] = r \notin StreamRequests]
            /\ UNCHANGED result
       ELSE /\ Goto(r, "done")
            /\ result' = [result EXCEPT ![r] = res]
            /\ UNCHANGED <<wake, attempt, retries429, retries5xx, body, getBody>>

\* RoundTrip up to its loop.  ensureReplayableBody reads a body that has no
\* GetBody, which may fail, and gives the request a GetBody of its own.
Begin(r) ==
  /\ pc[r] = "new"
  /\ AskIfOpen
  /\ \/ IsOpen /\ Return(r, "rejected")
     \/ /\ ~IsOpen
        /\ Goto(r, "ready")
        /\ getBody' = [getBody EXCEPT ![r] = TRUE]
        /\ UNCHANGED <<wake, attempt, retries429, retries5xx, body, result>>
     \/ /\ ~IsOpen /\ ~getBody[r] /\ "broken" \in Answers
        /\ Return(r, "broken")
  /\ UNCHANGED <<now, serverVars>>

\* Mutant: the body is not reset before a retry.
KeepBody(r) == body[r]

\* The head of the loop: GetBody, where there is one, gives the whole body
\* again.
ResetBody(r) == IF getBody[r] THEN "whole" ELSE body[r]

\* The GetBody the request came with fails (that of ensureReplayableBody cannot).
GetBodyFails(r) ==
  /\ "broken" \in Answers
  /\ pc[r] = "ready"
  /\ r \notin StreamRequests
  /\ Return(r, "broken")
  /\ UNCHANGED <<now, breakerVars, serverVars>>

Send(r) ==
  /\ pc[r] = "ready"
  /\ Goto(r, "sent")
  /\ partial' = (partial \/ ResetBody(r) = "read")
  /\ body' = [body EXCEPT ![r] = "read"]
  /\ sent' = [sent EXCEPT ![r] = sent[r] + 1]
  /\ UNCHANGED <<now, breakerVars, retries429, retries5xx, attempt, wake, getBody,
                 result, effects, due>>

Sleep(r, d) ==
  /\ Goto(r, IF d > 0 THEN "asleep" ELSE "ready")
  /\ wake' = [wake EXCEPT ![r] = now + d]

CarriedOut(r, done) ==
  effects' = [effects EXCEPT ![r] = effects[r] + IF done THEN 1 ELSE 0]

Succeed(r) ==
  /\ "ok" \in Answers
  /\ pc[r] = "sent"
  /\ RecordSuccess
  /\ CarriedOut(r, TRUE)
  /\ Return(r, "ok")
  /\ UNCHANGED <<now, sent, due, partial>>

\* Mutant: one retry too many.
RetriesLeftOffByOne(n, max) == n <= max

RetriesLeft(n, max) == n < max

\* 429: the server has done nothing, and may say when to come back.
RateLimited(r) ==
  /\ "limited" \in Answers
  /\ pc[r] = "sent"
  /\ \E header \in RetryAfters \cup {NoHeader} :
       /\ due' = [due EXCEPT ![r] =
                   IF header = NoHeader \/ header > MaxDuration THEN 0 ELSE now + header]
       /\ IF RetriesLeft(retries429[r], MaxRetries429)
            THEN /\ \E d \in CalculateBackoff(retries429[r], header) : Sleep(r, d)
                 /\ retries429' = [retries429 EXCEPT ![r] = retries429[r] + 1]
                 /\ UNCHANGED <<retries5xx, attempt, body, getBody, result>>
            ELSE Return(r, "limited")
  /\ UNCHANGED <<now, breakerVars, sent, effects, partial>>

\* 5xx: the server may have carried the request out all the same.
ServerError(r, res) ==
  /\ res \in Answers
  /\ pc[r] = "sent"
  /\ RecordFailure
  /\ \E done \in BOOLEAN : CarriedOut(r, done)
  /\ IF RetriesLeft(retries5xx[r], MaxRetries5xx)
       THEN /\ Sleep(r, ServerErrorRetryDelay)
            /\ retries5xx' = [retries5xx EXCEPT ![r] = retries5xx[r] + 1]
            /\ UNCHANGED <<retries429, attempt, body, getBody, result>>
       ELSE Return(r, res)
  /\ UNCHANGED <<now, sent, due, partial>>

\* Other 4xx answers are returned at once and leave the breaker alone.
ClientError(r, res) ==
  /\ res \in Answers
  /\ pc[r] = "sent"
  /\ Return(r, res)
  /\ UNCHANGED <<now, breakerVars, serverVars>>

\* The round trip fails (no answer, or the context has ended): no retry.
Broken(r) ==
  /\ "broken" \in Answers
  /\ pc[r] = "sent"
  /\ \E done \in BOOLEAN : CarriedOut(r, done)
  /\ Return(r, "broken")
  /\ UNCHANGED <<now, breakerVars, sent, due, partial>>

\* Mutant: nobody waits for the timer of retryOnQuota.
WakeTransportOnly(r) ==
  /\ now >= wake[r]
  /\ pc[r] = "asleep" /\ Goto(r, "ready")
  /\ UNCHANGED <<now, breakerVars, retries429, retries5xx, attempt, wake, body,
                 getBody, result, serverVars>>

\* The sleep ends, in RoundTrip and in retryOnQuota.
Wake(r) ==
  /\ now >= wake[r]
  /\ \/ pc[r] = "asleep" /\ Goto(r, "ready")
     \/ pc[r] = "backoff" /\ Goto(r, "new")
  /\ UNCHANGED <<now, breakerVars, retries429, retries5xx, attempt, wake, body,
                 getBody, result, serverVars>>

\* The context ends during a sleep.
Cancel(r) ==
  /\ "broken" \in Answers
  /\ pc[r] \in {"asleep", "backoff"}
  /\ Goto(r, "done")
  /\ result' = [result EXCEPT ![r] = "cancelled"]
  /\ UNCHANGED <<now, breakerVars, retries429, retries5xx, attempt, wake, body,
                 getBody, serverVars>>

\* Time goes on up to MaxTime, and as long as somebody sleeps.
Tick ==
  /\ \/ now < MaxTime
     \/ \E r \in Requests : pc[r] \in {"asleep", "backoff"} /\ now < wake[r]
  /\ now' = now + 1
  /\ UNCHANGED <<breakerVars, pc, retries429, retries5xx, attempt, wake, body,
                 getBody, result, serverVars>>

---------------------------------------------------------------------------
Init ==
  /\ now = 0
  /\ failures = 0 /\ open = FALSE /\ lastFailure = 0
  /\ pc = [r \in Requests |-> "new"]
  /\ retries429 = [r \in Requests |-> 0] /\ retries5xx = [r \in Requests |-> 0]
  /\ attempt = [r \in Requests |-> 0]
  /\ wake = [r \in Requests |-> 0]
  /\ body = [r \in Requests |-> "whole"]
  /\ getBody = [r \in Requests |-> r \notin StreamRequests]
  /\ result = [r \in Requests |-> "none"]
  /\ sent = [r \in Requests |-> 0] /\ effects = [r \in Requests |-> 0]
  /\ due = [r \in Requests |-> 0] /\ partial = FALSE
  /\ bad = 0 /\ lastBad = 0

Answer(r) == \/ Succeed(r) \/ RateLimited(r) \/ Broken(r)
             \/ \E res \in {"serverError", "gatewayError"} : ServerError(r, res)
             \/ \E res \in {"quota", "denied"} : ClientError(r, res)

Proceed(r) == Begin(r) \/ Send(r) \/ GetBodyFails(r) \/ Answer(r) \/ Wake(r)

Next == Tick \/ \E r \in Requests : Proceed(r) \/ Cancel(r)

Spec == Init /\ [][Next]_vars

\* Goroutines run, timers fire, and responseHeaderTimeout ends a round trip
\* that the server does not answer.
FairSpec == Spec /\ WF_vars(Tick) /\ \A r \in Requests : WF_vars(Proceed(r))

---------------------------------------------------------------------------
(* Properties.                                                             *)

Results == {"none", "rejected", "cancelled"} \cup AllAnswers

TypeOK ==
  /\ now \in Nat
  /\ failures \in Nat /\ open \in BOOLEAN /\ lastFailure \in 0..now
  /\ pc \in [Requests -> {"new", "ready", "sent", "asleep", "backoff", "done"}]
  /\ retries429 \in [Requests -> 0..MaxRetries429]
  /\ retries5xx \in [Requests -> 0..MaxRetries5xx]
  /\ attempt \in [Requests -> 0..MaxRetries]
  /\ wake \in [Requests -> Nat]
  /\ body \in [Requests -> {"whole", "read"}]
  /\ getBody \in [Requests -> BOOLEAN]
  /\ result \in [Requests -> Results]
  /\ sent \in [Requests -> Nat] /\ effects \in [Requests -> Nat]
  /\ due \in [Requests -> Nat] /\ partial \in BOOLEAN
  /\ bad \in Nat /\ lastBad \in 0..now

\* However the retries of the transport and of retryOnQuota are nested, and
\* whatever the other requests do to the shared breaker, a request goes out a
\* bounded number of times, and the server carries it out at most once for each
\* attempt that a server error may follow: 429 answers never add to that.
AttemptsBounded ==
  \A r \in Requests :
    LET calls == IF r \in QuotaRequests THEN 1 + MaxRetries ELSE 1 IN
    /\ sent[r] <= calls * (1 + MaxRetries429 + MaxRetries5xx)
    /\ effects[r] <= calls * (1 + MaxRetries5xx)

\* A request is turned away only while the service is failing: Threshold server
\* errors without a success between them, the last one within the cool-down.
RejectedOnlyWhenFailing ==
  [][\A r \in Requests :
       result'[r] = "rejected" /\ result[r] # "rejected" =>
         bad >= Threshold /\ now - lastBad <= ResetTime]_vars

\* RoundTrip's own retries wait until the moment the server asked to wait for.
\* An attempt goes out before it only in a later call of retryOnQuota, which
\* does not look at the header of the 429 that ended the call before, and only
\* as long as RoundTrip has seen no 429 in that call.
RespectsRetryAfter ==
  [][\A r \in Requests :
       pc[r] = "ready" /\ pc'[r] = "sent" /\ now < due[r] =>
         attempt[r] > 0 /\ retries429[r] = 0]_vars

\* Every attempt sends the whole body, also when a retry follows an attempt
\* that has read it, and the body came without a GetBody.
WholeBodySent == ~partial

\* Every request ends.
EveryRequestEnds == \A r \in Requests : <>(pc[r] = "done")
=============================================================================
