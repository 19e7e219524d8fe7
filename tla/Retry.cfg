\* Two requests share the breaker; one goes through retryOnQuota, one has a
\* body that can be read once.  Retry-After headers overflow a Duration.
SPECIFICATION FairSpec
CONSTANTS
  r1 = r1
  r2 = r2
  Requests = {r1, r2}
  QuotaRequests = {r1}
  StreamRequests = {r1}
  MaxRetries429 = 1
  MaxRetries5xx = 1
  BaseDelay = 0
  ServerErrorRetryDelay = 1
  Threshold = 2
  ResetTime = 0
  MaxRetries = 1
  QuotaBaseDelay = 1
  QuotaMaxDelay = 1
  RetryAfters = {1, 3}
  MaxDuration = 1
  Answers = {"ok", "limited", "serverError", "broken", "quota"}
  MaxTime = 0
CHECK_DEADLOCK FALSE
INVARIANTS TypeOK AttemptsBounded WholeBodySent
PROPERTIES RejectedOnlyWhenFailing RespectsRetryAfter EveryRequestEnds
