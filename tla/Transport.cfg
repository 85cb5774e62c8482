CONSTANTS
    r1 = r1
    r2 = r2
    w = w
    None = None
    Requests <- MCRequests
    Idempotent <- MCIdempotent
    RetryAfters <- MCRetryAfters
    Concurrency = 2
    MinInterval = 2
    MaxAttempts = 2
    InitialDelay = 2
    Multiplier = 2
    MaxDelay = 3
    RespectRetryAfter = TRUE
    MaxRetryAfter = 4
SPECIFICATION FairSpec
INVARIANTS
    MutatesAtMostOnce
PROPERTIES
    RateRespected
    RetryAfterHonoured
    RequestsEnd
\* Every request ends.
CHECK_DEADLOCK FALSE
