CONSTANTS
    s1 = s1
    s2 = s2
    s3 = s3
    s4 = s4
    Selected <- MCSelected
    MaxConcurrency = 2
SPECIFICATION FairRun
INVARIANTS
    NoSilentGap
    PolicyHonoured
    FailuresAreIsolated
    CancelledRunNeverReturns
PROPERTIES
    NothingStartsAfterAbort
    RunEnds
\* run() ends, and with it the system.
CHECK_DEADLOCK FALSE
