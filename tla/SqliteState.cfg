\* The methods of the backend, two at a time, with one crash.
CONSTANTS
    c1 = c1
    c2 = c2
    k = k
    None = None
    Calls <- MCCalls
    Requests <- MCRequests
    MaxCrashes = 1
SPECIFICATION FairSpec
INVARIANTS
    NothingIsLeftOpen
PROPERTIES
    ImplementsStateStore
    CallsEnd
\* The calls are made once.
CHECK_DEADLOCK FALSE
