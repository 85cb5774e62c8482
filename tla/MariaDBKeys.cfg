\* Two names that the collation does not tell apart.
CONSTANTS
    c1 = c1
    c2 = c2
    h1 = h1
    h2 = h2
    k = k
    l = l
    None = None
    Hosts <- MCHosts
    Calls <- MCCalls
    Requests <- NamedRequests
    Collated <- UnicodeCi
    MaxCancels = 0
SPECIFICATION Spec
INVARIANT KeepsEveryName
CHECK_DEADLOCK FALSE
