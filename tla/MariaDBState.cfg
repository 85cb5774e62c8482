\* Two calls on one host or on two, each cancelled twice at most; two of the names are one
\* to the collation.
CONSTANTS
    c1 = c1
    c2 = c2
    h1 = h1
    h2 = h2
    k = k
    l = l
    None = None
    Hosts <- MCHosts
    Calls <- MCCalls
    Requests <- MCRequests
    Collated <- UnicodeCi
    MaxCancels = 2
SPECIFICATION Spec
SYMMETRY Interchangeable
INVARIANTS
    SharesOnlyAfterSecondCancel
    NoTransactionInherited
PROPERTIES
    ImplementsStateStore
\* The calls are made once.
CHECK_DEADLOCK FALSE
