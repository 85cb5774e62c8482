\* A call that is cancelled again while it waits for its thread.
CONSTANTS
    c1 = c1
    c2 = c2
    h1 = h1
    h2 = h2
    k = k
    l = l
    None = None
    Hosts <- MCHosts
    Calls <- MCCalls
    Requests <- MCRequests
    Collated <- Binary
    MaxCancels = 2
SPECIFICATION Spec
INVARIANT OneThreadOnConnection
CHECK_DEADLOCK FALSE
