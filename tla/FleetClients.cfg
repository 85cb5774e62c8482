\* One enabled server, two fan-outs, a direct caller and two aclose().
CONSTANTS
    s1 = s1
    off = off
    f1 = f1
    f2 = f2
    c1 = c1
    k1 = k1
    k2 = k2
    Loop = Loop
    None = None
    FanOuts <- MCFanOuts
    Callers <- MCCallers
    Servers <- MCServers
    Enabled <- MCEnabled
    Selections <- MCSelections
    Closers <- MCClosers
SPECIFICATION FairSpec
INVARIANTS
    OpenClientsAreOwned
    HandedOutAlive
    FanOutNeverBlocksLoop
    NoClientLeaked
PROPERTIES
    CachedClientIsStable
    AcloseTerminates
\* The system stops when every operation has ended.
CHECK_DEADLOCK FALSE
