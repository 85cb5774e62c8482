CONSTANTS
    a = a
    b = b
    None = None
    Callers = {a, b}
    Plans <- MCPlans
    Versions = {0, 1}
    Roles = {{0}, {1}}
    MaxAttempts = 2
    Ttl = 1
    MaxTime = 3
    MaxCalls = 2
SPECIFICATION Spec
INVARIANTS
    UnexpectedShapesAreTyped
\* Every caller makes its calls and stops.
CHECK_DEADLOCK FALSE
