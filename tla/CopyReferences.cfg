SPECIFICATION Spec
CONSTANTS
    Cases <- MCCases
    Known <- MCKnown
    Copied <- MCCopied
    Given <- MCGiven
    MaxCopies = 1
    MaxEdits = 1
INVARIANTS CopyPointsInside
\* A policy may reject the event for good, and then nothing is left to do.
CHECK_DEADLOCK FALSE
