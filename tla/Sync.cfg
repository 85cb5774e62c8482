CONSTANTS
    tag = tag
    note = note
    secret = secret
    Facts <- MCFacts
    Tag = tag
    Removed = {note}
    Forbidden = {secret}
    Absent = Absent
    Uuids <- MCUuids
    Drafts <- MCDrafts
    Jobs <- MCJobs
    Starts <- MCStarts
    MaxEdits = 1
    MaxRuns = 2
SPECIFICATION Spec
INVARIANTS
    EveryCopyAccounted
    ComesToRest
PROPERTIES
    KeepsToTheJob
CHECK_DEADLOCK FALSE
