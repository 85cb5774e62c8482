CONSTANTS
    tag = tag
    note = note
    secret = secret
    Facts <- MCFacts
    Tag = tag
    Removed = {note}
    Forbidden = {secret}
    Absent = Absent
    Uuids <- MCUuids
    Drafts <- MCDrafts
    Jobs <- MCJobs
    Starts <- MCStarts
    MaxEdits = 1
    MaxRuns = 2
SPECIFICATION Spec
INVARIANT
    NewerWins
CHECK_DEADLOCK FALSE
