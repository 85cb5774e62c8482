\* The local filter drops records, and the search reads on.
CONSTANTS
    none = none
    Queried = {1, 2}
    Wayward = {2}
    AnyPage <- MCAnyPage
    Records = {1, 2, 3, 4}
    Matching = {1, 3, 4}
    PageSize = 2
    NoLimit = none
    Limits <- MCLimits
    Datasets <- MCDatasets
    MaxEdits = 1
SPECIFICATION FairSearch
INVARIANT LimitCapsWhatIsSent
CHECK_DEADLOCK FALSE
