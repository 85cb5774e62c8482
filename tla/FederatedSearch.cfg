CONSTANTS
    none = none
    Queried = {1, 2}
    Wayward = {2}
    AnyPage <- MCAnyPage
    Records = {1, 2, 3, 4}
    Matching = {1, 3, 4}
    PageSize = 2
    NoLimit = none
    Limits <- MCLimits
    Datasets <- MCDatasets
    MaxEdits = 1
SPECIFICATION FairSearch
INVARIANTS
    AnswersTheQuery
    BooksAreTrue
PROPERTIES
    SearchEnds
\* The call ends, and with it the system.
CHECK_DEADLOCK FALSE
