\* Two requests, two pages of one row, two fetches at once, two polls.
SPECIFICATION ViewsSpec
CONSTANTS
    NumRequests = 2
    Outcomes = {"flagged"}
    Ranges = {30}
    FirstParam <- First
    SizeOf <- Sizes
    Sought = {1}
    MaxCalls = 2
    MaxAttempts = 2
INVARIANTS
    ShownIsSelected
    SpinnerMeansWaiting
    PageInRange
    FinalIsComplete
    ApprovedIsHonest
    RowAndDetailAgree
PROPERTIES
    PollingReachesVerdict
