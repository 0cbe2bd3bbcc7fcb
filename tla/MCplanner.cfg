SPECIFICATION PSpec
CONSTANTS
    core = core
    gpu = gpu
    ResType <- MCResType
    Total <- MCTotal
    NewTotals <- MCNewTotals
    PlanEnd = 3
    Requests <- MCRequests
    Queries <- MCQueries
    MaxAdds = 2
    MaxUpdates = 1
INVARIANTS PTypeOK Accounting NothingOrphaned EarliestFirst NextGoesOn
PROPERTY ImplementsTimeline
