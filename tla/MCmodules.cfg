CONSTANTS
    j1 = j1
    j2 = j2
    j3 = j3
    Job = {j1, j2, j3}
    Rank <- MCRank
    Need <- MCNeed
    QueueOf <- MCQueueOf
    Constrained = {j3}
    FileRanks = {0}
    Scenarios <- MCScenarios
    Unset = Unset
    NotANumber = NotANumber
    NoR = NoR
    Nobody = Nobody
    Never = Never
SPECIFICATION Spec
CHECK_DEADLOCK FALSE
INVARIANTS
    SubscribersAgree
    NoStuckJob
    JobsKeepResources
    StatusCurrent
    DepthsInRange
PROPERTIES
    RestartsKeepJobs
