CONSTANTS
    j1 = j1
    j2 = j2
    j3 = j3
    Job = {j1, j2, j3}
    Rank <- MCRank
    Need <- MCNeed
    QueueOf <- MCTwoQueues
    Constrained = {}
    FileRanks = {0}
    Scenarios <- MCShared
    Unset = Unset
    NotANumber = NotANumber
    NoR = NoR
    Nobody = Nobody
    Never = Never
SPECIFICATION Spec
CHECK_DEADLOCK FALSE
INVARIANT NoStuckJob
