SPECIFICATION FairSpec
CONSTANTS
    j1 = j1
    j2 = j2
    j3 = j3
    Job = {j1, j2}
    Nil = Nil
    TSubmit <- MCTSubmit
    MaxPriority = 0
    Policy = "fcfs"
    QueueDepth = 2
    ReservationDepth = 1
    StartTime = {1}
    RemoveMayFail = FALSE
    MaxInserts = 2
    MaxDeferred = 2
PROPERTY CancelAnswered
