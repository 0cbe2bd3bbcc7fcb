SPECIFICATION Spec
CONSTANTS
    j1 = j1
    j2 = j2
    j3 = j3
    Job = {j1, j3}
    Nil = Nil
    TSubmit <- MCTSubmit
    MaxPriority = 1
    Policy = "easy"
    QueueDepth = 2
    ReservationDepth = 1
    StartTime = {1}
    RemoveMayFail = TRUE
    MaxInserts = 2
    MaxDeferred = 1
INVARIANTS TypeOK RequestTracked ResourceAgreement DeferredDrained
