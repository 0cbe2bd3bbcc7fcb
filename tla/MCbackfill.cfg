SPECIFICATION Spec
CONSTANTS
    j1 = j1
    j2 = j2
    j3 = j3
    Job = {j1, j2, j3}
    Nil = Nil
    TSubmit <- MCTSubmitEqual
    MaxPriority = 0
    Policy = "easy"
    QueueDepth = 2
    ReservationDepth = 1
    StartTime = {1}
    RemoveMayFail = FALSE
    MaxInserts = 3
    MaxDeferred = 1
SYMMETRY MCSymmetry
INVARIANTS ReservationBound NoLostWakeup
PROPERTY BackfillOrder
