SPECIFICATION CliSpec
CONSTANTS
    cluster = cluster
    node = node
    core = core
    ANY = ANY
    SlotType = slot
    TypeOrder <- MCTypes
    MaxCount = 4
    Vertex <- MCVertex
    Root = 1
    Parent <- MCParent
    Type <- MCType
    Size <- MCSize
    Rank <- MCRank
    Id <- MCId
    NodeType = node
    ClusterType = cluster
    PlanEnd = 4
    XJobs = 4
    GraphEnd = 3
    DefaultFilters <- AllFilters
    ReducerTypes = {core}
    NewContext <- resource_query_new
    MatchAllocate <- match_allocate
    UpdateAllocate <- update_allocate
    CancelJob <- cancel
    CancelPart <- cancel_R
    Select <- select
    Options <- MCFirst
    Requests <- MCClusterRequests
    MaxJobs = 2
    Detachable = {3}
    Criteria <- MCCriteria
    MaxCalls = 3
INVARIANTS ExclusiveIsAlone
CHECK_DEADLOCK FALSE
