CONSTANTS
    NumOrders = 3
    Accounts = {"a"}
    Targets = {1, 2}
    Refs = {"r"}
    MaxCachedOrders = 1
    ClientIds = {1, 2}
    Routed = {"a"}
    Meta <- McMeta
    RiskCheck = TRUE
    HandleExternal = FALSE
    ReuseIds = FALSE
    MaxPendingReports = 1
    MaxTraded = 1
    MaxCancels = 2
    Requests <- McRequests
    Reports <- McReports
    Updates <- McUpdates
    Calls = {"c1"}
    IdsOf <- McIdsOf
    MaxCalls = 2
    MaxClosings = 3
    ParityRequests <- McParityRequests
    ParityReports <- McParityReports
    ParityConfig <- McParityConfig
    V1ClientIds = {1, 2}
    V1Refs = {"r", "x2"}
    V1Routed = {"a"}
    V1Fund = 1
    V1Base = 2
    V1Price = 1
    V1Batching = TRUE
    NoAccount = "none"
    V1Configs <- McV1Configs
    V1Funded = 2
    V1Requests <- McV1Requests
    V1Reports <- McV1Reports
    V1Updates <- McV1Updates
    V1MaxTraded = 1
    V1MaxPending = 1
    BtAccount = "a"
    BtRefs <- McBtRefs
    BtPolicies = {"immediate", "fcfs"}
    BtStreams <- McStreams
    BtQtys = {0, 2}
    BtDelays = {0, 5}
    BtCron = 9
    BtEnd = 18
    BtMaxAsked = 3
VIEW ViewsView
SPECIFICATION ViewsSpec
INVARIANTS
    ReplicaShowsCore
    
    V1HeldByUnfinished
    OmsTracksSimulator
PROPERTIES
    RetryKeepsOpenOrder
CHECK_DEADLOCK FALSE
