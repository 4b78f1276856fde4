CONSTANTS
    NumOrders = 1
    Accounts = {"a"}
    Targets = {1, 2}
    Refs = {"r1"}
    MaxCachedOrders = 2
    ClientIds = {1}
    Routed = {"a"}
    Meta <- McMeta
    RiskCheck = TRUE
    HandleExternal = FALSE
    ReuseIds = FALSE
    MaxPendingReports = 3
    MaxTraded = 2
    MaxCancels = 0
    Requests <- McRequests
    Reports = {}
    Updates <- Cash
    RefOf <- McRefOf
    ReportStyle = "state"
    Ambiguous = FALSE
    LossyFeedback = FALSE
    PersistCapacity = 2
    MaxCrashes = 1
SPECIFICATION RestartSpec
PROPERTIES FinishedOrdersResolve
CHECK_DEADLOCK FALSE
