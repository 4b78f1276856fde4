CONSTANTS
    NumOrders = 2
    Accounts = {"a"}
    Targets = {1, 2}
    Refs = {"r1", "r2"}
    MaxCachedOrders = 9
    ClientIds = {1, 2}
    Routed = {"a"}
    Meta <- McMeta
    RiskCheck = TRUE
    HandleExternal = FALSE
    ReuseIds = FALSE
    MaxPendingReports = 1
    MaxTraded = 2
    MaxCancels = 1
    Requests <- SpotRequests
    Reports = {}
    Updates <- Cash
    RefOf <- McRefOf
    ReportStyle = "state"
    Ambiguous = FALSE
    LossyFeedback = FALSE
VIEW StateView
SPECIFICATION StateSpec
INVARIANTS PositionsMatchFills 
CHECK_DEADLOCK FALSE
