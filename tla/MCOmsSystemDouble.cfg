CONSTANTS
    NumOrders = 2
    Accounts = {"a"}
    Targets = {1, 2}
    Refs = {"r1", "r2"}
    MaxCachedOrders = 9
    ClientIds = {1}
    Routed = {"a"}
    Meta <- McMeta
    RiskCheck = TRUE
    HandleExternal = FALSE
    ReuseIds = FALSE
    MaxPendingReports = 1
    MaxTraded = 2
    MaxCancels = 1
    Requests <- SpotRequests
    Reports = {}
    Updates <- Cash
    RefOf <- McRefOf
    ReportStyle = "both"
    Ambiguous = FALSE
    LossyFeedback = FALSE
VIEW SysView
SPECIFICATION SysSpec
INVARIANTS PositionsMatchFills
CHECK_DEADLOCK FALSE
