CONSTANTS
    NumOrders = 2
    Accounts = {"a"}
    Targets = {1, 2}
    Refs = {"r1", "r2"}
    MaxCachedOrders = 9
    ClientIds = {1}
    Routed = {"a"}
    Meta <- McMeta
    RiskCheck = TRUE
    HandleExternal = FALSE
    ReuseIds = FALSE
    MaxPendingReports = 1
    MaxTraded = 2
    MaxCancels = 1
    Requests <- McRequests
    Reports = {}
    Updates <- McUpdates
    RefOf <- McRefOf
    ReportStyle = "both"
    Ambiguous = FALSE
    LossyFeedback = FALSE
    ChanCap = 1
    CtlCap = 1
    GraceCap = 1
    EngSymbols = {"a"}
    MaxTicks = 1
    EngOrders = {1}
    EngConfigs <- McEngConfigs
    OkxOrders = {1}
    OkxDerivatives = {2}
    OkxQty = 1
    OkxInstruments = {"p", "q"}
    MaxOutages = 2
    OkxCases <- McOkxCases
    QueryFails = TRUE
    RecOrders = {1}
    RecTrades = {1}
    MaxVersions = 2
    RecQueueCap = 1
    InboxCap = 2
    RecFaults = 1
    LastMonth = 2
    RetentionMonths = 1
    RecCases <- McRecCases
SPECIFICATION LiveSpec
PROPERTIES
    
    CommandsHandled
    OkReconnects
    
CHECK_DEADLOCK FALSE
