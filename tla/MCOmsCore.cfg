CONSTANTS
    NumOrders = 3
    Accounts = {"a"}
    Targets = {1, 2}
    Refs = {"r"}
    MaxCachedOrders = 1
    ClientIds = {1, 2}
    Routed = {"a"}
    Meta <- McMeta
    RiskCheck = TRUE
    HandleExternal = TRUE
    ReuseIds = FALSE
    MaxPendingReports = 1
    MaxTraded = 1
    MaxCancels = 1
    Requests <- McRequests
    Reports <- McReports
    Updates <- McUpdates
VIEW CoreView
SPECIFICATION McSpec
INVARIANTS ReservedTotalsExact ReservationsBacked OpenOrdersLive CacheBounded PositionNeverNegative
PROPERTIES CashNeverOvercommitted FillsNeverRegress
